-------------------------- MODULE AdmissionProofs --------------------------
(***************************************************************************)
(* Proofs that the admission controller keeps its safety invariants, for   *)
(* every set of Functions and requests, every configuration and every      *)
(* interleaving.                                                           *)
(***************************************************************************)
EXTENDS Admission, FiniteSetTheorems, WellFoundedInduction, TLAPS

-----------------------------------------------------------------------------
(***************************************************************************)
(* Facts about numbers and queues                                          *)
(***************************************************************************)

\* A non-empty set of numbers has a least element.
LEMMA LeastOfNat ==
    ASSUME NEW T, T \subseteq Nat, T # {}
    PROVE  \E x \in T : \A y \in T : x <= y
<1> DEFINE R == OpToRel(<, Nat)
<1>1. IsWellFoundedOn(R, Nat)
  BY NatLessThanWellFounded
<1>2. \A x, y \in Nat : y < x => <<y, x>> \in R
  BY DEF OpToRel
<1> HIDE DEF R
<1>3. \E x \in T : \A y \in T : ~ (<<y, x>> \in R)
  BY <1>1, WFMin, Zenon
<1>4. PICK x \in T : \A y \in T : ~ (<<y, x>> \in R)
  BY <1>3
<1>5. \A y \in T : ~ (y < x)
  BY <1>2, <1>4, Zenon
<1> QED
  BY <1>5

\* What NumExpired chooses exists: the expired prefix of a queue is well defined.
LEMMA NumExpiredFacts ==
    ASSUME NEW q \in Seq(Envelope), now \in Nat
    PROVE  /\ NumExpired(q) \in 0..Len(q)
           /\ \A i \in 1..NumExpired(q) : q[i].deadline <= now
           /\ NumExpired(q) < Len(q) => q[NumExpired(q) + 1].deadline > now
<1> DEFINE P(n) == /\ \A i \in 1..n : q[i].deadline <= now
                   /\ n < Len(q) => q[n + 1].deadline > now
           T == {n \in Nat : n <= Len(q) /\ (n < Len(q) => q[n + 1].deadline > now)}
<1>1. Len(q) \in T
  OBVIOUS
<1>2. PICK n \in T : \A m \in T : n <= m
  BY <1>1, LeastOfNat, T \subseteq Nat
<1>3. ASSUME NEW i \in 1..n
      PROVE  q[i].deadline <= now
  <2>1. i - 1 \in Nat /\ i - 1 < n /\ i - 1 < Len(q) /\ i \in 1..Len(q)
    BY <1>2
  <2>2. i - 1 \notin T
    BY <1>2, <2>1
  <2>3. ~ (q[i].deadline > now)
    BY <2>1, <2>2
  <2>4. q[i] \in Envelope
    BY <2>1
  <2>5. q[i].deadline \in Nat
    BY <2>4 DEF Envelope
  <2> QED
    BY <2>3, <2>5
<1>4. n \in 0..Len(q) /\ P(n)
  BY <1>2, <1>3
<1>5. NumExpired(q) = CHOOSE m \in 0..Len(q) : P(m)
  BY DEF NumExpired
<1> QED
  BY <1>4, <1>5

\* A sweep keeps a suffix of each queue.
LEMMA RemainingFacts ==
    ASSUME NEW q \in Seq(Envelope), now \in Nat
    PROVE  /\ Remaining(q) \in Seq(Envelope)
           /\ Len(Remaining(q)) = Len(q) - NumExpired(q)
           /\ \A i \in 1..Len(Remaining(q)) : Remaining(q)[i] = q[NumExpired(q) + i]
<1> DEFINE n == NumExpired(q)
<1>1. n \in 0..Len(q)
  BY NumExpiredFacts
<1>2. Remaining(q) = SubSeq(q, n + 1, Len(q))
  BY DEF Remaining
<1> HIDE DEF n
<1>3. /\ SubSeq(q, n + 1, Len(q)) \in Seq(Envelope)
      /\ Len(SubSeq(q, n + 1, Len(q))) = Len(q) - n
      /\ \A i \in 1..(Len(q) - n) : SubSeq(q, n + 1, Len(q))[i] = q[n + i]
  BY <1>1
<1> QED
  BY <1>2, <1>3 DEF n

\* The cached minimum of the queue heads is one of them, and the least.
LEMMA EarliestHeadFacts ==
    ASSUME NEW qs \in [Functions -> Seq(Envelope)]
    PROVE  /\ EarliestHead(qs) \in Nat \cup {None}
           /\ \A f \in Functions : qs[f] # <<>> =>
                  EarliestHead(qs) \in Nat /\ EarliestHead(qs) <= Head(qs[f]).deadline
<1> DEFINE D == HeadDeadlines(qs)
<1>1. \A f \in Functions : qs[f] # <<>> => Head(qs[f]) \in Envelope
  OBVIOUS
<1>2. \A f \in Functions : qs[f] # <<>> => Head(qs[f]).deadline \in D
  BY DEF HeadDeadlines
<1>3. D \subseteq Nat
  BY <1>1 DEF HeadDeadlines, Envelope
<1>4. CASE D = {}
  BY <1>2, <1>4 DEF EarliestHead
<1>5. CASE D # {}
  <2> HIDE DEF D
  <2>1. PICK d \in D : \A e \in D : d <= e
    BY <1>3, <1>5, LeastOfNat
  <2>2. EarliestHead(qs) = CHOOSE x \in D : \A e \in D : x <= e
    BY <1>5 DEF EarliestHead, D
  <2>3. EarliestHead(qs) \in D /\ \A e \in D : EarliestHead(qs) <= e
    BY <2>1, <2>2
  <2> QED
    BY <1>2, <1>3, <2>3
<1> QED
  BY <1>4, <1>5

-----------------------------------------------------------------------------
(***************************************************************************)
(* The sweep                                                               *)
(***************************************************************************)

\* The part of the invariant that the handlers rely on before they sweep.
Sound ==
    /\ TypeOK
    /\ CountersExact
    /\ NeverBlockedEmpty
    /\ Placed(queues)
    /\ InOrder(queues)

\* What holds of the configuration c that a handler goes on with.
SoundConfig(c) ==
    /\ c.queues \in [Functions -> Seq(Envelope)]
    /\ c.state \in [Functions -> BlockReasons \cup {Runnable}]
    /\ c.total \in Nat /\ c.blocked \in Nat
    /\ c.next \in Nat \cup {None}
    /\ c.expired \subseteq Queued
    /\ QueuedIn(c.queues) = Queued \ c.expired
    /\ c.total = Cardinality(QueuedIn(c.queues))
    /\ total_queued_reqs = c.total + Cardinality(c.expired)
    /\ Cardinality(c.expired) \in Nat
    /\ c.blocked = Cardinality(BlockedIn(c.state))
    /\ \A f \in Functions : c.state[f] # Runnable => c.queues[f] # <<>>
    /\ Placed(c.queues)
    /\ InOrder(c.queues)
    /\ \A f \in Functions : \A i \in 1..Len(c.queues[f]) :
           \E j \in 1..Len(queues[f]) : c.queues[f][i] = queues[f][j]

LEMMA QueuedFinite ==
    ASSUME NEW qs
    PROVE  /\ QueuedIn(qs) \subseteq Requests
           /\ IsFiniteSet(QueuedIn(qs))
           /\ Cardinality(QueuedIn(qs)) \in Nat
<1>1. QueuedIn(qs) \subseteq Requests
  BY DEF QueuedIn
<1>2. IsFiniteSet(QueuedIn(qs))
  BY <1>1, FS_Subset, AdmissionAssumption
<1> QED
  BY <1>1, <1>2, FS_CardinalityType

LEMMA BlockedFinite ==
    ASSUME NEW st
    PROVE  /\ IsFiniteSet(BlockedIn(st))
           /\ Cardinality(BlockedIn(st)) \in Nat
<1>1. BlockedIn(st) \subseteq Functions
  BY DEF BlockedIn
<1>2. IsFiniteSet(BlockedIn(st))
  BY <1>1, FS_Subset, AdmissionAssumption
<1> QED
  BY <1>2, FS_CardinalityType

\* Removing a subset from a finite set lowers its cardinality by the subset's.
LEMMA CardinalityMinus ==
    ASSUME NEW A, IsFiniteSet(A), NEW B, B \subseteq A
    PROVE  /\ Cardinality(B) \in Nat /\ Cardinality(A) \in Nat
           /\ Cardinality(A \ B) = Cardinality(A) - Cardinality(B)
           /\ Cardinality(A \ B) \in Nat
<1>1. IsFiniteSet(B) /\ Cardinality(B) \in Nat /\ Cardinality(A) \in Nat
  BY FS_Subset, FS_CardinalityType
<1>2. A \cap B = B
  OBVIOUS
<1>3. IsFiniteSet(A \ B) /\ Cardinality(A \ B) = Cardinality(A) - Cardinality(A \cap B)
  BY FS_Difference
<1>4. Cardinality(A \ B) \in Nat
  BY <1>3, FS_CardinalityType
<1> QED
  BY <1>1, <1>2, <1>3, <1>4

\* The expiry sweep leaves a sound configuration.
LEMMA ExpireSound == Sound => SoundConfig(expire_queued_requests)
<1> SUFFICES ASSUME Sound PROVE SoundConfig(expire_queued_requests)
  OBVIOUS
<1> DEFINE rest == [f \in Functions |-> Remaining(queues[f])]
           n(f) == NumExpired(queues[f])
           st == [f \in Functions |-> IF f \in Unblocked THEN Runnable ELSE state[f]]
<1>1. /\ queues \in [Functions -> Seq(Envelope)] /\ now \in Nat
      /\ state \in [Functions -> BlockReasons \cup {Runnable}]
  BY DEF Sound, TypeOK
<1>2. \A f \in Functions : n(f) \in 0..Len(queues[f])
  BY <1>1, NumExpiredFacts
<1>3. \A f \in Functions :
          /\ rest[f] \in Seq(Envelope)
          /\ Len(rest[f]) = Len(queues[f]) - n(f)
          /\ \A i \in 1..Len(rest[f]) : rest[f][i] = queues[f][n(f) + i]
  BY <1>1, RemainingFacts
<1>4. rest \in [Functions -> Seq(Envelope)]
  BY <1>3
<1>5. \A f \in Functions : \A i \in 1..Len(rest[f]) :
          n(f) + i \in 1..Len(queues[f]) /\ rest[f][i] = queues[f][n(f) + i]
  BY <1>1, <1>2, <1>3
<1>6. ExpiredReqs \subseteq Queued
  BY <1>1, <1>2 DEF ExpiredReqs, Queued, QueuedIn
<1> HIDE DEF n
<1>7. QueuedIn(rest) = Queued \ ExpiredReqs
  <2>1. ASSUME NEW r \in QueuedIn(rest) PROVE r \in Queued \ ExpiredReqs
    <3>1a. PICK f \in Functions : \E i \in 1..Len(rest[f]) : rest[f][i].req = r
      BY DEF QueuedIn
    <3>1. PICK i \in 1..Len(rest[f]) : rest[f][i].req = r
      BY <3>1a
    <3>2. n(f) + i \in 1..Len(queues[f]) /\ queues[f][n(f) + i].req = r
      BY <1>5, <3>1
    <3>3. r \in Queued
      BY <3>2 DEF Queued, QueuedIn
    <3>4. ASSUME r \in ExpiredReqs PROVE FALSE
      <4>1a. PICK g \in Functions : \E j \in 1..n(g) : queues[g][j].req = r
        BY <3>4 DEF ExpiredReqs, n
      <4>1. PICK j \in 1..n(g) : queues[g][j].req = r
        BY <4>1a
      <4>2. j \in 1..Len(queues[g])
        BY <1>1, <1>2, <4>1
      <4>3. g = f
        BY <3>2, <4>1, <4>2 DEF Sound, Placed
      <4>4. j = n(f) + i
        BY <3>2, <4>1, <4>2, <4>3 DEF Sound, Placed
      <4> QED
        BY <1>1, <1>2, <1>3, <4>1, <4>3, <4>4
    <3> QED
      BY <3>3, <3>4
  <2>2. ASSUME NEW r \in Queued, r \notin ExpiredReqs PROVE r \in QueuedIn(rest)
    <3>1a. PICK f \in Functions : \E i \in 1..Len(queues[f]) : queues[f][i].req = r
      BY DEF Queued, QueuedIn
    <3>1. PICK i \in 1..Len(queues[f]) : queues[f][i].req = r
      BY <3>1a
    <3>2. r \in Requests
      BY DEF Queued, QueuedIn
    <3>3. i \notin 1..n(f)
      BY <2>2, <3>1, <3>2 DEF ExpiredReqs, n
    <3>4. i - n(f) \in 1..Len(rest[f]) /\ rest[f][i - n(f)] = queues[f][i]
      <4>1. Len(queues[f]) \in Nat /\ n(f) \in 0..Len(queues[f]) /\ i \in 1..Len(queues[f])
        BY <1>1, <1>2, <3>1
      <4>2. i - n(f) \in 1..(Len(queues[f]) - n(f)) /\ n(f) + (i - n(f)) = i
        BY <3>3, <4>1
      <4> HIDE DEF rest
      <4> QED
        BY <1>3, <4>2
    <3> QED
      BY <3>1, <3>2, <3>4 DEF QueuedIn
  <2> QED
    BY <2>1, <2>2
<1>8. /\ Cardinality(ExpiredReqs) \in Nat
      /\ total_queued_reqs - Cardinality(ExpiredReqs) = Cardinality(QueuedIn(rest))
      /\ total_queued_reqs = (total_queued_reqs - Cardinality(ExpiredReqs)) + Cardinality(ExpiredReqs)
  <2>1. total_queued_reqs = Cardinality(Queued) /\ IsFiniteSet(Queued)
    BY QueuedFinite DEF Sound, CountersExact, Queued
  <2>2. /\ Cardinality(ExpiredReqs) \in Nat /\ Cardinality(Queued) \in Nat
        /\ Cardinality(Queued \ ExpiredReqs) = Cardinality(Queued) - Cardinality(ExpiredReqs)
    BY <1>6, <2>1, CardinalityMinus
  <2> HIDE DEF rest
  <2> QED
    BY <1>7, <2>1, <2>2
<1>9. /\ BlockedIn(st) = BlockedIn(state) \ Unblocked
      /\ Unblocked \subseteq BlockedIn(state)
  BY <1>1 DEF BlockedIn, Unblocked
<1>10. blocked_function_count - Cardinality(Unblocked) = Cardinality(BlockedIn(st))
  BY <1>9, BlockedFinite, CardinalityMinus DEF Sound, CountersExact
<1>11. ASSUME NEW f \in Functions, st[f] # Runnable PROVE rest[f] # <<>>
  BY <1>1, <1>11 DEF Unblocked
<1>12. Placed(rest)
  <2>1. ASSUME NEW f \in Functions, NEW i \in 1..Len(rest[f])
        PROVE  FunctionOf[rest[f][i].req] = f
    BY <1>5 DEF Sound, Placed
  <2>2. ASSUME NEW f \in Functions, NEW i \in 1..Len(rest[f]), NEW j \in 1..Len(rest[f]),
               rest[f][i].req = rest[f][j].req
        PROVE  i = j
    <3>1. n(f) + i = n(f) + j
      BY SMTT(40), <1>5, <2>2 DEF Sound, Placed
    <3> QED
      BY <1>1, <1>2, <1>3, <3>1
  <2> QED
    BY <2>1, <2>2 DEF Placed
<1>13. InOrder(rest)
  <2>1. ASSUME NEW f \in Functions, NEW i \in 1..Len(rest[f]), NEW j \in 1..Len(rest[f]), i < j
        PROVE  rest[f][i].ticket < rest[f][j].ticket
    <3>1. n(f) + i < n(f) + j
      BY <1>1, <1>2, <1>3, <2>1
    <3> QED
      BY <1>5, <3>1 DEF Sound, InOrder
  <2> QED
    BY <2>1 DEF InOrder
<1>14. EarliestHead(rest) \in Nat \cup {None}
  BY <1>4, EarliestHeadFacts
<1>15. st \in [Functions -> BlockReasons \cup {Runnable}]
  BY <1>1
<1>16. \A f \in Functions : \A i \in 1..Len(rest[f]) :
           \E j \in 1..Len(queues[f]) : rest[f][i] = queues[f][j]
  BY <1>5
<1>17. /\ Cardinality(QueuedIn(rest)) \in Nat
       /\ Cardinality(BlockedIn(st)) \in Nat
  BY QueuedFinite, BlockedFinite
<1> DEFINE c == expire_queued_requests
<1>18. /\ c.queues = rest /\ c.state = st
       /\ c.total = total_queued_reqs - Cardinality(ExpiredReqs)
       /\ c.blocked = blocked_function_count - Cardinality(Unblocked)
       /\ c.next = EarliestHead(rest)
       /\ c.expired = ExpiredReqs
  BY DEF expire_queued_requests
<1> HIDE DEF c, rest, st
<1>19. SoundConfig(c)
  BY <1>4, <1>6, <1>7, <1>8, <1>10, <1>11, <1>12, <1>13, <1>14, <1>15, <1>16, <1>17, <1>18
     DEF SoundConfig
<1> QED
  BY <1>19 DEF c

\* So does a handler that found no deadline due.
LEMMA SweptSound ==
    ASSUME Sound, NEW due \in BOOLEAN
    PROVE  SoundConfig(Swept(due))
<1>1. CASE due
  BY <1>1, ExpireSound DEF Swept
<1>2. CASE ~due
  <2>1. Cardinality({}) = 0
    BY FS_EmptySet
  <2>2. SoundConfig(unswept)
    BY <2>1 DEF SoundConfig, unswept, Sound, TypeOK, CountersExact, NeverBlockedEmpty, Queued
  <2> QED
    BY <1>2, <2>2 DEF Swept
<1> QED
  BY <1>1, <1>2
-----------------------------------------------------------------------------
(***************************************************************************)
(* What the queue operations preserve                                      *)
(***************************************************************************)

\* push_back adds one request.
LEMMA AppendQueued ==
    ASSUME NEW qs \in [Functions -> Seq(Envelope)], NEW f \in Functions, NEW env \in Envelope
    PROVE  QueuedIn([qs EXCEPT ![f] = Append(@, env)]) = QueuedIn(qs) \cup {env.req}
<1> DEFINE q2 == [qs EXCEPT ![f] = Append(@, env)]
           n == Len(qs[f])
<1>1. /\ qs[f] \in Seq(Envelope) /\ n \in Nat
      /\ q2[f] = Append(qs[f], env)
      /\ q2[f] \in Seq(Envelope) /\ Len(q2[f]) = n + 1 /\ q2[f][n + 1] = env
      /\ \A i \in 1..n : q2[f][i] = qs[f][i]
      /\ \A g \in Functions \ {f} : q2[g] = qs[g]
  OBVIOUS
<1>3. env.req \in Requests
  BY DEF Envelope
<1> HIDE DEF q2, n
<1>5. \A i \in 1..(n + 1) : i = n + 1 \/ i \in 1..n
  BY <1>1
<1>6. QueuedIn(q2) = QueuedIn(qs) \cup {env.req}
  <2>1. ASSUME NEW r \in QueuedIn(q2) PROVE r \in QueuedIn(qs) \cup {env.req}
    <3>1. PICK g \in Functions : \E i \in 1..Len(q2[g]) : q2[g][i].req = r
      BY DEF QueuedIn
    <3>2. CASE g = f
      <4>1. PICK i \in 1..(n + 1) : q2[f][i].req = r
        BY <1>1, <3>1, <3>2
      <4>2. i = n + 1 \/ (i \in 1..Len(qs[f]) /\ qs[f][i].req = r)
        BY <1>1, <1>5, <4>1 DEF n
      <4>3. r \in Requests
        BY DEF QueuedIn
      <4> QED
        BY <1>1, <4>1, <4>2, <4>3 DEF QueuedIn
    <3>3. CASE g # f
      BY <1>1, <3>1, <3>3 DEF QueuedIn
    <3> QED
      BY <3>2, <3>3
  <2>2. ASSUME NEW r \in QueuedIn(qs) PROVE r \in QueuedIn(q2)
    <3>1. PICK g \in Functions : \E i \in 1..Len(qs[g]) : qs[g][i].req = r
      BY DEF QueuedIn
    <3>2. CASE g = f
      <4>1. PICK i \in 1..n : qs[f][i].req = r
        BY <3>1, <3>2 DEF n
      <4>2. i \in 1..Len(q2[f]) /\ q2[f][i].req = r
        BY <1>1, <4>1
      <4> QED
        BY <4>2 DEF QueuedIn
    <3>3. CASE g # f
      BY <1>1, <3>1, <3>3 DEF QueuedIn
    <3> QED
      BY <3>2, <3>3
  <2>3. env.req \in QueuedIn(q2)
    <3>1. n + 1 \in 1..Len(q2[f]) /\ q2[f][n + 1].req = env.req
      BY <1>1
    <3> QED
      BY <1>3, <3>1 DEF QueuedIn
  <2> QED
    BY <2>1, <2>2, <2>3
<1> QED
  BY <1>6 DEF q2

\* push_back of a request that no queue holds.
LEMMA AppendKeeps ==
    ASSUME NEW qs \in [Functions -> Seq(Envelope)], NEW f \in Functions, NEW env \in Envelope,
           Placed(qs), InOrder(qs), FunctionOf[env.req] = f, env.req \notin QueuedIn(qs),
           \A i \in 1..Len(qs[f]) : qs[f][i].ticket < env.ticket
    PROVE  LET q2 == [qs EXCEPT ![f] = Append(@, env)] IN
           /\ q2 \in [Functions -> Seq(Envelope)]
           /\ QueuedIn(q2) = QueuedIn(qs) \cup {env.req}
           /\ Placed(q2) /\ InOrder(q2)
           /\ q2[f] # <<>>
<1> DEFINE q2 == [qs EXCEPT ![f] = Append(@, env)]
           n == Len(qs[f])
<1>1. /\ qs[f] \in Seq(Envelope) /\ n \in Nat
      /\ q2[f] = Append(qs[f], env)
      /\ q2[f] \in Seq(Envelope) /\ Len(q2[f]) = n + 1 /\ q2[f][n + 1] = env
      /\ \A i \in 1..n : q2[f][i] = qs[f][i]
      /\ \A g \in Functions \ {f} : q2[g] = qs[g]
  OBVIOUS
<1>2. q2 \in [Functions -> Seq(Envelope)]
  OBVIOUS
<1>3. env.req \in Requests
  BY DEF Envelope
<1>4. \A i \in 1..n : qs[f][i].req # env.req
  BY <1>3 DEF QueuedIn
<1> HIDE DEF q2, n
<1>5. \A i \in 1..(n + 1) : i = n + 1 \/ i \in 1..n
  BY <1>1
<1>6. QueuedIn(q2) = QueuedIn(qs) \cup {env.req}
  BY AppendQueued DEF q2
<1>7. Placed(q2)
  <2>1. ASSUME NEW g \in Functions, NEW i \in 1..Len(q2[g])
        PROVE  FunctionOf[q2[g][i].req] = g
    <3>1. CASE g = f
      BY <1>1, <1>5, <3>1 DEF Placed, n
    <3>2. CASE g # f
      BY <1>1, <3>2 DEF Placed
    <3> QED
      BY <3>1, <3>2
  <2>2. ASSUME NEW g \in Functions, NEW i \in 1..Len(q2[g]), NEW j \in 1..Len(q2[g]),
               q2[g][i].req = q2[g][j].req
        PROVE  i = j
    <3>1. CASE g = f
      BY SMTT(40), <1>1, <1>4, <1>5, <2>2, <3>1 DEF Placed, n
    <3>2. CASE g # f
      BY <1>1, <2>2, <3>2 DEF Placed
    <3> QED
      BY <3>1, <3>2
  <2> QED
    BY <2>1, <2>2 DEF Placed
<1>8. InOrder(q2)
  <2>1. ASSUME NEW g \in Functions, NEW i \in 1..Len(q2[g]), NEW j \in 1..Len(q2[g]), i < j
        PROVE  q2[g][i].ticket < q2[g][j].ticket
    <3>1. CASE g = f
      <4>1. i \in 1..n
        BY <1>1, <2>1, <3>1
      <4>2. CASE j = n + 1
        BY <1>1, <3>1, <4>1, <4>2 DEF n
      <4>3. CASE j \in 1..n
        BY <1>1, <2>1, <3>1, <4>1, <4>3 DEF InOrder, n
      <4> QED
        BY <1>1, <1>5, <3>1, <4>2, <4>3
    <3>2. CASE g # f
      BY <1>1, <2>1, <3>2 DEF InOrder
    <3> QED
      BY <3>1, <3>2
  <2> QED
    BY <2>1 DEF InOrder
<1>9. q2[f] # <<>>
  <2>1. Len(<<>>) = 0
    OBVIOUS
  <2>2. Len(q2[f]) # 0
    BY <1>1
  <2> QED
    BY <2>1, <2>2
<1> QED
  BY <1>2, <1>6, <1>7, <1>8, <1>9 DEF q2

\* push_front adds one request.
LEMMA PushQueued ==
    ASSUME NEW qs \in [Functions -> Seq(Envelope)], NEW f \in Functions, NEW env \in Envelope
    PROVE  QueuedIn([qs EXCEPT ![f] = push_front(@, env)]) = QueuedIn(qs) \cup {env.req}
<1> DEFINE q2 == [qs EXCEPT ![f] = push_front(@, env)]
           n == Len(qs[f])
<1>1. /\ qs[f] \in Seq(Envelope) /\ n \in Nat
      /\ q2[f] = <<env>> \o qs[f]
      /\ q2[f] \in Seq(Envelope) /\ Len(q2[f]) = n + 1 /\ q2[f][1] = env
      /\ \A i \in 2..(n + 1) : q2[f][i] = qs[f][i - 1]
      /\ \A g \in Functions \ {f} : q2[g] = qs[g]
  BY DEF push_front
<1>2. n \in Nat /\ Len(q2[f]) = n + 1
  BY <1>1
<1>3. env.req \in Requests
  BY DEF Envelope
<1> HIDE DEF q2, n
<1>5. \A i \in 1..(n + 1) : i = 1 \/ (i \in 2..(n + 1) /\ i - 1 \in 1..n)
  BY <1>1
<1>6. QueuedIn(q2) = QueuedIn(qs) \cup {env.req}
  <2>1. ASSUME NEW r \in QueuedIn(q2) PROVE r \in QueuedIn(qs) \cup {env.req}
    <3>1. PICK g \in Functions : \E i \in 1..Len(q2[g]) : q2[g][i].req = r
      BY DEF QueuedIn
    <3>2. CASE g = f
      <4>1. PICK i \in 1..(n + 1) : q2[f][i].req = r
        BY <1>1, <3>1, <3>2
      <4>2. i = 1 \/ (i - 1 \in 1..Len(qs[f]) /\ qs[f][i - 1].req = r)
        BY <1>1, <1>5, <4>1 DEF n
      <4>3. r \in Requests
        BY DEF QueuedIn
      <4> QED
        BY <1>1, <4>1, <4>2, <4>3 DEF QueuedIn
    <3>3. CASE g # f
      BY <1>1, <3>1, <3>3 DEF QueuedIn
    <3> QED
      BY <3>2, <3>3
  <2>2. ASSUME NEW r \in QueuedIn(qs) PROVE r \in QueuedIn(q2)
    <3>1. PICK g \in Functions : \E i \in 1..Len(qs[g]) : qs[g][i].req = r
      BY DEF QueuedIn
    <3>2. CASE g = f
      <4>1. PICK i \in 1..n : qs[f][i].req = r
        BY <3>1, <3>2 DEF n
      <4>2. i + 1 \in 2..(n + 1) /\ (i + 1) - 1 = i /\ i + 1 \in 1..Len(q2[f])
        BY <1>2, <4>1
      <4>3. q2[f][i + 1].req = r
        BY <1>1, <4>1, <4>2
      <4> QED
        BY <4>2, <4>3 DEF QueuedIn
    <3>3. CASE g # f
      BY SMTT(40), <1>1, <3>1, <3>3 DEF QueuedIn
    <3> QED
      BY <3>2, <3>3
  <2>3. env.req \in QueuedIn(q2)
    <3>1. 1 \in 1..Len(q2[f]) /\ q2[f][1].req = env.req
      BY <1>1
    <3> QED
      BY <1>3, <3>1 DEF QueuedIn
  <2> QED
    BY <2>1, <2>2, <2>3
<1> QED
  BY <1>6 DEF q2

\* push_front of a request older than the queue.
LEMMA PushKeeps ==
    ASSUME NEW qs \in [Functions -> Seq(Envelope)], NEW f \in Functions, NEW env \in Envelope,
           Placed(qs), InOrder(qs), FunctionOf[env.req] = f, env.req \notin QueuedIn(qs),
           \A i \in 1..Len(qs[f]) : env.ticket < qs[f][i].ticket
    PROVE  LET q2 == [qs EXCEPT ![f] = push_front(@, env)] IN
           /\ q2 \in [Functions -> Seq(Envelope)]
           /\ QueuedIn(q2) = QueuedIn(qs) \cup {env.req}
           /\ Placed(q2) /\ InOrder(q2)
           /\ q2[f] # <<>>
           /\ q2[f] = <<env>> \o qs[f]
<1> DEFINE q2 == [qs EXCEPT ![f] = push_front(@, env)]
           n == Len(qs[f])
<1>1. /\ qs[f] \in Seq(Envelope) /\ n \in Nat
      /\ q2[f] = <<env>> \o qs[f]
      /\ q2[f] \in Seq(Envelope) /\ Len(q2[f]) = n + 1 /\ q2[f][1] = env
      /\ \A i \in 2..(n + 1) : q2[f][i] = qs[f][i - 1]
      /\ \A g \in Functions \ {f} : q2[g] = qs[g]
  BY DEF push_front
<1>2. q2 \in [Functions -> Seq(Envelope)]
  BY DEF push_front
<1>3. env.req \in Requests
  BY DEF Envelope
<1>4. \A i \in 1..n : qs[f][i].req # env.req
  BY <1>3 DEF QueuedIn
<1> HIDE DEF q2, n
<1>5. \A i \in 1..(n + 1) : i = 1 \/ (i \in 2..(n + 1) /\ i - 1 \in 1..n)
  BY <1>1
<1>5a. /\ \A k \in 1..n : FunctionOf[qs[f][k].req] = f
       /\ \A k, l \in 1..n : qs[f][k].req = qs[f][l].req => k = l
  BY DEF Placed, n
<1>5b. \A i \in 1..(n + 1) : i # 1 => i - 1 \in 1..n /\ q2[f][i] = qs[f][i - 1]
  BY <1>1, <1>5
<1>6. QueuedIn(q2) = QueuedIn(qs) \cup {env.req}
  BY PushQueued DEF q2
<1>7. Placed(q2)
  <2>1. ASSUME NEW g \in Functions, NEW i \in 1..Len(q2[g])
        PROVE  FunctionOf[q2[g][i].req] = g
    <3>1. CASE g = f
      <4>1. i \in 1..(n + 1)
        BY <1>1, <3>1
      <4> QED
        BY ZenonT(60), <1>1, <1>5a, <1>5b, <3>1, <4>1
    <3>2. CASE g # f
      BY <1>1, <3>2 DEF Placed
    <3> QED
      BY <3>1, <3>2
  <2>2. ASSUME NEW g \in Functions, NEW i \in 1..Len(q2[g]), NEW j \in 1..Len(q2[g]),
               q2[g][i].req = q2[g][j].req
        PROVE  i = j
    <3>1. CASE g = f
      <4>1. i \in 1..(n + 1) /\ j \in 1..(n + 1) /\ q2[f][i].req = q2[f][j].req
        BY <1>1, <2>2, <3>1
      <4>2. i = 1 <=> j = 1
        BY <1>1, <1>4, <1>5b, <4>1
      <4>3. CASE i # 1
        <5>0. /\ i - 1 \in 1..n /\ j - 1 \in 1..n
              /\ qs[f][i - 1].req = qs[f][j - 1].req
          BY <1>5b, <4>1, <4>2, <4>3
        <5>1. i - 1 = j - 1
          BY <1>5a, <5>0
        <5> QED
          BY <4>1, <5>1
      <4> QED
        BY <4>2, <4>3
    <3>2. CASE g # f
      BY <1>1, <2>2, <3>2 DEF Placed
    <3> QED
      BY <3>1, <3>2
  <2> QED
    BY <2>1, <2>2 DEF Placed
<1>8. InOrder(q2)
  <2>1. ASSUME NEW g \in Functions, NEW i \in 1..Len(q2[g]), NEW j \in 1..Len(q2[g]), i < j
        PROVE  q2[g][i].ticket < q2[g][j].ticket
    <3>1. CASE g = f
      <4>0. i \in 1..(n + 1) /\ j \in 1..(n + 1)
        BY <1>1, <3>1
      <4>1. j \in 2..(n + 1) /\ j - 1 \in 1..n
        BY <1>5, <2>1, <4>0
      <4>2. CASE i = 1
        BY <1>1, <3>1, <4>1, <4>2 DEF n
      <4>3. CASE i \in 2..(n + 1) /\ i - 1 \in 1..n
        <5>1. i - 1 < j - 1
          BY <1>1, <2>1, <3>1
        <5> QED
          BY <1>1, <3>1, <4>1, <4>3, <5>1 DEF InOrder, n
      <4> QED
        BY <1>1, <1>5, <3>1, <4>2, <4>3
    <3>2. CASE g # f
      BY <1>1, <2>1, <3>2 DEF InOrder
    <3> QED
      BY <3>1, <3>2
  <2> QED
    BY <2>1 DEF InOrder
<1>9. q2[f] # <<>>
  <2>1. Len(<<>>) = 0
    OBVIOUS
  <2>2. Len(q2[f]) # 0
    BY <1>1
  <2> QED
    BY <2>1, <2>2
<1> QED
  BY <1>1, <1>2, <1>6, <1>7, <1>8, <1>9 DEF q2

\* pop_front of a non-empty queue.
LEMMA PopKeeps ==
    ASSUME NEW qs \in [Functions -> Seq(Envelope)], NEW f \in Functions, qs[f] # <<>>,
           Placed(qs), InOrder(qs)
    PROVE  LET q2 == [qs EXCEPT ![f] = Tail(@)]
               env == Head(qs[f]) IN
           /\ q2 \in [Functions -> Seq(Envelope)]
           /\ env \in Envelope /\ FunctionOf[env.req] = f
           /\ env.req \in QueuedIn(qs)
           /\ env = qs[f][1] /\ 1 \in 1..Len(qs[f])
           /\ QueuedIn(q2) = QueuedIn(qs) \ {env.req}
           /\ Placed(q2) /\ InOrder(q2)
           /\ \A i \in 1..Len(q2[f]) : i + 1 \in 1..Len(qs[f]) /\ q2[f][i] = qs[f][i + 1]
           /\ \A g \in Functions \ {f} : q2[g] = qs[g]
           /\ \A i \in 1..Len(q2[f]) : env.ticket < q2[f][i].ticket
<1> DEFINE q2 == [qs EXCEPT ![f] = Tail(@)]
           env == Head(qs[f])
           n == Len(q2[f])
<1>1. /\ qs[f] \in Seq(Envelope) /\ n \in Nat
      /\ Len(qs[f]) = n + 1
      /\ q2[f] \in Seq(Envelope)
      /\ env = qs[f][1] /\ env \in Envelope
      /\ \A i \in 1..n : q2[f][i] = qs[f][i + 1]
      /\ \A g \in Functions \ {f} : q2[g] = qs[g]
  OBVIOUS
<1>2. q2 \in [Functions -> Seq(Envelope)]
  OBVIOUS
<1>3. env.req \in Requests
  BY <1>1 DEF Envelope
<1> HIDE DEF q2, n, env
<1>4. 1 \in 1..Len(qs[f]) /\ \A i \in 1..n : i + 1 \in 1..Len(qs[f]) /\ i + 1 # 1
  BY <1>1
<1>5. FunctionOf[env.req] = f /\ env.req \in QueuedIn(qs)
  BY <1>1, <1>3, <1>4 DEF Placed, QueuedIn
<1>5a. /\ \A k \in 1..Len(qs[f]) : FunctionOf[qs[f][k].req] = f
       /\ \A k, l \in 1..Len(qs[f]) : qs[f][k].req = qs[f][l].req => k = l
  BY DEF Placed
<1>6. \A i \in 1..n : q2[f][i].req # env.req
  BY <1>1, <1>4, <1>5a
<1>7. QueuedIn(q2) = QueuedIn(qs) \ {env.req}
  <2>1. ASSUME NEW r \in QueuedIn(q2) PROVE r \in QueuedIn(qs) \ {env.req}
    <3>1. PICK g \in Functions : \E i \in 1..Len(q2[g]) : q2[g][i].req = r
      BY DEF QueuedIn
    <3>2. r \in Requests
      BY DEF QueuedIn
    <3>3. CASE g = f
      <4>1. PICK i \in 1..n : q2[f][i].req = r
        BY <3>1, <3>3 DEF n
      <4>2. i + 1 \in 1..Len(qs[f]) /\ qs[f][i + 1].req = r /\ r # env.req
        BY <1>1, <1>4, <1>6, <4>1
      <4> QED
        BY <3>2, <4>2 DEF QueuedIn
    <3>4. CASE g # f
      <4>1. FunctionOf[r] = g
        BY <1>1, <3>1, <3>4 DEF Placed
      <4> QED
        BY <1>1, <1>5, <3>1, <3>2, <3>4, <4>1 DEF QueuedIn
    <3> QED
      BY <3>3, <3>4
  <2>2. ASSUME NEW r \in QueuedIn(qs), r # env.req PROVE r \in QueuedIn(q2)
    <3>1. PICK g \in Functions : \E i \in 1..Len(qs[g]) : qs[g][i].req = r
      BY DEF QueuedIn
    <3>2. r \in Requests
      BY DEF QueuedIn
    <3>3. CASE g = f
      <4>1. PICK i \in 1..(n + 1) : qs[f][i].req = r
        BY <1>1, <3>1, <3>3
      <4>2. i # 1
        BY <1>1, <2>2, <4>1
      <4>3. i - 1 \in 1..n /\ (i - 1) + 1 = i
        BY <1>1, <4>1, <4>2
      <4>4. q2[f][i - 1].req = r
        BY <1>1, <4>1, <4>3
      <4> QED
        BY <3>2, <4>3, <4>4 DEF QueuedIn, n
    <3>4. CASE g # f
      BY <1>1, <3>1, <3>2, <3>4 DEF QueuedIn
    <3> QED
      BY <3>3, <3>4
  <2> QED
    BY <2>1, <2>2
<1>8. Placed(q2)
  <2>1. ASSUME NEW g \in Functions, NEW i \in 1..Len(q2[g])
        PROVE  FunctionOf[q2[g][i].req] = g
    <3>1. CASE g = f
      BY SMTT(40), <1>1, <1>4, <3>1 DEF Placed, n
    <3>2. CASE g # f
      BY <1>1, <3>2 DEF Placed
    <3> QED
      BY <3>1, <3>2
  <2>2. ASSUME NEW g \in Functions, NEW i \in 1..Len(q2[g]), NEW j \in 1..Len(q2[g]),
               q2[g][i].req = q2[g][j].req
        PROVE  i = j
    <3>1. CASE g = f
      <4>0. i \in 1..n /\ j \in 1..n /\ q2[f][i].req = q2[f][j].req
        BY <2>2, <3>1 DEF n
      <4>0a. q2[f][i] = qs[f][i + 1] /\ q2[f][j] = qs[f][j + 1]
        BY <1>1, <4>0
      <4>0b. i + 1 \in 1..Len(qs[f]) /\ j + 1 \in 1..Len(qs[f])
        BY <1>4, <4>0
      <4>0c. qs[f][i + 1].req = qs[f][j + 1].req
        BY <4>0, <4>0a
      <4>1. i + 1 = j + 1
        BY <1>5a, <4>0b, <4>0c
      <4> QED
        BY <1>1, <3>1, <4>1 DEF n
    <3>2. CASE g # f
      BY <1>1, <2>2, <3>2 DEF Placed
    <3> QED
      BY <3>1, <3>2
  <2> QED
    BY <2>1, <2>2 DEF Placed
<1>9. InOrder(q2)
  <2>1. ASSUME NEW g \in Functions, NEW i \in 1..Len(q2[g]), NEW j \in 1..Len(q2[g]), i < j
        PROVE  q2[g][i].ticket < q2[g][j].ticket
    <3>1. CASE g = f
      <4>1. i + 1 < j + 1
        BY <1>1, <2>1, <3>1 DEF n
      <4> QED
        BY <1>1, <1>4, <3>1, <4>1 DEF InOrder, n
    <3>2. CASE g # f
      BY <1>1, <2>1, <3>2 DEF InOrder
    <3> QED
      BY <3>1, <3>2
  <2> QED
    BY <2>1 DEF InOrder
<1>10. \A i \in 1..n : env.ticket < q2[f][i].ticket
  <2>1. ASSUME NEW i \in 1..n PROVE env.ticket < q2[f][i].ticket
    <3>1. 1 < i + 1
      BY <1>1
    <3> QED
      BY <1>1, <1>4, <3>1 DEF InOrder
  <2> QED
    BY <2>1
<1> QED
  BY <1>1, <1>2, <1>4, <1>5, <1>7, <1>8, <1>9, <1>10 DEF q2, env, n
-----------------------------------------------------------------------------
(***************************************************************************)
(* The inductive invariant                                                 *)
(***************************************************************************)

\* No ticket is ahead of the number of requests received.
TicketsBounded ==
    /\ \A f \in Functions : \A i \in 1..Len(queues[f]) :
           queues[f][i].ticket <= stats.num_received
    /\ outstanding # None => outstanding.ticket <= stats.num_received

IInv ==
    /\ TypeOK
    /\ CountersExact
    /\ NeverBlockedEmpty
    /\ ExactlyOnePlace
    /\ StatsBalance
    /\ SlotConservation
    /\ OneAttempt
    /\ FifoPerFunction
    /\ running \subseteq dispatched
    /\ TicketsBounded

LEMMA IInvSound == IInv => Sound
  BY DEF IInv, Sound, ExactlyOnePlace, FifoPerFunction

LEMMA OutstandingFacts ==
    /\ outstanding = None => OutstandingReqs = {} /\ Cardinality(OutstandingReqs) = 0
    /\ outstanding # None =>
           OutstandingReqs = {outstanding.req} /\ Cardinality(OutstandingReqs) = 1
<1>1. Cardinality({}) = 0
  BY FS_EmptySet
<1>2. \A x : Cardinality({x}) = 1
  BY FS_Singleton
<1> QED
  BY <1>1, <1>2 DEF OutstandingReqs

LEMMA OutstandingFactsNext ==
    /\ outstanding' = None => OutstandingReqs' = {} /\ Cardinality(OutstandingReqs') = 0
    /\ outstanding' # None =>
           OutstandingReqs' = {outstanding'.req} /\ Cardinality(OutstandingReqs') = 1
<1>1. Cardinality({}) = 0
  BY FS_EmptySet
<1>2. \A x : Cardinality({x}) = 1
  BY FS_Singleton
<1> QED
  BY <1>1, <1>2 DEF OutstandingReqs

LEMMA RunningFinite ==
    ASSUME TypeOK
    PROVE  IsFiniteSet(running) /\ Cardinality(running) \in Nat
<1>1. IsFiniteSet(running)
  BY FS_Subset, AdmissionAssumption DEF TypeOK
<1> QED
  BY <1>1, FS_CardinalityType

\* The top of the loop starts to wait for a slot only without an attempt.
LEMMA LoopTopKeepsOneAttempt ==
    ASSUME OneAttempt, NEW w \in {waiting_for_slot, FALSE}, LoopTop(w),
           w => outstanding' = None \/ UNCHANGED outstanding
    PROVE  OneAttempt'
  BY DEF OneAttempt, LoopTop

StatsType == [num_received : Nat, num_dispatched : Nat, num_failed : Nat]

\* A step that accounts for every request it moves keeps the balance.
LEMMA BalanceKeeps ==
    ASSUME IInv, NEW dr \in Nat, NEW dd \in Nat, NEW df \in Nat,
           pc' # "crashed" => pc # "crashed",
           stats' = [num_received |-> stats.num_received + dr,
                     num_dispatched |-> stats.num_dispatched + dd,
                     num_failed |-> stats.num_failed + df],
           total_queued_reqs' \in Nat,
           total_queued_reqs' + Cardinality(OutstandingReqs') + dd + df
               = total_queued_reqs + Cardinality(OutstandingReqs) + dr
    PROVE  StatsBalance' /\ stats' \in StatsType
<1>1. /\ stats.num_received \in Nat /\ stats.num_dispatched \in Nat /\ stats.num_failed \in Nat
      /\ total_queued_reqs \in Nat
  BY DEF IInv, TypeOK
<1>2. /\ stats'.num_received = stats.num_received + dr
      /\ stats'.num_dispatched = stats.num_dispatched + dd
      /\ stats'.num_failed = stats.num_failed + df
  OBVIOUS
<1>3. ASSUME pc # "crashed"
      PROVE  stats.num_received + dr = total_queued_reqs' + Cardinality(OutstandingReqs')
                 + (stats.num_dispatched + dd) + (stats.num_failed + df)
  <2>1. stats.num_received = total_queued_reqs + Cardinality(OutstandingReqs)
                             + stats.num_dispatched + stats.num_failed
    BY <1>3 DEF IInv, StatsBalance
  <2>2. total_queued_reqs' + Cardinality(OutstandingReqs') + dd + df
            = total_queued_reqs + Cardinality(OutstandingReqs) + dr
    OBVIOUS
  <2>3. PICK o1 \in Nat : o1 = Cardinality(OutstandingReqs)
    BY OutstandingFacts
  <2>4. PICK o2 \in Nat : o2 = Cardinality(OutstandingReqs')
    BY OutstandingFactsNext
  <2>5. PICK r \in Nat : r = stats.num_received
    BY <1>1
  <2>6. PICK d \in Nat : d = stats.num_dispatched
    BY <1>1
  <2>7. PICK f \in Nat : f = stats.num_failed
    BY <1>1
  <2>8. PICK t \in Nat : t = total_queued_reqs
    BY <1>1
  <2>9. PICK t2 \in Nat : t2 = total_queued_reqs'
    OBVIOUS
  <2> QED
    BY <2>1, <2>2, <2>3, <2>4, <2>5, <2>6, <2>7, <2>8, <2>9
<1>4. StatsBalance'
  <2>1. pc # "crashed" =>
            stats'.num_received = total_queued_reqs' + Cardinality(OutstandingReqs')
                                  + stats'.num_dispatched + stats'.num_failed
    BY <1>2, <1>3
  <2> QED
    BY <2>1 DEF StatsBalance
<1>5. stats' \in StatsType
  BY <1>1 DEF StatsType
<1> QED
  BY <1>4, <1>5

\* The initial states.
LEMMA InitIInv == Init => IInv
<1> SUFFICES ASSUME Init PROVE IInv
  OBVIOUS
<1>1. \A f \in Functions : queues[f] = <<>> /\ Len(queues[f]) = 0
  BY DEF Init
<1>2. OutstandingReqs = {} /\ Cardinality(OutstandingReqs) = 0
  BY OutstandingFacts DEF Init
<1>3. Queued = {}
  BY <1>1 DEF Queued, QueuedIn
<1>4. BlockedIn(state) = {}
  BY DEF Init, BlockedIn
<1>5. TypeOK
  <2>1. registered \in [Functions -> Limits \cup {None}]
    BY AdmissionAssumption DEF Init
  <2>2. queues \in [Functions -> Seq(Envelope)]
    BY DEF Init
  <2> QED
    BY <2>1, <2>2, AdmissionAssumption DEF Init, TypeOK
<1>6. CountersExact
  BY <1>3, <1>4, FS_EmptySet DEF Init, CountersExact
<1>7. NeverBlockedEmpty
  BY DEF Init, NeverBlockedEmpty
<1>8. ExactlyOnePlace
  BY <1>1, <1>2, <1>3 DEF Init, ExactlyOnePlace, Placed
<1>9. StatsBalance /\ SlotConservation
  BY <1>2, FS_EmptySet, AdmissionAssumption DEF Init, StatsBalance, SlotConservation
<1>10. OneAttempt /\ FifoPerFunction /\ TicketsBounded /\ running \subseteq dispatched
  BY <1>1 DEF Init, OneAttempt, FifoPerFunction, InOrder, TicketsBounded
<1> QED
  BY <1>5, <1>6, <1>7, <1>8, <1>9, <1>10 DEF IInv

\* handle_new_request, the request is queued.
LEMMA NewRequestQueuedKeeps ==
    ASSUME IInv, NEW r \in Requests, NewRequestQueued(r)
    PROVE  IInv'
<1> DEFINE f == FunctionOf[r]
           c == IngressSweep(f)
           env == [req |-> r, ticket |-> stats.num_received + 1, enqueued_at |-> now,
                   deadline |-> now + registered[f].max_queue_delay]
<1>1. SoundConfig(c)
  BY IInvSound, SweptSound DEF IngressSweep, Due
<1>2. /\ pc = "running" /\ r \in source /\ source' = source \ {r}
      /\ registered[f] # None
      /\ queues' = [c.queues EXCEPT ![f] = Append(@, env)]
      /\ state' = c.state
      /\ total_queued_reqs' = c.total + 1
      /\ blocked_function_count' = c.blocked
      /\ next_deadline' = update_deadline_timer(c.next, env.deadline)
      /\ failed' = failed \cup c.expired
      /\ stats' = [stats EXCEPT !.num_received = @ + 1,
                                !.num_failed = @ + Cardinality(c.expired)]
      /\ UNCHANGED <<now, registered, pc, outstanding, reply, permits, running,
                     dispatched, poolUp>>
      /\ LoopTop(waiting_for_slot)
  BY DEF NewRequestQueued, Receive
<1>3. f \in Functions
  BY AdmissionAssumption
<1>4. env \in Envelope /\ env.req = r /\ env.ticket = stats.num_received + 1 /\ env.deadline \in Nat
  <2>1. registered[f] \in Limits /\ now \in Nat /\ stats.num_received \in Nat
    BY <1>2, <1>3 DEF IInv, TypeOK
  <2> QED
    BY <2>1 DEF Envelope, Limits
<1> HIDE DEF c, env, f
<1>5. r \notin Queued /\ r \notin QueuedIn(c.queues)
  BY <1>1, <1>2 DEF IInv, ExactlyOnePlace, SoundConfig
<1>6. \A g \in Functions : \A i \in 1..Len(c.queues[g]) :
          c.queues[g][i].ticket \in Nat /\ c.queues[g][i].ticket <= stats.num_received
  <2>1. ASSUME NEW g \in Functions, NEW i \in 1..Len(c.queues[g])
        PROVE  c.queues[g][i].ticket \in Nat /\ c.queues[g][i].ticket <= stats.num_received
    <3>1. c.queues[g][i] \in Envelope
      BY <1>1 DEF SoundConfig
    <3>2. PICK j \in 1..Len(queues[g]) : c.queues[g][i] = queues[g][j]
      BY <1>1 DEF SoundConfig
    <3> QED
      BY <3>1, <3>2 DEF IInv, TicketsBounded, Envelope
  <2> QED
    BY <2>1
<1>7. stats.num_received \in Nat
  BY DEF IInv, TypeOK
<1>8. \A i \in 1..Len(c.queues[f]) : c.queues[f][i].ticket < env.ticket
  BY <1>3, <1>4, <1>6, <1>7
<1>9. /\ queues' \in [Functions -> Seq(Envelope)]
      /\ QueuedIn(queues') = QueuedIn(c.queues) \cup {r}
      /\ Placed(queues') /\ InOrder(queues')
      /\ queues'[f] # <<>>
  <2>1. FunctionOf[env.req] = f
    BY <1>4 DEF f
  <2>2. Placed(c.queues) /\ InOrder(c.queues) /\ c.queues \in [Functions -> Seq(Envelope)]
    BY <1>1 DEF SoundConfig
  <2> QED
    BY <1>2, <1>3, <1>4, <1>5, <1>8, <2>1, <2>2, AppendKeeps
<1>10. Cardinality(QueuedIn(queues')) = c.total + 1
  BY <1>1, <1>5, <1>9, QueuedFinite, FS_AddElement DEF SoundConfig
<1>11. TypeOK'
  <2>1. next_deadline' \in Nat \cup {None}
    BY <1>1, <1>2, <1>4 DEF SoundConfig, update_deadline_timer
  <2>2. stats' \in [num_received : Nat, num_dispatched : Nat, num_failed : Nat]
    <3>1. stats \in [num_received : Nat, num_dispatched : Nat, num_failed : Nat]
      BY DEF IInv, TypeOK
    <3>2. Cardinality(c.expired) \in Nat
      BY <1>1 DEF SoundConfig
    <3>3. stats' = [num_received |-> stats.num_received + 1,
                    num_dispatched |-> stats.num_dispatched,
                    num_failed |-> stats.num_failed + Cardinality(c.expired)]
      BY <1>2, <3>1
    <3> QED
      BY <3>1, <3>2, <3>3
  <2>3. failed' \subseteq Requests
    BY <1>1, <1>2, QueuedFinite DEF IInv, TypeOK, SoundConfig, Queued
  <2>4. waiting_for_slot' \in BOOLEAN
    BY <1>2 DEF LoopTop, IInv, TypeOK
  <2>5. /\ state' \in [Functions -> BlockReasons \cup {Runnable}]
        /\ total_queued_reqs' \in Nat /\ blocked_function_count' \in Nat
    BY <1>1, <1>2 DEF SoundConfig
  <2> QED
    BY <1>2, <1>9, <2>1, <2>2, <2>3, <2>4, <2>5 DEF IInv, TypeOK
<1>12. CountersExact'
  BY <1>1, <1>2, <1>10 DEF CountersExact, SoundConfig, Queued
<1>13. NeverBlockedEmpty'
  <2>1. \A g \in Functions \ {f} : queues'[g] = c.queues[g]
    BY <1>1, <1>2 DEF SoundConfig
  <2> QED
    BY <1>1, <1>2, <1>9, <2>1 DEF NeverBlockedEmpty, SoundConfig
<1>14. ExactlyOnePlace'
  <2>1. Queued' = (Queued \ c.expired) \cup {r} /\ c.expired \subseteq Queued
    BY <1>1, <1>9 DEF Queued, SoundConfig
  <2>2. OutstandingReqs' = OutstandingReqs
    BY <1>2 DEF OutstandingReqs
  <2> QED
    BY <1>2, <1>9, <2>1, <2>2 DEF IInv, ExactlyOnePlace
<1>15. StatsBalance'
  <2>1. OutstandingReqs' = OutstandingReqs /\ Cardinality(OutstandingReqs) \in Nat
    BY <1>2, OutstandingFacts DEF OutstandingReqs
  <2>2. /\ stats'.num_received = stats.num_received + 1
        /\ stats'.num_dispatched = stats.num_dispatched
        /\ stats'.num_failed = stats.num_failed + Cardinality(c.expired)
    BY <1>2 DEF IInv, TypeOK
  <2>3. /\ stats.num_received \in Nat /\ stats.num_dispatched \in Nat /\ stats.num_failed \in Nat
        /\ stats.num_received = total_queued_reqs + Cardinality(OutstandingReqs)
                                + stats.num_dispatched + stats.num_failed
    BY <1>2 DEF IInv, TypeOK, StatsBalance
  <2>4. /\ total_queued_reqs = c.total + Cardinality(c.expired)
        /\ c.total \in Nat /\ Cardinality(c.expired) \in Nat
    BY <1>1 DEF SoundConfig
  <2> QED
    BY SMTT(40), <1>2, <2>1, <2>2, <2>3, <2>4 DEF StatsBalance
<1>16. SlotConservation'
  BY <1>2 DEF IInv, SlotConservation, OutstandingReqs
<1>17. OneAttempt'
  BY <1>2, LoopTopKeepsOneAttempt DEF IInv
<1>18. FifoPerFunction' /\ TicketsBounded'
  <2>1. \A g \in Functions : \A i \in 1..Len(queues'[g]) :
            \/ g = f /\ queues'[g][i] = env
            \/ i \in 1..Len(c.queues[g]) /\ queues'[g][i] = c.queues[g][i]
    <3>1. /\ c.queues \in [Functions -> Seq(Envelope)]
          /\ queues' = [c.queues EXCEPT ![f] = Append(@, env)]
      BY <1>1, <1>2 DEF SoundConfig
    <3>2. ASSUME NEW i \in 1..Len(Append(c.queues[f], env))
          PROVE  \/ Append(c.queues[f], env)[i] = env
                 \/ i \in 1..Len(c.queues[f]) /\ Append(c.queues[f], env)[i] = c.queues[f][i]
      BY <1>3, <1>4, <3>1
    <3>3. ASSUME NEW g \in Functions, NEW i \in 1..Len(queues'[g])
          PROVE  \/ g = f /\ queues'[g][i] = env
                 \/ i \in 1..Len(c.queues[g]) /\ queues'[g][i] = c.queues[g][i]
      <4>1. CASE g = f
        BY <1>3, <3>1, <3>2, <4>1
      <4>2. CASE g # f
        BY <3>1, <4>2
      <4> QED
        BY <4>1, <4>2
    <3> QED
      BY <3>3
  <2>2. stats'.num_received = stats.num_received + 1
    BY <1>2 DEF IInv, TypeOK
  <2>3. \A g \in Functions : \A i \in 1..Len(queues'[g]) : queues'[g][i].ticket <= stats'.num_received
    <3>1. ASSUME NEW g \in Functions, NEW i \in 1..Len(queues'[g])
          PROVE  queues'[g][i].ticket <= stats'.num_received
      <4>1. CASE queues'[g][i] = env
        BY <1>4, <1>7, <2>2, <4>1
      <4>2. CASE i \in 1..Len(c.queues[g]) /\ queues'[g][i] = c.queues[g][i]
        BY <1>6, <1>7, <2>2, <4>2
      <4> QED
        BY <2>1, <4>1, <4>2
    <3> QED
      BY <3>1
  <2>4. outstanding # None =>
            /\ FunctionOf[outstanding.req] \in Functions
            /\ outstanding.ticket \in Nat /\ outstanding.ticket <= stats.num_received
    BY AdmissionAssumption DEF IInv, TypeOK, TicketsBounded, Envelope
  <2>5. ASSUME outstanding # None, NEW i \in 1..Len(queues'[FunctionOf[outstanding.req]])
        PROVE  outstanding.ticket < queues'[FunctionOf[outstanding.req]][i].ticket
    <3> DEFINE g == FunctionOf[outstanding.req]
    <3>1. CASE queues'[g][i] = env
      BY <1>4, <1>7, <2>4, <2>5, <3>1
    <3>2. CASE i \in 1..Len(c.queues[g]) /\ queues'[g][i] = c.queues[g][i]
      <4>1. PICK j \in 1..Len(queues[g]) : c.queues[g][i] = queues[g][j]
        BY <1>1, <2>4, <2>5, <3>2 DEF SoundConfig
      <4> QED
        BY <2>5, <3>2, <4>1 DEF IInv, FifoPerFunction
    <3> QED
      BY <2>1, <2>4, <2>5, <3>1, <3>2
  <2> QED
    BY <1>2, <1>7, <1>9, <2>2, <2>3, <2>4, <2>5 DEF FifoPerFunction, TicketsBounded
<1>19. running' \subseteq dispatched'
  BY <1>2 DEF IInv
<1> QED
  BY <1>11, <1>12, <1>13, <1>14, <1>15, <1>16, <1>17, <1>18, <1>19 DEF IInv
\* A step that goes on with a swept (or unswept) configuration and answers the
\* arrivals R, if any, with a failure.
LEMMA ConfigStepKeeps ==
    ASSUME IInv, NEW c, SoundConfig(c),
           queues' = c.queues, state' = c.state,
           total_queued_reqs' = c.total, blocked_function_count' = c.blocked,
           UNCHANGED <<now, registered, outstanding, permits, running, dispatched, reply, poolUp>>,
           NEW R, R \subseteq source, NEW k \in Nat, k = Cardinality(R),
           source' = source \ R,
           failed' = failed \cup c.expired \cup R,
           stats' = [num_received |-> stats.num_received + k,
                     num_dispatched |-> stats.num_dispatched,
                     num_failed |-> stats.num_failed + Cardinality(c.expired) + k],
           pc' \in {pc, "crashed"},
           next_deadline' \in Nat \cup {None},
           waiting_for_slot' \in BOOLEAN, OneAttempt'
    PROVE  IInv'
<1>1. /\ c.queues \in [Functions -> Seq(Envelope)]
      /\ c.state \in [Functions -> BlockReasons \cup {Runnable}]
      /\ c.total \in Nat /\ c.blocked \in Nat
      /\ c.expired \subseteq Queued
      /\ QueuedIn(c.queues) = Queued \ c.expired
      /\ c.total = Cardinality(QueuedIn(c.queues))
      /\ total_queued_reqs = c.total + Cardinality(c.expired)
      /\ Cardinality(c.expired) \in Nat
      /\ c.blocked = Cardinality(BlockedIn(c.state))
      /\ \A f \in Functions : c.state[f] # Runnable => c.queues[f] # <<>>
      /\ Placed(c.queues) /\ InOrder(c.queues)
      /\ \A f \in Functions : \A i \in 1..Len(c.queues[f]) :
             \E j \in 1..Len(queues[f]) : c.queues[f][i] = queues[f][j]
  BY DEF SoundConfig
<1>2. stats \in StatsType
  BY DEF IInv, TypeOK, StatsType
<1>3. TypeOK'
  <2>1. stats' \in StatsType
    BY SMTT(40), <1>1, <1>2 DEF StatsType
  <2>2. Queued \subseteq Requests
    BY QueuedFinite DEF Queued
  <2> QED
    BY <1>1, <2>1, <2>2 DEF IInv, TypeOK, StatsType
<1>4. CountersExact'
  BY <1>1 DEF CountersExact, Queued
<1>5. NeverBlockedEmpty'
  BY <1>1 DEF NeverBlockedEmpty
<1>6. OutstandingReqs' = OutstandingReqs /\ Cardinality(OutstandingReqs) \in Nat
  BY OutstandingFacts DEF OutstandingReqs
<1>7. ExactlyOnePlace'
  <2>1. Queued' = Queued \ c.expired
    BY <1>1 DEF Queued
  <2> QED
    BY <1>1, <1>6, <2>1 DEF IInv, ExactlyOnePlace
<1>8. StatsBalance'
  <2>1. Cardinality(c.expired) + k \in Nat
    BY <1>1
  <2>2. stats' = [num_received |-> stats.num_received + k,
                  num_dispatched |-> stats.num_dispatched + 0,
                  num_failed |-> stats.num_failed + (Cardinality(c.expired) + k)]
    <3>1. /\ stats.num_failed + Cardinality(c.expired) + k
                 = stats.num_failed + (Cardinality(c.expired) + k)
          /\ stats.num_dispatched = stats.num_dispatched + 0
      BY SMTT(40), <1>1, <1>2 DEF StatsType
    <3> QED
      BY <3>1, Zenon
  <2>3. total_queued_reqs' + Cardinality(OutstandingReqs') + 0 + (Cardinality(c.expired) + k)
            = total_queued_reqs + Cardinality(OutstandingReqs) + k
    <3>1. PICK o \in Nat : o = Cardinality(OutstandingReqs)
      BY <1>6
    <3>2. PICK e \in Nat : e = Cardinality(c.expired)
      BY <1>1
    <3>3. PICK t \in Nat : t = c.total
      BY <1>1
    <3>4. total_queued_reqs' = t /\ total_queued_reqs = t + e /\ Cardinality(OutstandingReqs') = o
      BY <1>1, <1>6, <3>1, <3>2, <3>3
    <3> QED
      BY <3>1, <3>2, <3>4
  <2>4. total_queued_reqs' \in Nat /\ (pc' # "crashed" => pc # "crashed")
    BY <1>1
  <2> QED
    BY <2>1, <2>2, <2>3, <2>4, BalanceKeeps
<1>9. SlotConservation'
  BY <1>6 DEF IInv, SlotConservation
<1>10. FifoPerFunction' /\ TicketsBounded'
  <2>1. stats.num_received \in Nat /\ stats'.num_received = stats.num_received + k
    BY <1>2 DEF StatsType
  <2>2. ASSUME NEW f \in Functions, NEW i \in 1..Len(queues'[f])
        PROVE  queues'[f][i].ticket <= stats'.num_received
    <3>1. PICK j \in 1..Len(queues[f]) : queues'[f][i] = queues[f][j]
      BY <1>1
    <3>2. queues[f][j].ticket <= stats.num_received
      BY <3>1 DEF IInv, TicketsBounded
    <3>3. queues[f] \in Seq(Envelope)
      BY DEF IInv, TypeOK
    <3>4. queues[f][j] \in Envelope
      BY <3>1, <3>3
    <3>5. queues[f][j].ticket \in Nat
      BY <3>4 DEF Envelope
    <3> QED
      BY <2>1, <3>1, <3>2, <3>5
  <2>3. outstanding # None =>
            /\ FunctionOf[outstanding.req] \in Functions
            /\ outstanding.ticket \in Nat /\ outstanding.ticket <= stats.num_received
    BY AdmissionAssumption DEF IInv, TypeOK, TicketsBounded, Envelope
  <2>4. ASSUME outstanding # None, NEW i \in 1..Len(queues'[FunctionOf[outstanding.req]])
        PROVE  outstanding.ticket < queues'[FunctionOf[outstanding.req]][i].ticket
    <3> DEFINE g == FunctionOf[outstanding.req]
    <3>1. PICK j \in 1..Len(queues[g]) : queues'[g][i] = queues[g][j]
      BY <1>1, <2>3, <2>4
    <3> QED
      BY <2>4, <3>1 DEF IInv, FifoPerFunction
  <2> QED
    BY <1>1, <2>1, <2>2, <2>3, <2>4 DEF FifoPerFunction, TicketsBounded
<1> QED
  BY <1>3, <1>4, <1>5, <1>7, <1>8, <1>9, <1>10 DEF IInv

\* The same when no request arrives.
LEMMA SweepOnlyKeeps ==
    ASSUME IInv, NEW c, SoundConfig(c),
           queues' = c.queues, state' = c.state,
           total_queued_reqs' = c.total, blocked_function_count' = c.blocked,
           UNCHANGED <<now, registered, source, outstanding, permits, running, dispatched,
                       reply, poolUp>>,
           failed' = failed \cup c.expired,
           stats' = [stats EXCEPT !.num_failed = @ + Cardinality(c.expired)],
           pc' \in {pc, "crashed"},
           next_deadline' \in Nat \cup {None},
           waiting_for_slot' \in BOOLEAN, OneAttempt'
    PROVE  IInv'
<1>1. Cardinality({}) = 0
  BY FS_EmptySet
<1>2. source' = source \ {} /\ failed' = failed \cup c.expired \cup {} /\ {} \subseteq source
  OBVIOUS
<1>3. stats \in StatsType /\ Cardinality(c.expired) \in Nat
  BY DEF IInv, TypeOK, StatsType, SoundConfig
<1>4. stats' = [num_received |-> stats.num_received,
                num_dispatched |-> stats.num_dispatched,
                num_failed |-> stats.num_failed + Cardinality(c.expired)]
  BY <1>3 DEF StatsType
<1>5. /\ stats.num_received = stats.num_received + 0
      /\ stats.num_failed + Cardinality(c.expired) = stats.num_failed + Cardinality(c.expired) + 0
  BY <1>3 DEF StatsType
<1>6. stats' = [num_received |-> stats.num_received + 0,
                num_dispatched |-> stats.num_dispatched,
                num_failed |-> stats.num_failed + Cardinality(c.expired) + 0]
  BY <1>4, <1>5, Zenon
<1>7. /\ UNCHANGED <<now, registered, outstanding, permits, running, dispatched, reply, poolUp>>
      /\ 0 \in Nat
  OBVIOUS
<1> QED
  BY <1>1, <1>2, <1>6, <1>7, ConfigStepKeeps

LEMMA UnsweptSound == IInv => SoundConfig(unswept) /\ unswept.expired = {}
<1> SUFFICES ASSUME IInv PROVE SoundConfig(unswept) /\ unswept.expired = {}
  OBVIOUS
<1>1. SoundConfig(Swept(FALSE))
  BY IInvSound, SweptSound
<1> QED
  BY <1>1 DEF Swept, unswept

\* handle_new_request, the Function is unknown.
LEMMA NewRequestUnknownKeeps ==
    ASSUME IInv, NEW r \in Requests, NewRequestUnknown(r)
    PROVE  IInv'
<1>1. SoundConfig(unswept) /\ unswept.expired = {}
  BY UnsweptSound
<1>2. Cardinality({r}) = 1 /\ Cardinality({}) = 0
  BY FS_Singleton, FS_EmptySet
<1>3. stats \in StatsType
  BY DEF IInv, TypeOK, StatsType
<1>3a. /\ stats' = [stats EXCEPT !.num_received = @ + 1, !.num_failed = @ + 1]
       /\ failed' = failed \cup unswept.expired \cup {r}
       /\ r \in source /\ source' = source \ {r}
       /\ UNCHANGED <<now, registered, pc, outstanding, permits, running, dispatched, reply, poolUp>>
  BY <1>1 DEF NewRequestUnknown, Receive
<1>4. stats' = [num_received |-> stats.num_received + 1,
                num_dispatched |-> stats.num_dispatched,
                num_failed |-> stats.num_failed + Cardinality(unswept.expired) + 1]
  <2>1. stats' = [num_received |-> stats.num_received + 1,
                  num_dispatched |-> stats.num_dispatched,
                  num_failed |-> stats.num_failed + 1]
    BY <1>3, <1>3a DEF StatsType
  <2>2. stats.num_failed \in Nat /\ Cardinality(unswept.expired) = 0
    BY <1>1, <1>2, <1>3 DEF StatsType
  <2>3. stats.num_failed + Cardinality(unswept.expired) + 1 = stats.num_failed + 1
    BY <2>2
  <2> QED
    BY <2>1, <2>3
<1>5. waiting_for_slot' \in BOOLEAN /\ OneAttempt'
  BY LoopTopKeepsOneAttempt DEF NewRequestUnknown, LoopTop, IInv, TypeOK
<1>6. /\ queues' = unswept.queues /\ state' = unswept.state
      /\ total_queued_reqs' = unswept.total /\ blocked_function_count' = unswept.blocked
  BY DEF NewRequestUnknown, unswept
<1>7. next_deadline' \in Nat \cup {None}
  BY DEF NewRequestUnknown, IInv, TypeOK
<1> QED
  BY <1>1, <1>2, <1>3a, <1>4, <1>5, <1>6, <1>7, ConfigStepKeeps

\* handle_new_request, a queue is full.
LEMMA NewRequestRefusedKeeps ==
    ASSUME IInv, NEW r \in Requests, NewRequestRefused(r)
    PROVE  IInv'
<1> DEFINE c == IngressSweep(FunctionOf[r])
<1>1. SoundConfig(c)
  BY IInvSound, SweptSound DEF IngressSweep, Due
<1>2. /\ r \in source /\ source' = source \ {r}
      /\ queues' = c.queues
      /\ state' = c.state
      /\ total_queued_reqs' = c.total
      /\ blocked_function_count' = c.blocked
      /\ next_deadline' = c.next
      /\ failed' = failed \cup c.expired \cup {r}
      /\ stats' = [stats EXCEPT !.num_received = @ + 1,
                                !.num_failed = @ + Cardinality(c.expired) + 1]
      /\ UNCHANGED <<now, registered, pc, outstanding, reply, permits, running,
                     dispatched, poolUp>>
      /\ LoopTop(waiting_for_slot)
  BY DEF NewRequestRefused, Receive
<1> HIDE DEF c
<1>3. Cardinality({r}) = 1
  BY FS_Singleton
<1>4. stats \in StatsType
  BY DEF IInv, TypeOK, StatsType
<1>5. stats' = [num_received |-> stats.num_received + 1,
                num_dispatched |-> stats.num_dispatched,
                num_failed |-> stats.num_failed + Cardinality(c.expired) + 1]
  BY <1>2, <1>4 DEF StatsType
<1>6. waiting_for_slot' \in BOOLEAN /\ OneAttempt'
  BY <1>2, LoopTopKeepsOneAttempt DEF LoopTop, IInv, TypeOK
<1>7. next_deadline' \in Nat \cup {None}
  BY <1>1, <1>2 DEF SoundConfig
<1> QED
  BY <1>1, <1>2, <1>3, <1>5, <1>6, <1>7, ConfigStepKeeps
\* The deadline branch.
LEMMA DeadlineTimerKeeps == IInv /\ DeadlineTimer => IInv'
<1> SUFFICES ASSUME IInv, DeadlineTimer PROVE IInv'
  OBVIOUS
<1> DEFINE c == expire_queued_requests
<1>1. SoundConfig(c)
  BY IInvSound, ExpireSound
<1>2. /\ queues' = c.queues
      /\ state' = c.state
      /\ total_queued_reqs' = c.total
      /\ blocked_function_count' = c.blocked
      /\ next_deadline' = c.next
      /\ failed' = failed \cup c.expired
      /\ stats' = [stats EXCEPT !.num_failed = @ + Cardinality(c.expired)]
      /\ UNCHANGED <<now, registered, source, pc, outstanding, reply, permits,
                     running, dispatched, poolUp>>
      /\ LoopTop(waiting_for_slot)
  BY DEF DeadlineTimer, fail_admission
<1> HIDE DEF c
<1>3. waiting_for_slot' \in BOOLEAN /\ OneAttempt'
  BY <1>2, LoopTopKeepsOneAttempt DEF LoopTop, IInv, TypeOK
<1>4. next_deadline' \in Nat \cup {None}
  BY <1>1, <1>2 DEF SoundConfig
<1> QED
  BY <1>1, <1>2, <1>3, <1>4, SweepOnlyKeeps

\* The permit branch: what its three outcomes share.
LEMMA AcquireFacts ==
    ASSUME IInv, NEW c \in {Swept(Due)}, AcquireSlot(c)
    PROVE  /\ SoundConfig(c)
           /\ pc = "running" /\ waiting_for_slot /\ outstanding = None
           /\ permits \in Nat /\ permits > 0
           /\ state' = c.state
           /\ blocked_function_count' = c.blocked
           /\ failed' = failed \cup c.expired
           /\ stats' = [stats EXCEPT !.num_failed = @ + Cardinality(c.expired)]
           /\ UNCHANGED <<now, registered, source, running, dispatched, poolUp>>
<1>1. SoundConfig(c)
  BY IInvSound, SweptSound DEF Due
<1> QED
  BY <1>1 DEF AcquireSlot, fail_admission, IInv, OneAttempt, TypeOK

LEMMA SlotUnusedKeeps == IInv /\ SlotUnused => IInv'
<1> SUFFICES ASSUME IInv, NEW c \in {Swept(Due)}, AcquireSlot(c),
                    queues' = c.queues, total_queued_reqs' = c.total, next_deadline' = c.next,
                    UNCHANGED <<pc, outstanding, reply, permits>>, LoopTop(FALSE)
             PROVE  IInv'
  BY DEF SlotUnused
<1>1. waiting_for_slot' \in BOOLEAN /\ OneAttempt'
  BY LoopTopKeepsOneAttempt DEF LoopTop, IInv, TypeOK
<1>2. SoundConfig(c)
  BY AcquireFacts
<1>3. next_deadline' \in Nat \cup {None}
  BY <1>2 DEF SoundConfig
<1> QED
  BY <1>1, <1>2, <1>3, AcquireFacts, SweepOnlyKeeps

LEMMA SlotPoolClosedKeeps ==
    ASSUME IInv, NEW f \in Functions, SlotPoolClosed(f)
    PROVE  IInv'
<1>1. PICK c \in {Swept(Due)} :
          /\ AcquireSlot(c)
          /\ f \in pick_next_function(c)
          /\ queues' = c.queues /\ total_queued_reqs' = c.total
          /\ next_deadline' = update_deadline_timer(c.next, Head(c.queues[f]).deadline)
          /\ pc' = "crashed" /\ waiting_for_slot' = FALSE
          /\ UNCHANGED <<outstanding, reply, permits>>
  BY DEF SlotPoolClosed
<1>2. SoundConfig(c)
  BY <1>1, AcquireFacts
<1>3. Head(c.queues[f]) \in Envelope
  BY <1>1, <1>2 DEF SoundConfig, pick_next_function, is_runnable
<1>4. next_deadline' \in Nat \cup {None}
  BY <1>1, <1>2, <1>3 DEF SoundConfig, update_deadline_timer, Envelope
<1>5. OneAttempt'
  BY <1>1 DEF OneAttempt
<1> QED
  BY <1>1, <1>4, <1>5, AcquireFacts, SweepOnlyKeeps
LEMMA SlotToDispatchKeeps ==
    ASSUME IInv, NEW f \in Functions, SlotToDispatch(f)
    PROVE  IInv'
<1>1. PICK c \in {Swept(Due)} :
          /\ AcquireSlot(c)
          /\ f \in pick_next_function(c)
          /\ queues' = [c.queues EXCEPT ![f] = Tail(@)]
          /\ total_queued_reqs' = c.total - 1
          /\ next_deadline' = c.next
          /\ outstanding' = Head(c.queues[f])
          /\ reply' = None
          /\ permits' = permits - 1
          /\ UNCHANGED pc
          /\ LoopTop(FALSE)
  BY DEF SlotToDispatch
<1>2. /\ SoundConfig(c)
      /\ pc = "running" /\ outstanding = None
      /\ permits \in Nat /\ permits > 0
      /\ state' = c.state
      /\ blocked_function_count' = c.blocked
      /\ failed' = failed \cup c.expired
      /\ stats' = [stats EXCEPT !.num_failed = @ + Cardinality(c.expired)]
      /\ UNCHANGED <<now, registered, source, running, dispatched, poolUp>>
  BY <1>1, AcquireFacts
<1>3. /\ c.queues \in [Functions -> Seq(Envelope)]
      /\ c.state \in [Functions -> BlockReasons \cup {Runnable}]
      /\ c.total \in Nat /\ c.blocked \in Nat
      /\ c.next \in Nat \cup {None}
      /\ c.expired \subseteq Queued
      /\ QueuedIn(c.queues) = Queued \ c.expired
      /\ c.total = Cardinality(QueuedIn(c.queues))
      /\ total_queued_reqs = c.total + Cardinality(c.expired)
      /\ Cardinality(c.expired) \in Nat
      /\ c.blocked = Cardinality(BlockedIn(c.state))
      /\ \A g \in Functions : c.state[g] # Runnable => c.queues[g] # <<>>
      /\ Placed(c.queues) /\ InOrder(c.queues)
      /\ \A g \in Functions : \A i \in 1..Len(c.queues[g]) :
             \E j \in 1..Len(queues[g]) : c.queues[g][i] = queues[g][j]
  BY <1>2 DEF SoundConfig
<1>4. c.queues[f] # <<>> /\ c.state[f] = Runnable
  BY <1>1 DEF pick_next_function, is_runnable
<1>5. /\ queues' \in [Functions -> Seq(Envelope)]
      /\ outstanding' \in Envelope /\ FunctionOf[outstanding'.req] = f
      /\ outstanding'.req \in QueuedIn(c.queues)
      /\ outstanding' = c.queues[f][1] /\ 1 \in 1..Len(c.queues[f])
      /\ QueuedIn(queues') = QueuedIn(c.queues) \ {outstanding'.req}
      /\ Placed(queues') /\ InOrder(queues')
      /\ \A i \in 1..Len(queues'[f]) :
             i + 1 \in 1..Len(c.queues[f]) /\ queues'[f][i] = c.queues[f][i + 1]
      /\ \A g \in Functions \ {f} : queues'[g] = c.queues[g]
      /\ \A i \in 1..Len(queues'[f]) : outstanding'.ticket < queues'[f][i].ticket
  <2> DEFINE q2 == [c.queues EXCEPT ![f] = Tail(@)]
             env == Head(c.queues[f])
  <2>1. /\ q2 \in [Functions -> Seq(Envelope)]
        /\ env \in Envelope /\ FunctionOf[env.req] = f
        /\ env.req \in QueuedIn(c.queues)
        /\ env = c.queues[f][1] /\ 1 \in 1..Len(c.queues[f])
        /\ QueuedIn(q2) = QueuedIn(c.queues) \ {env.req}
        /\ Placed(q2) /\ InOrder(q2)
        /\ \A i \in 1..Len(q2[f]) : i + 1 \in 1..Len(c.queues[f]) /\ q2[f][i] = c.queues[f][i + 1]
        /\ \A g \in Functions \ {f} : q2[g] = c.queues[g]
        /\ \A i \in 1..Len(q2[f]) : env.ticket < q2[f][i].ticket
    BY <1>3, <1>4, PopKeeps, Zenon
  <2>2. queues' = q2 /\ outstanding' = env
    BY <1>1
  <2> HIDE DEF q2, env
  <2> QED
    BY <2>1, <2>2, Zenon
<1>6. outstanding' # None
  BY <1>5, AdmissionAssumption
<1>7. OutstandingReqs' = {outstanding'.req} /\ Cardinality(OutstandingReqs') = 1
  BY <1>6, OutstandingFactsNext
<1>8. OutstandingReqs = {} /\ Cardinality(OutstandingReqs) = 0
  BY <1>2, OutstandingFacts
<1>9. Cardinality(QueuedIn(queues')) = c.total - 1 /\ c.total - 1 \in Nat
  <2>1. Cardinality({outstanding'.req}) = 1
    BY FS_Singleton
  <2>2. {outstanding'.req} \subseteq QueuedIn(c.queues)
    BY <1>5
  <2>3. IsFiniteSet(QueuedIn(c.queues))
    BY QueuedFinite
  <2>4. /\ Cardinality(QueuedIn(c.queues) \ {outstanding'.req})
               = Cardinality(QueuedIn(c.queues)) - Cardinality({outstanding'.req})
        /\ Cardinality(QueuedIn(c.queues) \ {outstanding'.req}) \in Nat
    BY <2>2, <2>3, CardinalityMinus
  <2> QED
    BY <1>3, <1>5, <2>1, <2>4
<1>10. stats \in StatsType
  BY DEF IInv, TypeOK, StatsType
<1>11. stats' = [num_received |-> stats.num_received + 0,
                 num_dispatched |-> stats.num_dispatched + 0,
                 num_failed |-> stats.num_failed + Cardinality(c.expired)]
  <2>1. stats' = [num_received |-> stats.num_received,
                  num_dispatched |-> stats.num_dispatched,
                  num_failed |-> stats.num_failed + Cardinality(c.expired)]
    BY <1>2, <1>10 DEF StatsType
  <2>2. stats.num_received = stats.num_received + 0 /\ stats.num_dispatched = stats.num_dispatched + 0
    BY <1>10 DEF StatsType
  <2> QED
    BY <2>1, <2>2, Zenon
<1>12. StatsBalance' /\ stats' \in StatsType
  <2>1. total_queued_reqs' + Cardinality(OutstandingReqs') + 0 + Cardinality(c.expired)
            = total_queued_reqs + Cardinality(OutstandingReqs) + 0
    <3>1. PICK e \in Nat : e = Cardinality(c.expired)
      BY <1>3
    <3>2. PICK t \in Nat : t = c.total
      BY <1>3
    <3>3. total_queued_reqs' = t - 1 /\ total_queued_reqs = t + e
      BY <1>1, <1>3, <3>1, <3>2
    <3> QED
      BY <1>7, <1>8, <3>1, <3>3
  <2>2. total_queued_reqs' \in Nat /\ (pc' # "crashed" => pc # "crashed") /\ 0 \in Nat
    BY SMTT(40), <1>1, <1>2, <1>9
  <2> QED
    BY <1>3, <1>11, <2>1, <2>2, BalanceKeeps
<1>13. TypeOK'
  <2>1. failed' \subseteq Requests
    BY <1>2, <1>3, QueuedFinite DEF IInv, TypeOK, Queued
  <2>2. waiting_for_slot' \in BOOLEAN
    BY <1>1 DEF LoopTop
  <2>3. permits' \in Nat
    BY <1>1, <1>2
  <2> QED
    BY <1>1, <1>2, <1>3, <1>5, <1>9, <1>12, <2>1, <2>2, <2>3 DEF IInv, TypeOK, StatsType
<1>14. CountersExact'
  BY <1>1, <1>2, <1>3, <1>9 DEF CountersExact, Queued
<1>15. NeverBlockedEmpty'
  BY SMTT(40), <1>2, <1>3, <1>4, <1>5 DEF NeverBlockedEmpty
<1>16. ExactlyOnePlace'
  <2>1. Queued' = (Queued \ c.expired) \ {outstanding'.req}
    BY <1>3, <1>5 DEF Queued
  <2>2. outstanding'.req \in Queued \ c.expired
    BY <1>3, <1>5
  <2>3. Placed(queues')
    BY <1>5
  <2>4. failed' = failed \cup c.expired /\ UNCHANGED <<source, dispatched>> /\ pc # "crashed"
    BY <1>1, <1>2
  <2>5. c.expired \subseteq Queued
    BY <1>3
  <2>6. ExactlyOnePlace
    BY DEF IInv
  <2> QED
    BY <1>7, <1>8, <2>1, <2>2, <2>3, <2>4, <2>5, <2>6 DEF ExactlyOnePlace
<1>17. SlotConservation'
  <2>1. PICK m \in Nat : m = Cardinality(running)
    BY RunningFinite DEF IInv
  <2>2. permits + 0 + m = MaxConcurrency
    BY <1>8, <2>1 DEF IInv, SlotConservation
  <2>3. (permits - 1) + 1 + m = MaxConcurrency
    BY <1>2, <2>2
  <2> QED
    BY <1>1, <1>2, <1>7, <2>1, <2>3 DEF SlotConservation
<1>18. OneAttempt'
  BY <1>1, <1>6 DEF LoopTop, OneAttempt
<1>19. FifoPerFunction' /\ TicketsBounded'
  <2>1. stats'.num_received = stats.num_received /\ stats.num_received \in Nat
    BY <1>10, <1>11 DEF StatsType
  <2>2. \A g \in Functions : \A i \in 1..Len(c.queues[g]) :
            c.queues[g][i].ticket <= stats.num_received
    <3>1. ASSUME NEW g \in Functions, NEW i \in 1..Len(c.queues[g])
          PROVE  c.queues[g][i].ticket <= stats.num_received
      <4>1. PICK j \in 1..Len(queues[g]) : c.queues[g][i] = queues[g][j]
        BY <1>3
      <4> QED
        BY <4>1 DEF IInv, TicketsBounded
    <3> QED
      BY <3>1
  <2>3. outstanding'.ticket <= stats'.num_received
    BY <1>5, <2>1, <2>2
  <2>4. ASSUME NEW g \in Functions, NEW i \in 1..Len(queues'[g])
        PROVE  queues'[g][i].ticket <= stats'.num_received
    <3>1. CASE g = f
      <4>1. i + 1 \in 1..Len(c.queues[f]) /\ queues'[f][i] = c.queues[f][i + 1]
        BY <1>5, <3>1
      <4>2. c.queues[f][i + 1].ticket <= stats.num_received
        BY <2>2, <4>1
      <4> QED
        BY <2>1, <3>1, <4>1, <4>2
    <3>2. CASE g # f
      BY <1>5, <2>1, <2>2, <3>2
    <3> QED
      BY <3>1, <3>2
  <2> QED
    BY <1>5, <2>3, <2>4 DEF FifoPerFunction, TicketsBounded
<1>20. running' \subseteq dispatched'
  BY <1>2 DEF IInv
<1> QED
  BY <1>12, <1>13, <1>14, <1>15, <1>16, <1>17, <1>18, <1>19, <1>20 DEF IInv
\* The reply branch, when the request does not go back to its queue: it is
\* forwarded, failed, or lost with the controller.
LEMMA ReplyKeeps ==
    ASSUME IInv, outstanding # None, outstanding' = None, reply' = None,
           UNCHANGED <<now, registered, source, poolUp, queues, state, total_queued_reqs,
                       blocked_function_count, next_deadline>>,
           waiting_for_slot' \in BOOLEAN,
           NEW dd \in {0, 1}, NEW df \in {0, 1},
           stats' = [num_received |-> stats.num_received + 0,
                     num_dispatched |-> stats.num_dispatched + dd,
                     num_failed |-> stats.num_failed + df],
           \/ /\ dd = 1 /\ df = 0
              /\ dispatched' = dispatched \cup {outstanding.req}
              /\ running' = running \cup {outstanding.req}
              /\ UNCHANGED <<permits, failed, pc>>
           \/ /\ dd = 0 /\ df = 1
              /\ failed' = failed \cup {outstanding.req}
              /\ permits' = permits + 1
              /\ pc' \in {pc, "crashed"}
              /\ UNCHANGED <<dispatched, running>>
           \/ /\ dd = 0 /\ df = 0
              /\ permits' = permits + 1
              /\ pc' = "crashed"
              /\ UNCHANGED <<dispatched, running, failed>>
    PROVE  IInv'
<1>1. /\ OutstandingReqs = {outstanding.req} /\ Cardinality(OutstandingReqs) = 1
      /\ OutstandingReqs' = {} /\ Cardinality(OutstandingReqs') = 0
  BY OutstandingFacts, OutstandingFactsNext
<1>2. outstanding \in Envelope /\ outstanding.req \in Requests
  BY DEF IInv, TypeOK, Envelope
<1>3. outstanding.req \notin running \cup dispatched \cup failed \cup source \cup Queued
  BY <1>1 DEF IInv, ExactlyOnePlace
<1>4. Queued' = Queued
  BY DEF Queued
<1>5. StatsBalance' /\ stats' \in StatsType
  <2>1. total_queued_reqs' \in Nat /\ total_queued_reqs \in Nat
    BY DEF IInv, TypeOK
  <2>2. CASE dd = 0 /\ df = 0
    <3>1. stats \in StatsType
      BY DEF IInv, TypeOK, StatsType
    <3> QED
      BY <2>2, <3>1 DEF StatsBalance, StatsType
  <2>3. CASE dd + df = 1
    <3>1. total_queued_reqs' + Cardinality(OutstandingReqs') + dd + df
              = total_queued_reqs + Cardinality(OutstandingReqs) + 0
      BY <1>1, <2>1, <2>3
    <3>2. (pc' # "crashed" => pc # "crashed") /\ 0 \in Nat /\ dd \in Nat /\ df \in Nat
      BY <2>3
    <3> QED
      BY <2>1, <3>1, <3>2, BalanceKeeps
  <2> QED
    BY <2>2, <2>3
<1>6. TypeOK'
  <2>1. permits' \in Nat /\ running' \subseteq Requests /\ dispatched' \subseteq Requests
        /\ failed' \subseteq Requests /\ pc' \in {"running", "stopped", "crashed"}
    BY <1>2 DEF IInv, TypeOK
  <2> QED
    BY <1>5, <2>1 DEF IInv, TypeOK, StatsType
<1>7. CountersExact' /\ NeverBlockedEmpty' /\ OneAttempt'
  BY <1>4 DEF IInv, CountersExact, NeverBlockedEmpty, OneAttempt
<1>8. ExactlyOnePlace'
  BY <1>1, <1>3, <1>4 DEF IInv, ExactlyOnePlace
<1>9. SlotConservation'
  <2>1. PICK m \in Nat : m = Cardinality(running)
    BY RunningFinite DEF IInv
  <2>2. permits \in Nat /\ permits + 1 + m = MaxConcurrency
    BY <1>1, <2>1 DEF IInv, SlotConservation, TypeOK
  <2>3. Cardinality(running \cup {outstanding.req}) = m + 1
    BY <1>3, <2>1, RunningFinite, FS_AddElement DEF IInv
  <2>4. \/ permits' = permits /\ Cardinality(running') = m + 1
        \/ permits' = permits + 1 /\ Cardinality(running') = m
    BY <2>1, <2>3
  <2>5. permits' + 0 + Cardinality(running') = MaxConcurrency
    BY <2>2, <2>4
  <2> QED
    BY <1>1, <2>5 DEF SlotConservation
<1>10. FifoPerFunction' /\ TicketsBounded'
  <2>1. stats'.num_received = stats.num_received
    BY DEF IInv, TypeOK
  <2> QED
    BY <2>1 DEF IInv, FifoPerFunction, TicketsBounded
<1>11. running' \subseteq dispatched'
  BY DEF IInv
<1> QED
  BY <1>5, <1>6, <1>7, <1>8, <1>9, <1>10, <1>11 DEF IInv

LEMMA ReplyDispatchKeeps == IInv /\ ReplyDispatch => IInv'
<1> SUFFICES ASSUME IInv, ReplyDispatch PROVE IInv'
  OBVIOUS
<1>1. stats' = [num_received |-> stats.num_received + 0,
                num_dispatched |-> stats.num_dispatched + 1,
                num_failed |-> stats.num_failed + 0]
  BY DEF IInv, TypeOK, ReplyDispatch
<1>2. waiting_for_slot' \in BOOLEAN
  BY DEF ReplyDispatch, LoopTop, IInv, TypeOK
<1> QED
  BY <1>1, <1>2, ReplyKeeps DEF ReplyDispatch, TakeReply

LEMMA ReplyForwardFailedKeeps == IInv /\ ReplyForwardFailed => IInv'
<1> SUFFICES ASSUME IInv, ReplyForwardFailed PROVE IInv'
  OBVIOUS
<1>1. stats' = [num_received |-> stats.num_received + 0,
                num_dispatched |-> stats.num_dispatched + 0,
                num_failed |-> stats.num_failed + 0]
  BY DEF IInv, TypeOK, ReplyForwardFailed
<1>2. waiting_for_slot' \in BOOLEAN
  BY DEF ReplyForwardFailed, IInv, TypeOK
<1> QED
  BY <1>1, <1>2, ReplyKeeps DEF ReplyForwardFailed, TakeReply

LEMMA FailOne ==
    ASSUME IInv, fail_admission({outstanding.req})
    PROVE  /\ failed' = failed \cup {outstanding.req}
           /\ stats' = [num_received |-> stats.num_received + 0,
                        num_dispatched |-> stats.num_dispatched + 0,
                        num_failed |-> stats.num_failed + 1]
<1>1. Cardinality({outstanding.req}) = 1
  BY FS_Singleton
<1> QED
  BY <1>1 DEF IInv, TypeOK, fail_admission

LEMMA ReplyRejectKeeps == IInv /\ ReplyReject => IInv'
<1> SUFFICES ASSUME IInv, ReplyReject PROVE IInv'
  OBVIOUS
<1>1. waiting_for_slot' \in BOOLEAN
  BY DEF ReplyReject, LoopTop, IInv, TypeOK
<1> QED
  BY <1>1, FailOne, ReplyKeeps DEF ReplyReject, TakeReply

LEMMA ReplyClosedKeeps == IInv /\ ReplyClosed => IInv'
<1> SUFFICES ASSUME IInv, ReplyClosed PROVE IInv'
  OBVIOUS
<1>1. waiting_for_slot' \in BOOLEAN
  BY DEF ReplyClosed, IInv, TypeOK
<1> QED
  BY <1>1, FailOne, ReplyKeeps DEF ReplyClosed, TakeReply
\* The reply branch, when the request goes back to the front of its queue.
LEMMA ReplyWouldBlockKeeps == IInv /\ ReplyWouldBlock => IInv'
<1> SUFFICES ASSUME IInv, ReplyWouldBlock PROVE IInv'
  OBVIOUS
<1> DEFINE f == FunctionOf[outstanding.req]
<1>1. /\ outstanding # None /\ outstanding' = None /\ reply \in BlockReasons /\ reply' = None
      /\ queues' = [queues EXCEPT ![f] = push_front(@, outstanding)]
      /\ total_queued_reqs' = total_queued_reqs + 1
      /\ next_deadline' = update_deadline_timer(next_deadline, outstanding.deadline)
      /\ state' = [state EXCEPT ![f] = reply]
      /\ blocked_function_count' =
             blocked_function_count + (IF state[f] = Runnable THEN 1 ELSE 0)
      /\ permits' = permits + 1
      /\ UNCHANGED <<now, registered, source, poolUp, pc, stats, running, dispatched, failed>>
      /\ LoopTop(waiting_for_slot)
  BY DEF ReplyWouldBlock, TakeReply, mark_function_blocked
<1>2. /\ outstanding \in Envelope /\ outstanding.req \in Requests /\ f \in Functions
      /\ outstanding.deadline \in Nat
  BY <1>1, AdmissionAssumption DEF IInv, TypeOK, Envelope
<1>3. /\ OutstandingReqs = {outstanding.req} /\ Cardinality(OutstandingReqs) = 1
      /\ OutstandingReqs' = {} /\ Cardinality(OutstandingReqs') = 0
  BY <1>1, OutstandingFacts, OutstandingFactsNext
<1>4. outstanding.req \notin Queued
  BY <1>3 DEF IInv, ExactlyOnePlace
<1>5. queues \in [Functions -> Seq(Envelope)] /\ Placed(queues) /\ InOrder(queues)
  BY DEF IInv, TypeOK, ExactlyOnePlace, FifoPerFunction
<1>6. \A i \in 1..Len(queues[f]) : outstanding.ticket < queues[f][i].ticket
  BY <1>1 DEF IInv, FifoPerFunction
<1> HIDE DEF f
<1>7. /\ queues' \in [Functions -> Seq(Envelope)]
      /\ QueuedIn(queues') = QueuedIn(queues) \cup {outstanding.req}
      /\ Placed(queues') /\ InOrder(queues')
      /\ queues'[f] # <<>> /\ queues'[f] = <<outstanding>> \o queues[f]
  <2>1. FunctionOf[outstanding.req] = f /\ outstanding.req \notin QueuedIn(queues)
    BY <1>4 DEF f, Queued
  <2> QED
    BY ZenonT(60), <1>1, <1>2, <1>5, <1>6, <2>1, PushKeeps
<1>8. Queued' = Queued \cup {outstanding.req}
  BY <1>7 DEF Queued
<1>9. Cardinality(Queued') = total_queued_reqs + 1
  <2>1. IsFiniteSet(Queued) /\ total_queued_reqs = Cardinality(Queued)
    BY QueuedFinite DEF Queued, IInv, CountersExact
  <2> QED
    BY <1>4, <1>8, <2>1, FS_AddElement
<1>10. blocked_function_count' = Cardinality(BlockedIn(state')) /\ blocked_function_count' \in Nat
  <2>1. /\ IsFiniteSet(BlockedIn(state))
        /\ blocked_function_count = Cardinality(BlockedIn(state)) /\ blocked_function_count \in Nat
    BY BlockedFinite DEF IInv, CountersExact
  <2>2. state \in [Functions -> BlockReasons \cup {Runnable}] /\ reply # Runnable
    BY <1>1 DEF IInv, TypeOK, BlockReasons, Runnable
  <2>3. BlockedIn(state') = BlockedIn(state) \cup {f}
    BY <1>1, <1>2, <2>2 DEF BlockedIn
  <2>4. CASE state[f] = Runnable
    <3>1. f \notin BlockedIn(state)
      BY <2>4 DEF BlockedIn
    <3>2. Cardinality(BlockedIn(state) \cup {f}) = Cardinality(BlockedIn(state)) + 1
      BY <2>1, <3>1, FS_AddElement
    <3>3. blocked_function_count' = blocked_function_count + 1
      BY <1>1, <2>4
    <3> QED
      BY <2>1, <2>3, <3>2, <3>3
  <2>5. CASE state[f] # Runnable
    <3>1. BlockedIn(state') = BlockedIn(state)
      BY <1>2, <2>3, <2>5 DEF BlockedIn
    <3>2. blocked_function_count' = blocked_function_count + 0
      BY <1>1, <2>5
    <3>3. blocked_function_count' = blocked_function_count
      BY <2>1, <3>2
    <3> QED
      BY <2>1, <3>1, <3>3, Zenon
  <2> QED
    BY <2>4, <2>5
<1>11. TypeOK'
  <2>1. next_deadline' \in Nat \cup {None}
    BY <1>1, <1>2 DEF IInv, TypeOK, update_deadline_timer
  <2>2. waiting_for_slot' \in BOOLEAN
    BY <1>1 DEF LoopTop, IInv, TypeOK
  <2>3. state' \in [Functions -> BlockReasons \cup {Runnable}]
    BY <1>1 DEF IInv, TypeOK
  <2>4. total_queued_reqs' \in Nat /\ permits' \in Nat
    BY <1>1 DEF IInv, TypeOK
  <2> QED
    BY <1>1, <1>7, <1>10, <2>1, <2>2, <2>3, <2>4 DEF IInv, TypeOK
<1>12. CountersExact'
  BY <1>1, <1>9, <1>10 DEF CountersExact
<1>13. NeverBlockedEmpty'
  <2>1. \A g \in Functions \ {f} : queues'[g] = queues[g] /\ state'[g] = state[g]
    BY <1>1, <1>5 DEF IInv, TypeOK
  <2> QED
    BY <1>7, <2>1 DEF IInv, NeverBlockedEmpty
<1>14. ExactlyOnePlace'
  BY <1>1, <1>3, <1>7, <1>8 DEF IInv, ExactlyOnePlace
<1>15. StatsBalance'
  <2>1. stats.num_received \in Nat /\ stats.num_dispatched \in Nat /\ stats.num_failed \in Nat
    BY DEF IInv, TypeOK
  <2>2. total_queued_reqs \in Nat
    BY DEF IInv, TypeOK
  <2>3. total_queued_reqs' + 0 = total_queued_reqs + 1
    BY <1>1, <2>2
  <2>4. total_queued_reqs' + Cardinality(OutstandingReqs') = total_queued_reqs + Cardinality(OutstandingReqs)
    BY <1>3, <2>3
  <2> QED
    BY <1>1, <2>4 DEF IInv, StatsBalance
<1>16. SlotConservation'
  <2>1. PICK m \in Nat : m = Cardinality(running)
    BY RunningFinite DEF IInv
  <2>2. permits \in Nat /\ permits + 1 + m = MaxConcurrency
    BY <1>3, <2>1 DEF IInv, SlotConservation, TypeOK
  <2>3. (permits + 1) + 0 + m = MaxConcurrency
    BY <2>2
  <2> QED
    BY <1>1, <1>3, <2>1, <2>3 DEF SlotConservation
<1>17. OneAttempt'
  BY <1>1 DEF OneAttempt
<1>18. FifoPerFunction' /\ TicketsBounded'
  <2>1. ASSUME NEW g \in Functions, NEW i \in 1..Len(queues'[g])
        PROVE  queues'[g][i].ticket <= stats'.num_received
    <3>1. CASE g = f
      <4>1. queues'[f][i] = outstanding \/ \E j \in 1..Len(queues[f]) : queues'[f][i] = queues[f][j]
        <5>1. queues[f] \in Seq(Envelope)
          BY <1>2, <1>5
        <5>2. i \in 1..Len(<<outstanding>> \o queues[f])
          BY <1>7, <3>1
        <5>3. i = 1 \/ (i - 1 \in 1..Len(queues[f]) /\ (<<outstanding>> \o queues[f])[i] = queues[f][i - 1])
          BY <1>2, <5>1, <5>2
        <5>4. (<<outstanding>> \o queues[f])[1] = outstanding
          BY <1>2, <5>1
        <5> QED
          BY <1>7, <5>3, <5>4
      <4> QED
        BY <1>1, <1>2, <3>1, <4>1 DEF IInv, TicketsBounded
    <3>2. CASE g # f
      <4>1. queues'[g] = queues[g]
        BY <1>1, <1>5, <3>2
      <4> QED
        BY <1>1, <4>1 DEF IInv, TicketsBounded
    <3> QED
      BY <3>1, <3>2
  <2> QED
    BY <1>1, <1>7, <2>1 DEF FifoPerFunction, TicketsBounded
<1>19. running' \subseteq dispatched'
  BY <1>1 DEF IInv
<1> QED
  BY <1>11, <1>12, <1>13, <1>14, <1>15, <1>16, <1>17, <1>18, <1>19 DEF IInv
\* The wakeups: the Functions of fs, all blocked, become runnable.
LEMMA UnblockKeeps ==
    ASSUME IInv, NEW fs, fs \subseteq BlockedIn(state), Unblock(fs),
           blocked_function_count' = blocked_function_count - Cardinality(fs)
    PROVE  IInv'
<1>1. /\ state' = [f \in Functions |-> IF f \in fs THEN Runnable ELSE state[f]]
      /\ UNCHANGED <<now, registered, source, pc, queues, total_queued_reqs,
                     next_deadline, outstanding, reply, permits, stats, running,
                     dispatched, failed, poolUp>>
      /\ LoopTop(waiting_for_slot)
  BY DEF Unblock
<1>2. BlockedIn(state') = BlockedIn(state) \ fs
  BY <1>1 DEF BlockedIn
<1>3. blocked_function_count' = Cardinality(BlockedIn(state')) /\ blocked_function_count' \in Nat
  <2>1. IsFiniteSet(BlockedIn(state)) /\ blocked_function_count = Cardinality(BlockedIn(state))
    BY BlockedFinite DEF IInv, CountersExact
  <2>2. /\ Cardinality(BlockedIn(state) \ fs) = Cardinality(BlockedIn(state)) - Cardinality(fs)
        /\ Cardinality(BlockedIn(state) \ fs) \in Nat
    BY <2>1, CardinalityMinus
  <2> QED
    BY <1>2, <2>1, <2>2
<1>4. Queued' = Queued /\ OutstandingReqs' = OutstandingReqs
  BY <1>1 DEF Queued, OutstandingReqs
<1>5. TypeOK'
  <2>1. state' \in [Functions -> BlockReasons \cup {Runnable}]
    BY <1>1 DEF IInv, TypeOK
  <2>2. waiting_for_slot' \in BOOLEAN
    BY <1>1 DEF LoopTop, IInv, TypeOK
  <2> QED
    BY <1>1, <1>3, <2>1, <2>2 DEF IInv, TypeOK
<1>6. CountersExact'
  BY <1>1, <1>3, <1>4 DEF IInv, CountersExact
<1>7. NeverBlockedEmpty'
  BY <1>1 DEF IInv, NeverBlockedEmpty
<1>8. ExactlyOnePlace'
  BY <1>1, <1>4 DEF IInv, ExactlyOnePlace
<1>9. StatsBalance' /\ SlotConservation'
  BY <1>1, <1>4 DEF IInv, StatsBalance, SlotConservation
<1>10. OneAttempt'
  BY <1>1, LoopTopKeepsOneAttempt DEF IInv
<1>11. FifoPerFunction' /\ TicketsBounded' /\ running' \subseteq dispatched'
  BY <1>1 DEF IInv, FifoPerFunction, TicketsBounded
<1> QED
  BY <1>5, <1>6, <1>7, <1>8, <1>9, <1>10, <1>11 DEF IInv

LEMMA WorkerEventKeeps ==
    ASSUME IInv, NEW f \in Functions, WorkerIdleEvent(f) \/ WorkerCapAvailableEvent(f)
    PROVE  IInv'
<1>1. /\ state[f] # Runnable /\ Unblock({f})
      /\ blocked_function_count' = blocked_function_count - 1
  BY DEF WorkerIdleEvent, WorkerCapAvailableEvent, Runnable
<1>2. {f} \subseteq BlockedIn(state)
  BY <1>1 DEF BlockedIn
<1>3. Cardinality({f}) = 1
  BY FS_Singleton
<1> QED
  BY <1>1, <1>2, <1>3, UnblockKeeps

LEMMA MemoryEventKeeps == IInv /\ MemoryCapAvailableEvent => IInv'
<1> SUFFICES ASSUME IInv, MemoryCapAvailableEvent PROVE IInv'
  OBVIOUS
<1>1. BlockedFor({"MemoryPressure"}) \subseteq BlockedIn(state)
  BY DEF BlockedFor, BlockedIn, Runnable
<1> QED
  BY <1>1, UnblockKeeps DEF MemoryCapAvailableEvent

LEMMA LivenessTimerKeeps == IInv /\ LivenessTimer => IInv'
<1> SUFFICES ASSUME IInv, LivenessTimer PROVE IInv'
  OBVIOUS
<1>1. BlockedFor(BlockReasons) = BlockedIn(state)
  BY DEF BlockedFor, BlockedIn, Runnable, BlockReasons, IInv, TypeOK
<1>2. /\ blocked_function_count = Cardinality(BlockedIn(state))
      /\ blocked_function_count \in Nat
  BY DEF IInv, CountersExact, TypeOK
<1>3. blocked_function_count' = blocked_function_count - Cardinality(BlockedIn(state))
  BY <1>2 DEF LivenessTimer
<1> QED
  BY <1>1, <1>3, UnblockKeeps DEF LivenessTimer

\* The environment leaves the controller alone.
LEMMA EnvironmentKeeps == IInv /\ EnvironmentStep => IInv'
<1> SUFFICES ASSUME IInv, EnvironmentStep PROVE IInv'
  OBVIOUS
<1>1. UNCHANGED <<controller, source, dispatched, failed>>
  BY DEF EnvironmentStep, PoolReply, PoolExit, WorkerDone, Register, Deregister, Tick
<1>2. /\ UNCHANGED <<pc, queues, state, total_queued_reqs, blocked_function_count,
                     next_deadline, outstanding, waiting_for_slot, stats>>
      /\ UNCHANGED <<source, dispatched, failed>>
  BY <1>1 DEF controller
<1>3. Queued' = Queued /\ OutstandingReqs' = OutstandingReqs
  BY <1>2 DEF Queued, OutstandingReqs
<1>4. /\ now' \in Nat /\ reply' \in Replies \cup {None} /\ poolUp' \in BOOLEAN
      /\ registered' \in [Functions -> Limits \cup {None}]
  <2>0. /\ now \in Nat /\ reply \in Replies \cup {None} /\ poolUp \in BOOLEAN
        /\ registered \in [Functions -> Limits \cup {None}]
    BY DEF IInv, TypeOK
  <2>1. ASSUME NEW resp \in Replies \ {"Closed"}, PoolReply(resp)
        PROVE  UNCHANGED <<now, registered, poolUp>> /\ reply' \in Replies
    BY <2>1 DEF PoolReply
  <2>2. ASSUME NEW resp \in {"Reject", "Closed"}, PoolExit(resp)
        PROVE  UNCHANGED <<now, registered>> /\ poolUp' = FALSE /\ reply' \in Replies \cup {None}
    BY <2>0, <2>2 DEF PoolExit, Replies
  <2>3. ASSUME NEW r \in Requests, WorkerDone(r)
        PROVE  UNCHANGED <<now, registered, reply, poolUp>>
    BY <2>3 DEF WorkerDone
  <2>4. ASSUME NEW f \in Functions, Deregister(f)
        PROVE  /\ UNCHANGED <<now, reply, poolUp>>
               /\ registered' \in [Functions -> Limits \cup {None}]
    BY <2>0, <2>4 DEF Deregister
  <2>5. ASSUME NEW f \in Functions, NEW limits \in Profiles[f], Register(f, limits)
        PROVE  /\ UNCHANGED <<now, reply, poolUp>>
               /\ registered' \in [Functions -> Limits \cup {None}]
    <3>1. limits \in Limits
      BY AdmissionAssumption
    <3> QED
      BY <2>0, <2>5, <3>1 DEF Register
  <2>6. ASSUME Tick
        PROVE  UNCHANGED <<registered, reply, poolUp>> /\ now' \in Nat
    BY <2>0, <2>6 DEF Tick
  <2> QED
    BY <2>0, <2>1, <2>2, <2>3, <2>4, <2>5, <2>6 DEF EnvironmentStep
<1>5. \/ UNCHANGED <<permits, running>>
      \/ \E r \in running : running' = running \ {r} /\ permits' = permits + 1
  BY DEF EnvironmentStep, PoolReply, PoolExit, WorkerDone, Register, Deregister, Tick
<1>6. permits' \in Nat /\ running' \subseteq running /\ permits' + Cardinality(running') = permits + Cardinality(running)
  <2>1. permits \in Nat /\ IsFiniteSet(running) /\ Cardinality(running) \in Nat
    BY RunningFinite DEF IInv, TypeOK
  <2>2. ASSUME NEW r \in running, running' = running \ {r}, permits' = permits + 1
        PROVE  permits' + Cardinality(running') = permits + Cardinality(running)
    <3>1. Cardinality({r}) = 1
      BY FS_Singleton
    <3>2. Cardinality(running \ {r}) = Cardinality(running) - Cardinality({r})
      BY <2>1, CardinalityMinus
    <3> QED
      BY <2>1, <2>2, <3>1, <3>2
  <2> QED
    BY <1>5, <2>1, <2>2
<1>7. TypeOK'
  BY <1>2, <1>4, <1>6 DEF IInv, TypeOK
<1>8. SlotConservation'
  <2>1. Cardinality(running') \in Nat
    BY <1>7, RunningFinite, FS_Subset, FS_CardinalityType, <1>6 DEF IInv
  <2>2. PICK m \in Nat : m = Cardinality(running)
    BY RunningFinite DEF IInv
  <2>3. PICK k \in Nat : k = Cardinality(running')
    BY <2>1
  <2>4. PICK o \in Nat : o = Cardinality(OutstandingReqs)
    BY OutstandingFacts
  <2>5. permits \in Nat /\ permits + o + m = MaxConcurrency
    BY <2>2, <2>4 DEF IInv, TypeOK, SlotConservation
  <2>6. permits' + o + k = MaxConcurrency
    BY <1>6, <2>2, <2>3, <2>5
  <2> QED
    BY <1>3, <2>3, <2>4, <2>6 DEF SlotConservation
<1>9. CountersExact' /\ NeverBlockedEmpty' /\ ExactlyOnePlace' /\ StatsBalance'
  BY <1>2, <1>3 DEF IInv, CountersExact, NeverBlockedEmpty, ExactlyOnePlace, StatsBalance
<1>10. OneAttempt' /\ FifoPerFunction' /\ TicketsBounded' /\ running' \subseteq dispatched'
  BY <1>2, <1>6 DEF IInv, OneAttempt, FifoPerFunction, TicketsBounded
<1> QED
  BY <1>7, <1>8, <1>9, <1>10 DEF IInv

\* Every step keeps the invariant.
LEMMA NextKeeps == IInv /\ [Next]_vars => IInv'
<1> SUFFICES ASSUME IInv, [Next]_vars PROVE IInv'
  OBVIOUS
<1>1. ASSUME NEW r \in Requests,
             NewRequestUnknown(r) \/ NewRequestRefused(r) \/ NewRequestQueued(r)
      PROVE  IInv'
  BY <1>1, NewRequestUnknownKeeps, NewRequestRefusedKeeps, NewRequestQueuedKeeps
<1>2. ASSUME NEW f \in Functions, SlotToDispatch(f) \/ SlotPoolClosed(f)
      PROVE  IInv'
  BY <1>2, SlotToDispatchKeeps, SlotPoolClosedKeeps
<1>3. ASSUME NEW f \in Functions, WorkerIdleEvent(f) \/ WorkerCapAvailableEvent(f)
      PROVE  IInv'
  BY <1>3, WorkerEventKeeps
<1>4. ASSUME \/ SlotUnused \/ ReplyDispatch \/ ReplyForwardFailed \/ ReplyWouldBlock
             \/ ReplyReject \/ ReplyClosed \/ DeadlineTimer
             \/ MemoryCapAvailableEvent \/ LivenessTimer
      PROVE  IInv'
  BY <1>4, SlotUnusedKeeps, ReplyDispatchKeeps, ReplyForwardFailedKeeps, ReplyWouldBlockKeeps,
     ReplyRejectKeeps, ReplyClosedKeeps, DeadlineTimerKeeps, MemoryEventKeeps, LivenessTimerKeeps
<1>5. CASE UNCHANGED vars
  <2>1. Queued' = Queued /\ OutstandingReqs' = OutstandingReqs
    BY <1>5 DEF vars, Queued, OutstandingReqs
  <2> QED
    BY <1>5, <2>1 DEF vars, IInv, TypeOK, CountersExact, NeverBlockedEmpty, ExactlyOnePlace,
       StatsBalance, SlotConservation, OneAttempt, FifoPerFunction, TicketsBounded
<1>6. CASE Quit
  <2>1. /\ UNCHANGED <<now, registered, source, queues, state, total_queued_reqs,
                       blocked_function_count, next_deadline, outstanding, reply,
                       waiting_for_slot, permits, stats, running, dispatched, failed, poolUp>>
        /\ pc = "running" /\ pc' = "stopped"
    BY <1>6 DEF Quit
  <2>2. Queued' = Queued /\ OutstandingReqs' = OutstandingReqs
    BY <2>1 DEF Queued, OutstandingReqs
  <2> QED
    BY <2>1, <2>2 DEF IInv, TypeOK, CountersExact, NeverBlockedEmpty, ExactlyOnePlace,
       StatsBalance, SlotConservation, OneAttempt, FifoPerFunction, TicketsBounded
<1>7. CASE ControllerStep
  BY <1>1, <1>2, <1>3, <1>4, <1>6, <1>7 DEF ControllerStep
<1>8. CASE EnvironmentStep
  BY <1>8, EnvironmentKeeps
<1> QED
  BY <1>5, <1>7, <1>8 DEF Next, Exited
-----------------------------------------------------------------------------
(***************************************************************************)
(* The theorems                                                            *)
(***************************************************************************)

\* The inductive invariant holds in every reachable state of the controller.
THEOREM Invariance == Spec => []IInv
<1>1. Init => IInv
  BY InitIInv
<1>2. IInv /\ [Next]_vars => IInv'
  BY NextKeeps
<1> QED
  BY <1>1, <1>2, PTL DEF Spec

\* Every variable keeps its type; no counter of the controller underflows.
THEOREM TypeCorrect == Spec => []TypeOK
<1>1. IInv => TypeOK
  BY DEF IInv
<1> QED
  BY <1>1, Invariance, PTL

\* The cached counters total_queued_reqs and blocked_function_count are exact, and
\* no Function stays blocked with an empty queue (debug_assert_blocked_count).
THEOREM CountersCorrect == Spec => [](CountersExact /\ NeverBlockedEmpty)
<1>1. IInv => CountersExact /\ NeverBlockedEmpty
  BY DEF IInv
<1> QED
  BY <1>1, Invariance, PTL

\* No request is lost, duplicated or answered twice, and the statistics balance.
THEOREM RequestsAccounted == Spec => [](ExactlyOnePlace /\ StatsBalance)
<1>1. IInv => ExactlyOnePlace /\ StatsBalance
  BY DEF IInv
<1> QED
  BY <1>1, Invariance, PTL

\* No execution slot leaks, and no attempt is overwritten by another.
THEOREM SlotsConserved == Spec => [](SlotConservation /\ OneAttempt)
<1>1. IInv => SlotConservation /\ OneAttempt
  BY DEF IInv
<1> QED
  BY <1>1, Invariance, PTL

\* The requests of a Function are attempted in order of arrival, requeues included.
THEOREM FifoCorrect == Spec => []FifoPerFunction
<1>1. IInv => FifoPerFunction
  BY DEF IInv
<1> QED
  BY <1>1, Invariance, PTL

-----------------------------------------------------------------------------
(***************************************************************************)
(* The controller implements RequestLifecycle                              *)
(***************************************************************************)

Waiting == Queued \cup OutstandingReqs

LEMMA LifecycleInit == Init => Lifecycle!Init
<1> SUFFICES ASSUME Init PROVE Lifecycle!Init
  OBVIOUS
<1>1. OutstandingReqs = {}
  BY OutstandingFacts DEF Init
<1>2. Queued = {}
  BY DEF Init, Queued, QueuedIn
<1> QED
  BY <1>1, <1>2 DEF Init, Lifecycle!Init

\* A step of the controller that fails the requests of rs and decides no other.
LEMMA LifecycleFail ==
    ASSUME pc = "running", NEW rs \in SUBSET Waiting, Waiting' = Waiting \ rs,
           failed' = failed \cup rs, UNCHANGED <<source, running, dispatched>>,
           pc' \in {"running", "stopped", "crashed"}
    PROVE  Lifecycle!Next
<1>1. CASE pc' # "crashed"
  <2>1. Lifecycle!Fail(rs)
    BY <1>1 DEF Lifecycle!Fail, Waiting
  <2> QED
    BY <2>1 DEF Lifecycle!Next, Lifecycle!Step, Waiting
<1>2. CASE pc' = "crashed"
  <2>1. Lifecycle!GoDown(rs, {})
    BY <1>2 DEF Lifecycle!GoDown, Waiting
  <2>2. {} \in SUBSET Waiting
    OBVIOUS
  <2> QED
    BY <2>1, <2>2 DEF Lifecycle!Next, Lifecycle!Step, Waiting
<1> QED
  BY <1>1, <1>2
LEMMA LifecycleArrival ==
    ASSUME IInv, NEW r \in Requests,
           NewRequestUnknown(r) \/ NewRequestRefused(r) \/ NewRequestQueued(r)
    PROVE  Lifecycle!Next
<1> DEFINE c == IngressSweep(FunctionOf[r])
<1>1. SoundConfig(c)
  BY IInvSound, SweptSound DEF IngressSweep, Due
<1>2. /\ pc = "running" /\ r \in source /\ source' = source \ {r}
      /\ UNCHANGED <<pc, outstanding, running, dispatched>>
  BY DEF NewRequestUnknown, NewRequestRefused, NewRequestQueued, Receive
<1>3. /\ c.queues \in [Functions -> Seq(Envelope)]
      /\ c.expired \subseteq Queued /\ QueuedIn(c.queues) = Queued \ c.expired
  BY <1>1 DEF SoundConfig
<1>4. /\ OutstandingReqs' = OutstandingReqs
      /\ Queued \cap OutstandingReqs = {} /\ r \notin Queued \cup OutstandingReqs
  BY <1>2 DEF OutstandingReqs, IInv, ExactlyOnePlace
<1>5. CASE NewRequestUnknown(r)
  <2>1. Queued' = Queued /\ failed' = failed \cup {} \cup {r}
    BY <1>5 DEF NewRequestUnknown, Queued
  <2>2. Lifecycle!Refuse(r, {})
    BY <1>2, <1>4, <2>1 DEF Lifecycle!Refuse
  <2>3. {} \in SUBSET (Queued \cup OutstandingReqs)
    OBVIOUS
  <2> QED
    BY <1>2, <2>2, <2>3 DEF Lifecycle!Next, Lifecycle!Step
<1>6. CASE NewRequestRefused(r)
  <2>1. queues' = c.queues /\ failed' = failed \cup c.expired \cup {r}
    BY <1>6 DEF NewRequestRefused
  <2> HIDE DEF c
  <2>2. Queued' = Queued \ c.expired
    BY <1>3, <2>1 DEF Queued
  <2>3. Lifecycle!Refuse(r, c.expired)
    BY <1>2, <1>3, <1>4, <2>1, <2>2 DEF Lifecycle!Refuse
  <2>4. c.expired \in SUBSET (Queued \cup OutstandingReqs)
    BY <1>3
  <2> QED
    BY <1>2, <2>3, <2>4 DEF Lifecycle!Next, Lifecycle!Step
<1>7. CASE NewRequestQueued(r)
  <2> DEFINE f == FunctionOf[r]
             env == [req |-> r, ticket |-> stats.num_received + 1, enqueued_at |-> now,
                     deadline |-> now + registered[f].max_queue_delay]
  <2>1. /\ queues' = [c.queues EXCEPT ![f] = Append(@, env)] /\ failed' = failed \cup c.expired
        /\ registered[f] # None
    BY <1>7 DEF NewRequestQueued
  <2>2. f \in Functions
    BY AdmissionAssumption
  <2>3. env \in Envelope /\ env.req = r
    <3>1. registered[f] \in Limits /\ now \in Nat /\ stats.num_received \in Nat
      BY <2>1, <2>2 DEF IInv, TypeOK
    <3> QED
      BY <3>1 DEF Envelope, Limits
  <2> HIDE DEF c, env, f
  <2>4. Queued' = (Queued \ c.expired) \cup {r}
    BY <1>3, <2>1, <2>2, <2>3, AppendQueued DEF Queued
  <2>5. Lifecycle!Admit(r, c.expired)
    BY <1>2, <1>3, <1>4, <2>1, <2>4 DEF Lifecycle!Admit
  <2>6. c.expired \in SUBSET (Queued \cup OutstandingReqs)
    BY <1>3
  <2> QED
    BY <1>2, <2>5, <2>6 DEF Lifecycle!Next, Lifecycle!Step
<1> QED
  BY <1>5, <1>6, <1>7

LEMMA LifecycleSlot ==
    ASSUME IInv, \/ SlotUnused
                 \/ \E f \in Functions : SlotToDispatch(f) \/ SlotPoolClosed(f)
    PROVE  Lifecycle!Next
<1>1. PICK c \in {Swept(Due)} :
          /\ AcquireSlot(c)
          /\ \/ queues' = c.queues /\ UNCHANGED outstanding
             \/ \E f \in Functions : /\ f \in pick_next_function(c)
                                     /\ queues' = [c.queues EXCEPT ![f] = Tail(@)]
                                     /\ outstanding' = Head(c.queues[f])
          /\ pc' \in {pc, "crashed"}
  BY DEF SlotUnused, SlotToDispatch, SlotPoolClosed
<1>2. /\ SoundConfig(c) /\ pc = "running" /\ outstanding = None
      /\ failed' = failed \cup c.expired
      /\ UNCHANGED <<source, running, dispatched>>
  BY <1>1, AcquireFacts
<1>3. /\ c.queues \in [Functions -> Seq(Envelope)]
      /\ c.expired \subseteq Queued /\ QueuedIn(c.queues) = Queued \ c.expired
      /\ Placed(c.queues) /\ InOrder(c.queues)
  BY <1>2 DEF SoundConfig
<1>4. OutstandingReqs = {}
  BY <1>2, OutstandingFacts
<1>5. Waiting' = Waiting \ c.expired
  <2>1. CASE queues' = c.queues /\ UNCHANGED outstanding
    <3>1. Queued' = Queued \ c.expired /\ OutstandingReqs' = {}
      BY <1>3, <1>4, <2>1 DEF Queued, OutstandingReqs
    <3> QED
      BY <1>4, <3>1 DEF Waiting
  <2>2. ASSUME NEW f \in Functions, f \in pick_next_function(c),
               queues' = [c.queues EXCEPT ![f] = Tail(@)], outstanding' = Head(c.queues[f])
        PROVE  Waiting' = Waiting \ c.expired
    <3>1. c.queues[f] # <<>>
      BY <2>2 DEF pick_next_function, is_runnable
    <3>2. /\ QueuedIn(queues') = QueuedIn(c.queues) \ {outstanding'.req}
          /\ outstanding' \in Envelope /\ outstanding'.req \in QueuedIn(c.queues)
      BY <1>3, <2>2, <3>1, PopKeeps, Zenon
    <3>3. OutstandingReqs' = {outstanding'.req}
      BY <3>2, AdmissionAssumption, OutstandingFactsNext
    <3>4. Queued' = QueuedIn(queues')
      BY DEF Queued
    <3> QED
      BY <1>3, <1>4, <3>2, <3>3, <3>4 DEF Waiting
  <2> QED
    BY <1>1, <2>1, <2>2
<1>6. c.expired \in SUBSET Waiting
  BY <1>3 DEF Waiting
<1> QED
  BY <1>1, <1>2, <1>5, <1>6, LifecycleFail

LEMMA LifecycleReply ==
    ASSUME IInv, ReplyDispatch \/ ReplyForwardFailed \/ ReplyWouldBlock \/ ReplyReject \/ ReplyClosed
    PROVE  Lifecycle!Next
<1>1. /\ pc = "running" /\ outstanding # None /\ outstanding' = None /\ UNCHANGED source
  BY DEF ReplyDispatch, ReplyForwardFailed, ReplyWouldBlock, ReplyReject, ReplyClosed, TakeReply
<1>2. /\ OutstandingReqs = {outstanding.req} /\ Cardinality(OutstandingReqs) = 1
      /\ OutstandingReqs' = {}
  BY <1>1, OutstandingFacts, OutstandingFactsNext
<1>3. /\ outstanding \in Envelope /\ outstanding.req \in Requests
      /\ outstanding.req \notin Queued \cup dispatched \cup failed \cup running
  BY <1>1, <1>2 DEF IInv, TypeOK, Envelope, ExactlyOnePlace
<1>4. {outstanding.req} \in SUBSET Waiting /\ {} \in SUBSET Waiting
  BY <1>2 DEF Waiting
<1>5. CASE ReplyDispatch
  <2>1. /\ running' = running \cup {outstanding.req}
        /\ dispatched' = dispatched \cup {outstanding.req}
        /\ UNCHANGED <<pc, queues, failed>>
    BY <1>5 DEF ReplyDispatch
  <2>2. Queued' = Queued
    BY <2>1 DEF Queued
  <2>3. Cardinality(running) < MaxConcurrency
    <3>1. PICK m \in Nat : m = Cardinality(running)
      BY RunningFinite DEF IInv
    <3>2. permits \in Nat /\ permits + 1 + m = MaxConcurrency
      BY <1>2, <3>1 DEF IInv, TypeOK, SlotConservation
    <3> QED
      BY <3>1, <3>2
  <2>4. Lifecycle!Start(outstanding.req)
    <3>1. outstanding.req \in Queued \cup OutstandingReqs
      BY <1>2
    <3>2. (Queued \cup OutstandingReqs)' = (Queued \cup OutstandingReqs) \ {outstanding.req}
      BY <1>2, <1>3, <2>2
    <3>3. (dispatched \ running)' = dispatched \ running
      BY <1>3, <2>1
    <3>4. (pc = "crashed")' = (pc = "crashed")
      BY <2>1
    <3>5. Lifecycle!Cardinality(running) = Cardinality(running)
      BY Zenon DEF Lifecycle!Cardinality, Cardinality
    <3> QED
      BY <1>1, <2>1, <2>3, <3>1, <3>2, <3>3, <3>4, <3>5 DEF Lifecycle!Start
  <2> QED
    BY <1>1, <1>3, <2>4 DEF Lifecycle!Next, Lifecycle!Step
<1>6. CASE ReplyForwardFailed
  <2>1. pc' = "crashed" /\ UNCHANGED <<queues, running, dispatched, failed>>
    BY <1>6 DEF ReplyForwardFailed
  <2>2. Queued' = Queued
    BY <2>1 DEF Queued
  <2>3. Lifecycle!GoDown({}, {outstanding.req})
    BY <1>1, <1>2, <1>3, <2>1, <2>2 DEF Lifecycle!GoDown
  <2> QED
    BY <1>1, <1>4, <2>3 DEF Lifecycle!Next, Lifecycle!Step, Waiting
<1>7. CASE ReplyWouldBlock
  <2> DEFINE f == FunctionOf[outstanding.req]
  <2>1. /\ queues' = [queues EXCEPT ![f] = push_front(@, outstanding)]
        /\ UNCHANGED <<pc, running, dispatched, failed>>
    BY <1>7 DEF ReplyWouldBlock
  <2>2. f \in Functions /\ queues \in [Functions -> Seq(Envelope)]
    BY <1>3, AdmissionAssumption DEF IInv, TypeOK
  <2> HIDE DEF f
  <2>3. Queued' = Queued \cup {outstanding.req}
    BY <1>3, <2>1, <2>2, PushQueued DEF Queued
  <2>4. Waiting' = Waiting \ {} /\ failed' = failed \cup {}
    BY <1>2, <2>1, <2>3 DEF Waiting
  <2> QED
    BY <1>1, <1>4, <2>1, <2>4, LifecycleFail
<1>8. CASE ReplyReject \/ ReplyClosed
  <2>1. /\ failed' = failed \cup {outstanding.req} /\ pc' \in {pc, "crashed"}
        /\ UNCHANGED <<queues, running, dispatched>>
    BY <1>8 DEF ReplyReject, ReplyClosed, fail_admission
  <2>2. Queued' = Queued
    BY <2>1 DEF Queued
  <2>3. Waiting' = Waiting \ {outstanding.req}
    BY <1>2, <1>3, <2>2 DEF Waiting
  <2> QED
    BY <1>1, <1>4, <2>1, <2>3, LifecycleFail
<1> QED
  BY <1>5, <1>6, <1>7, <1>8

LEMMA LifecycleTimer ==
    ASSUME IInv, DeadlineTimer
    PROVE  Lifecycle!Next
<1> DEFINE c == expire_queued_requests
<1>1. SoundConfig(c)
  BY IInvSound, ExpireSound
<1>2. /\ pc = "running" /\ queues' = c.queues /\ failed' = failed \cup c.expired
      /\ UNCHANGED <<source, pc, outstanding, running, dispatched>>
  BY DEF DeadlineTimer, fail_admission
<1> HIDE DEF c
<1>3. Queued' = Queued \ c.expired /\ c.expired \subseteq Queued
  BY <1>1, <1>2 DEF SoundConfig, Queued
<1>4. OutstandingReqs' = OutstandingReqs /\ Queued \cap OutstandingReqs = {}
  BY <1>2 DEF OutstandingReqs, IInv, ExactlyOnePlace
<1>5. Waiting' = Waiting \ c.expired /\ c.expired \in SUBSET Waiting
  BY <1>3, <1>4 DEF Waiting
<1> QED
  BY <1>2, <1>5, LifecycleFail

LEMMA LifecycleStutter ==
    ASSUME UNCHANGED <<queues, outstanding, source, running, dispatched, failed>>,
           (pc' = "crashed") = (pc = "crashed")
    PROVE  UNCHANGED Lifecycle!vars
<1>1. Queued' = Queued /\ OutstandingReqs' = OutstandingReqs
  BY DEF Queued, OutstandingReqs
<1> QED
  BY <1>1 DEF Lifecycle!vars

LEMMA LifecycleWorkerDone ==
    ASSUME IInv, pc = "running", NEW r \in Requests, WorkerDone(r)
    PROVE  Lifecycle!Next
<1>1. /\ r \in running /\ running' = running \ {r}
      /\ UNCHANGED <<pc, queues, outstanding, source, dispatched, failed>>
  BY DEF WorkerDone, controller
<1>2. Queued' = Queued /\ OutstandingReqs' = OutstandingReqs
  BY <1>1 DEF Queued, OutstandingReqs
<1>3. running \subseteq dispatched
  BY DEF IInv
<1>4. Lifecycle!Finish(r)
  BY <1>1, <1>2, <1>3 DEF Lifecycle!Finish
<1> QED
  BY <1>4 DEF Lifecycle!Next, Lifecycle!Step

LEMMA LifecycleNext == IInv /\ [Next]_vars => [Lifecycle!Next]_(Lifecycle!vars)
<1> SUFFICES ASSUME IInv, [Next]_vars PROVE [Lifecycle!Next]_(Lifecycle!vars)
  OBVIOUS
<1>1. CASE ControllerStep
  <2>1. CASE \/ \E f \in Functions : WorkerIdleEvent(f) \/ WorkerCapAvailableEvent(f)
             \/ MemoryCapAvailableEvent \/ LivenessTimer \/ Quit
    <3>1. /\ UNCHANGED <<queues, outstanding, source, running, dispatched, failed>>
          /\ pc = "running" /\ pc' \in {"running", "stopped"}
      BY <2>1 DEF WorkerIdleEvent, WorkerCapAvailableEvent, MemoryCapAvailableEvent, LivenessTimer,
         Unblock, Quit
    <3> QED
      BY <3>1, LifecycleStutter
  <2> QED
    BY <1>1, <2>1, LifecycleArrival, LifecycleSlot, LifecycleReply, LifecycleTimer
       DEF ControllerStep
<1>2. CASE pc = "running" /\ EnvironmentStep
  <2>1. CASE \E r \in Requests : WorkerDone(r)
    BY <1>2, <2>1, LifecycleWorkerDone
  <2>2. CASE \/ \E resp \in Replies \ {"Closed"} : PoolReply(resp)
             \/ \E resp \in {"Reject", "Closed"} : PoolExit(resp)
             \/ \E f \in Functions : Deregister(f)
             \/ \E f \in Functions : \E limits \in Profiles[f] : Register(f, limits)
             \/ Tick
    <3>1. UNCHANGED <<queues, outstanding, source, running, dispatched, failed, pc>>
      BY <2>2 DEF PoolReply, PoolExit, Register, Deregister, Tick, controller
    <3> QED
      BY <3>1, LifecycleStutter
  <2> QED
    BY <1>2, <2>1, <2>2 DEF EnvironmentStep
<1>3. CASE UNCHANGED vars
  BY <1>3, LifecycleStutter DEF vars
<1> QED
  BY <1>1, <1>2, <1>3 DEF Next, Exited

\* The controller implements the lifecycle that RequestLifecycle specifies: one
\* decision per request, and never more than max_concurrency executing.
THEOREM LifecycleImplemented == Spec => ImplementsLifecycle
<1>1. Init => Lifecycle!Init
  BY LifecycleInit
<1>2. IInv /\ [Next]_vars => [Lifecycle!Next]_(Lifecycle!vars)
  BY LifecycleNext
<1> QED
  BY <1>1, <1>2, Invariance, PTL DEF Spec, ImplementsLifecycle, Lifecycle!Spec

-----------------------------------------------------------------------------
(***************************************************************************)
(* Deadlines.  The sweep of the admission controller drains only expired   *)
(* heads and its timer follows only heads, so it is right only as long as  *)
(* the deadlines of a queue are in order.  They are if a Function always   *)
(* registers with the same max_queue_delay, and then the timer is never    *)
(* late and no expired request is handed to the Pool.                      *)
(***************************************************************************)


\* Every registration of a Function has the same max_queue_delay.
StableDelays ==
    \A f \in Functions : \A a, b \in Profiles[f] : a.max_queue_delay = b.max_queue_delay

-----------------------------------------------------------------------------
(***************************************************************************)
(* The inductive invariant                                                 *)
(***************************************************************************)

Sorted(q) == \A i, j \in 1..Len(q) : i < j => q[i].deadline <= q[j].deadline

\* A deadline is never further away than a request admitted now would get.
NotLaterThanNew(d, f) == \A limits \in Profiles[f] : d <= now + limits.max_queue_delay

Young(q, f) == \A i \in 1..Len(q) : NotLaterThanNew(q[i].deadline, f)

Timely(next, q) == q # <<>> => next \in Nat /\ next <= q[1].deadline

\* A deadline no later than any in q.
Before(d, q) == \A i \in 1..Len(q) : d <= q[i].deadline

\* The queues qs and the timer `next' are as the sweep expects them.
Fine(qs, next) ==
    \A f \in Functions : Sorted(qs[f]) /\ Young(qs[f], f) /\ Timely(next, qs[f])

OutstandingFirst(qs) ==
    outstanding # None =>
        LET f == FunctionOf[outstanding.req] IN
        NotLaterThanNew(outstanding.deadline, f) /\ Before(outstanding.deadline, qs[f])

RegisteredProfile == \A f \in Functions : registered[f] \in Profiles[f] \cup {None}

DInv == RegisteredProfile /\ Fine(queues, next_deadline) /\ OutstandingFirst(queues)

-----------------------------------------------------------------------------
(***************************************************************************)
(* The sweep                                                               *)
(***************************************************************************)

LEMMA HeadIsFirst ==
    ASSUME NEW q \in Seq(Envelope), q # <<>>
    PROVE  /\ Head(q) = q[1] /\ 1 \in 1..Len(q) /\ q[1] \in Envelope
           /\ q[1].deadline \in Nat /\ q[1].req \in Requests
<1>1. /\ Head(q) = q[1] /\ 1 \in 1..Len(q) /\ q[1] \in Envelope
  OBVIOUS
<1> QED
  BY <1>1 DEF Envelope

\* Any suffix of a queue inherits its order.
LEMMA SuffixFine ==
    ASSUME NEW q \in Seq(Envelope), NEW n \in 0..Len(q), NEW s \in Seq(Envelope),
           Len(s) = Len(q) - n, \A i \in 1..Len(s) : s[i] = q[n + i],
           NEW f \in Functions, Sorted(q), Young(q, f)
    PROVE  /\ Sorted(s) /\ Young(s, f)
           /\ \A d \in Nat : Before(d, q) => Before(d, s)
<1>1. ASSUME NEW i \in 1..Len(s) PROVE n + i \in 1..Len(q) /\ s[i] = q[n + i]
  OBVIOUS
<1>2. ASSUME NEW i \in 1..Len(s), NEW j \in 1..Len(s), i < j
      PROVE  s[i].deadline <= s[j].deadline
  <2>1. n + i < n + j
    BY <1>2
  <2> QED
    BY <1>1, <2>1 DEF Sorted
<1> QED
  BY <1>1, <1>2 DEF Sorted, Young, Before

\* The sweep leaves queues and a timer that are fine, whether it ran or not.
LEMMA SweptFine ==
    ASSUME IInv, DInv, NEW due \in BOOLEAN
    PROVE  LET c == Swept(due) IN Fine(c.queues, c.next) /\ OutstandingFirst(c.queues)
<1>1. CASE ~due
  BY <1>1 DEF Swept, unswept, DInv
<1>2. CASE due
  <2> DEFINE rest == [f \in Functions |-> Remaining(queues[f])]
  <2>1. Swept(due).queues = rest /\ Swept(due).next = EarliestHead(rest)
    BY <1>2 DEF Swept, expire_queued_requests
  <2>2. queues \in [Functions -> Seq(Envelope)] /\ now \in Nat
    BY DEF IInv, TypeOK
  <2>3. ASSUME NEW f \in Functions
        PROVE  /\ rest[f] \in Seq(Envelope) /\ Sorted(rest[f]) /\ Young(rest[f], f)
               /\ \A d \in Nat : Before(d, queues[f]) => Before(d, rest[f])
    <3>1. rest[f] = Remaining(queues[f])
      OBVIOUS
    <3>2. queues[f] \in Seq(Envelope) /\ NumExpired(queues[f]) \in 0..Len(queues[f])
      BY <2>2, NumExpiredFacts
    <3>3. /\ Remaining(queues[f]) \in Seq(Envelope)
          /\ Len(Remaining(queues[f])) = Len(queues[f]) - NumExpired(queues[f])
          /\ \A i \in 1..Len(Remaining(queues[f])) :
                 Remaining(queues[f])[i] = queues[f][NumExpired(queues[f]) + i]
      BY <2>2, <3>2, RemainingFacts
    <3>4. Sorted(queues[f]) /\ Young(queues[f], f)
      BY DEF DInv, Fine
    <3> QED
      BY <3>1, <3>2, <3>3, <3>4, SuffixFine, Zenon
  <2>4. rest \in [Functions -> Seq(Envelope)]
    BY <2>3
  <2> HIDE DEF rest
  <2>5. ASSUME NEW f \in Functions PROVE Timely(EarliestHead(rest), rest[f])
    BY <2>3, <2>4, EarliestHeadFacts, HeadIsFirst DEF Timely
  <2>6. OutstandingFirst(rest)
    <3> SUFFICES ASSUME outstanding # None
                 PROVE  Before(outstanding.deadline, rest[FunctionOf[outstanding.req]])
      BY DEF OutstandingFirst, DInv
    <3>1. outstanding \in Envelope
      BY DEF IInv, TypeOK
    <3>2. outstanding.deadline \in Nat /\ FunctionOf[outstanding.req] \in Functions
      BY <3>1, AdmissionAssumption DEF Envelope
    <3> QED
      BY <2>3, <3>2 DEF DInv, OutstandingFirst
  <2> QED
    BY <2>1, <2>3, <2>5, <2>6 DEF Fine
<1> QED
  BY <1>1, <1>2

\* After a sweep that runs when the timer is due, no head has expired.
LEMMA SweptHeadsAlive ==
    ASSUME IInv, DInv, NEW f \in Functions, NEW c \in {Swept(Due)}, c.queues[f] # <<>>
    PROVE  now < c.queues[f][1].deadline
<1>1. queues \in [Functions -> Seq(Envelope)] /\ now \in Nat /\ next_deadline \in Nat \cup {None}
  BY DEF IInv, TypeOK
<1>2. CASE ~Due
  <2>1. c.queues = queues /\ queues[f] # <<>>
    BY <1>2 DEF Swept, unswept
  <2>2. next_deadline \in Nat /\ next_deadline <= queues[f][1].deadline
    BY <2>1 DEF DInv, Fine, Timely
  <2>3. next_deadline # None
    BY <2>2, AdmissionAssumption
  <2>4. queues[f][1].deadline \in Nat
    BY <1>1, <2>1, HeadIsFirst
  <2> QED
    BY <1>1, <1>2, <2>1, <2>2, <2>3, <2>4 DEF Due
<1>3. CASE Due
  <2> DEFINE n == NumExpired(queues[f])
  <2>1. c.queues[f] = Remaining(queues[f])
    BY <1>3 DEF Swept, expire_queued_requests
  <2>2. /\ n \in 0..Len(queues[f])
        /\ n < Len(queues[f]) => queues[f][n + 1].deadline > now
    BY <1>1, NumExpiredFacts
  <2>3. /\ Remaining(queues[f]) \in Seq(Envelope)
        /\ Len(Remaining(queues[f])) = Len(queues[f]) - n
        /\ \A i \in 1..Len(Remaining(queues[f])) : Remaining(queues[f])[i] = queues[f][n + i]
    BY <1>1, RemainingFacts
  <2> HIDE DEF n
  <2>4. 1 \in 1..Len(Remaining(queues[f])) /\ Remaining(queues[f])[1].deadline \in Nat
    BY <2>1, <2>3, HeadIsFirst
  <2>5. n < Len(queues[f]) /\ Remaining(queues[f])[1] = queues[f][n + 1]
    BY <1>1, <2>2, <2>3, <2>4
  <2> QED
    BY <1>1, <2>1, <2>2, <2>4, <2>5
<1> QED
  BY <1>2, <1>3
-----------------------------------------------------------------------------
(***************************************************************************)
(* The steps                                                               *)
(***************************************************************************)

LEMMA InitDInv == Init => DInv
<1> SUFFICES ASSUME Init PROVE DInv
  OBVIOUS
<1>1. /\ RegisteredProfile /\ outstanding = None
      /\ \A f \in Functions : queues[f] = <<>>
  BY DEF Init, RegisteredProfile
<1> QED
  BY <1>1 DEF DInv, Fine, Sorted, Young, Timely, OutstandingFirst

\* As time passes, a deadline that was not later than a new one still is not.
LEMMA TimePasses ==
    ASSUME TypeOK, now' \in {now, now + 1}, NEW d \in Nat, NEW f \in Functions,
           NotLaterThanNew(d, f)
    PROVE  \A limits \in Profiles[f] : d <= now' + limits.max_queue_delay
<1>1. ASSUME NEW limits \in Profiles[f]
      PROVE  limits.max_queue_delay \in Nat /\ d <= now + limits.max_queue_delay
  BY AdmissionAssumption DEF Limits, NotLaterThanNew
<1>2. now \in Nat
  BY DEF TypeOK
<1> QED
  BY <1>1, <1>2

\* A step to queues and a timer that are fine, which starts no attempt.
LEMMA FineStep ==
    ASSUME IInv, RegisteredProfile', NEW qs \in [Functions -> Seq(Envelope)], NEW next,
           Fine(qs, next), OutstandingFirst(qs),
           queues' = qs, next_deadline' = next,
           outstanding' \in {outstanding, None}, now' \in {now, now + 1}
    PROVE  DInv'
<1>1. ASSUME NEW f \in Functions
      PROVE  Sorted(queues'[f]) /\ Timely(next_deadline', queues'[f])
  BY DEF Fine
<1>2. ASSUME NEW f \in Functions, NEW i \in 1..Len(qs[f])
      PROVE  \A limits \in Profiles[f] : qs[f][i].deadline <= now' + limits.max_queue_delay
  <2>1. qs[f][i] \in Envelope
    OBVIOUS
  <2>2. qs[f][i].deadline \in Nat
    BY <2>1 DEF Envelope
  <2>3. NotLaterThanNew(qs[f][i].deadline, f)
    BY DEF Fine, Young
  <2> QED
    BY <2>2, <2>3, TimePasses DEF IInv
<1>3. Fine(queues, next_deadline)'
  BY <1>1, <1>2 DEF Fine, Sorted, Young, Timely, NotLaterThanNew
<1>4. ASSUME outstanding' # None
      PROVE  /\ Before(outstanding'.deadline, queues'[FunctionOf[outstanding'.req]])
             /\ \A limits \in Profiles[FunctionOf[outstanding'.req]] :
                    outstanding'.deadline <= now' + limits.max_queue_delay
  <2>1. outstanding' = outstanding /\ outstanding \in Envelope
    BY <1>4 DEF IInv, TypeOK
  <2>2. outstanding.deadline \in Nat /\ FunctionOf[outstanding.req] \in Functions
    BY <2>1, AdmissionAssumption DEF Envelope
  <2>3. /\ NotLaterThanNew(outstanding.deadline, FunctionOf[outstanding.req])
        /\ Before(outstanding.deadline, qs[FunctionOf[outstanding.req]])
    BY <1>4, <2>1 DEF OutstandingFirst
  <2>4. \A limits \in Profiles[FunctionOf[outstanding.req]] :
            outstanding.deadline <= now' + limits.max_queue_delay
    BY <2>2, <2>3, TimePasses DEF IInv
  <2> QED
    BY <2>1, <2>3, <2>4
<1>5. OutstandingFirst(queues)'
  BY <1>4 DEF OutstandingFirst, NotLaterThanNew, Before
<1> QED
  BY <1>3, <1>5 DEF DInv

\* A step that leaves the queues and the timer alone.
LEMMA QuietStep ==
    ASSUME IInv, DInv, RegisteredProfile', UNCHANGED <<queues, next_deadline>>,
           outstanding' \in {outstanding, None}, now' \in {now, now + 1}
    PROVE  DInv'
<1>1. queues \in [Functions -> Seq(Envelope)]
  BY DEF IInv, TypeOK
<1>2. Fine(queues, next_deadline) /\ OutstandingFirst(queues)
  BY DEF DInv
<1> QED
  BY <1>1, <1>2, FineStep

\* Moving the timer to an earlier deadline keeps it timely.
LEMMA UpdateTimer ==
    ASSUME NEW next \in Nat \cup {None}, NEW d \in Nat
    PROVE  /\ update_deadline_timer(next, d) \in Nat
           /\ update_deadline_timer(next, d) <= d
           /\ next \in Nat => update_deadline_timer(next, d) <= next
  BY AdmissionAssumption DEF update_deadline_timer

\* A new request goes behind all others, and moves the timer if it is the first.
LEMMA NewRequestQueuedFine ==
    ASSUME StableDelays, IInv, DInv, NEW r \in Requests, NewRequestQueued(r)
    PROVE  DInv'
<1> DEFINE f == FunctionOf[r]
           c == IngressSweep(f)
           env == [req |-> r, ticket |-> stats.num_received + 1, enqueued_at |-> now,
                   deadline |-> now + registered[f].max_queue_delay]
<1>1. /\ registered[f] # None
      /\ queues' = [c.queues EXCEPT ![f] = Append(@, env)]
      /\ next_deadline' = update_deadline_timer(c.next, env.deadline)
      /\ UNCHANGED <<now, registered, outstanding>>
  BY DEF NewRequestQueued
<1>2. /\ f \in Functions /\ now \in Nat /\ stats.num_received \in Nat
      /\ registered[f] \in Profiles[f] /\ registered[f].max_queue_delay \in Nat
  BY <1>1, AdmissionAssumption DEF IInv, TypeOK, DInv, RegisteredProfile, Limits
<1>3. env \in Envelope /\ env.deadline \in Nat /\ env.deadline = now + registered[f].max_queue_delay
  BY <1>2 DEF Envelope
<1>4. c.queues \in [Functions -> Seq(Envelope)] /\ c.next \in Nat \cup {None}
  BY IInvSound, SweptSound DEF IngressSweep, Due, SoundConfig
<1>5. Fine(c.queues, c.next) /\ OutstandingFirst(c.queues)
  BY SweptFine DEF IngressSweep, Due
<1>6. NotLaterThanNew(env.deadline, f)
  BY <1>2, <1>3 DEF NotLaterThanNew, StableDelays
<1>7. \A i \in 1..Len(c.queues[f]) : c.queues[f][i].deadline <= env.deadline
  BY <1>2, <1>3, <1>5 DEF Fine, Young, NotLaterThanNew
<1> DEFINE q == c.queues[f]
           n == Len(q)
           q2 == Append(q, env)
           qs == [c.queues EXCEPT ![f] = q2]
           next == update_deadline_timer(c.next, env.deadline)
<1>8. q \in Seq(Envelope) /\ n \in Nat
  BY <1>2, <1>4
<1> HIDE DEF env, c, f
<1>9. /\ q2 \in Seq(Envelope) /\ Len(q2) = n + 1 /\ q2[n + 1] = env
      /\ \A i \in 1..n : q2[i] = q[i]
  BY <1>3, <1>8
<1>10. qs \in [Functions -> Seq(Envelope)] /\ qs[f] = q2 /\ \A g \in Functions \ {f} : qs[g] = c.queues[g]
  BY <1>2, <1>4, <1>9
<1>11. /\ next \in Nat /\ next <= env.deadline
       /\ c.next \in Nat => next <= c.next
  BY <1>3, <1>4, UpdateTimer
<1> HIDE DEF q2, n, qs, next
<1>12. \A i \in 1..(n + 1) : i = n + 1 \/ i \in 1..n
  BY <1>8
<1>13. ASSUME NEW i \in 1..Len(q2), NEW j \in 1..Len(q2), i < j
       PROVE  q2[i].deadline <= q2[j].deadline
  <2>1. i \in 1..n
    BY <1>8, <1>9, <1>13
  <2>2. CASE j = n + 1
    BY <1>7, <1>9, <2>1, <2>2 DEF n
  <2>3. CASE j \in 1..n
    <3>1. Sorted(q)
      BY <1>2, <1>5 DEF Fine
    <3> QED
      BY <1>9, <1>13, <2>1, <2>3, <3>1 DEF Sorted, n
  <2> QED
    BY <1>9, <1>12, <2>2, <2>3
<1>14. ASSUME NEW i \in 1..Len(q2) PROVE NotLaterThanNew(q2[i].deadline, f)
  <2>1. Young(q, f)
    BY <1>2, <1>5 DEF Fine
  <2>2. CASE i \in 1..n
    BY <1>9, <2>1, <2>2 DEF Young, n
  <2>3. CASE i = n + 1
    BY <1>6, <1>9, <2>3
  <2> QED
    BY <1>9, <1>12, <2>2, <2>3
<1>15. next <= q2[1].deadline
  <2>1. CASE n = 0
    BY <1>9, <1>11, <2>1
  <2>2. CASE n # 0
    <3>1. 1 \in 1..n /\ q # <<>>
      BY <1>8, <2>2 DEF n
    <3>2. c.next \in Nat /\ c.next <= q[1].deadline
      BY <1>2, <1>5, <3>1 DEF Fine, Timely
    <3>3. q[1].deadline \in Nat
      BY <1>8, <3>1, HeadIsFirst
    <3> QED
      BY <1>9, <1>11, <3>1, <3>2, <3>3
  <2> QED
    BY <2>1, <2>2
<1>16. ASSUME NEW g \in Functions
       PROVE  Sorted(qs[g]) /\ Young(qs[g], g) /\ Timely(next, qs[g])
  <2>1. CASE g = f
    BY <1>10, <1>11, <1>13, <1>14, <1>15, <2>1 DEF Sorted, Young, Timely
  <2>2. CASE g # f
    <3>1. qs[g] = c.queues[g] /\ c.queues[g] \in Seq(Envelope)
      BY <1>4, <1>10, <2>2
    <3>2. Sorted(qs[g]) /\ Young(qs[g], g) /\ Timely(c.next, qs[g])
      BY <1>5, <3>1 DEF Fine
    <3>3. ASSUME qs[g] # <<>> PROVE next \in Nat /\ next <= qs[g][1].deadline
      <4>1. qs[g][1].deadline \in Nat
        BY <3>1, <3>3, HeadIsFirst
      <4>2. c.next \in Nat /\ c.next <= qs[g][1].deadline
        BY <3>2, <3>3 DEF Timely
      <4> QED
        BY <1>11, <4>1, <4>2
    <3> QED
      BY <3>2, <3>3 DEF Timely
  <2> QED
    BY <2>1, <2>2
<1>17. Fine(qs, next)
  BY <1>16 DEF Fine
<1>18. OutstandingFirst(qs)
  <2> SUFFICES ASSUME outstanding # None
               PROVE  Before(outstanding.deadline, qs[FunctionOf[outstanding.req]])
    BY <1>5 DEF OutstandingFirst
  <2>1. outstanding \in Envelope
    BY DEF IInv, TypeOK
  <2>2. outstanding.deadline \in Nat /\ FunctionOf[outstanding.req] \in Functions
    BY <2>1, AdmissionAssumption DEF Envelope
  <2>3. /\ NotLaterThanNew(outstanding.deadline, FunctionOf[outstanding.req])
        /\ Before(outstanding.deadline, c.queues[FunctionOf[outstanding.req]])
    BY <1>5 DEF OutstandingFirst
  <2>4. CASE FunctionOf[outstanding.req] = f
    <3>1. outstanding.deadline <= env.deadline
      BY <1>2, <1>3, <2>3, <2>4 DEF NotLaterThanNew
    <3>2. ASSUME NEW i \in 1..Len(q2) PROVE outstanding.deadline <= q2[i].deadline
      BY <1>9, <1>12, <2>3, <2>4, <3>1 DEF Before, n
    <3> QED
      BY <1>10, <2>4, <3>2 DEF Before
  <2>5. CASE FunctionOf[outstanding.req] # f
    BY <1>10, <2>2, <2>3, <2>5
  <2> QED
    BY <2>4, <2>5
<1>19. queues' = qs /\ next_deadline' = next
  BY <1>1 DEF qs, q2, next
<1>20. RegisteredProfile'
  BY <1>1 DEF DInv, RegisteredProfile
<1> QED
  BY <1>1, <1>10, <1>17, <1>18, <1>19, <1>20, FineStep
\* The sweeps of the deadline timer and of a refused request.
LEMMA SweepStepFine ==
    ASSUME IInv, DInv, DeadlineTimer \/ SlotUnused \/ \E r \in Requests : NewRequestRefused(r)
    PROVE  DInv'
<1>1. PICK due \in BOOLEAN :
          /\ queues' = Swept(due).queues /\ next_deadline' = Swept(due).next
          /\ UNCHANGED <<now, registered, outstanding>>
  <2>1. CASE DeadlineTimer
    <3>1. Swept(TRUE) = expire_queued_requests
      BY DEF Swept
    <3> QED
      BY <2>1, <3>1 DEF DeadlineTimer
  <2>2. CASE SlotUnused
    <3>1. Due \in BOOLEAN
      BY DEF Due
    <3> QED
      BY <2>2, <3>1 DEF SlotUnused, AcquireSlot
  <2>3. ASSUME NEW r \in Requests, NewRequestRefused(r)
        PROVE  \E due \in BOOLEAN :
                   /\ queues' = Swept(due).queues /\ next_deadline' = Swept(due).next
                   /\ UNCHANGED <<now, registered, outstanding>>
    BY <2>3 DEF NewRequestRefused, IngressSweep, Due
  <2> QED
    BY <2>1, <2>2, <2>3
<1>2. Swept(due).queues \in [Functions -> Seq(Envelope)]
  BY IInvSound, SweptSound DEF SoundConfig
<1>3. Fine(Swept(due).queues, Swept(due).next) /\ OutstandingFirst(Swept(due).queues)
  BY SweptFine
<1>4. RegisteredProfile'
  BY <1>1 DEF DInv, RegisteredProfile
<1> QED
  BY <1>1, <1>2, <1>3, <1>4, FineStep

\* What the permit branch finds in the Function that it picks.
LEMMA PickedHead ==
    ASSUME IInv, DInv, NEW f \in Functions, NEW c \in {Swept(Due)}, f \in pick_next_function(c)
    PROVE  /\ c.queues \in [Functions -> Seq(Envelope)] /\ c.next \in Nat
           /\ Fine(c.queues, c.next)
           /\ c.queues[f] # <<>> /\ Head(c.queues[f]) = c.queues[f][1]
           /\ Head(c.queues[f]) \in Envelope /\ Head(c.queues[f]).deadline \in Nat
           /\ FunctionOf[Head(c.queues[f]).req] = f
           /\ c.next <= Head(c.queues[f]).deadline
           /\ now < Head(c.queues[f]).deadline
<1>1. SoundConfig(c)
  BY IInvSound, SweptSound DEF Due
<1>2. c.queues \in [Functions -> Seq(Envelope)] /\ Placed(c.queues)
  BY <1>1 DEF SoundConfig
<1>3. Fine(c.queues, c.next)
  BY SweptFine DEF Due
<1>4. c.queues[f] # <<>>
  BY DEF pick_next_function, is_runnable
<1>5. /\ Head(c.queues[f]) = c.queues[f][1] /\ 1 \in 1..Len(c.queues[f])
      /\ c.queues[f][1] \in Envelope /\ c.queues[f][1].deadline \in Nat
  BY <1>2, <1>4, HeadIsFirst
<1>6. FunctionOf[c.queues[f][1].req] = f
  BY <1>2, <1>5 DEF Placed
<1>7. c.next \in Nat /\ c.next <= c.queues[f][1].deadline
  BY <1>3, <1>4 DEF Fine, Timely
<1>8. now < c.queues[f][1].deadline
  BY <1>4, SweptHeadsAlive
<1> QED
  BY <1>2, <1>3, <1>4, <1>5, <1>6, <1>7, <1>8

\* The rollback after a failed try_send leaves the timer where it was.
LEMMA SlotPoolClosedFine ==
    ASSUME IInv, DInv, NEW f \in Functions, SlotPoolClosed(f)
    PROVE  DInv'
<1>1. PICK c \in {Swept(Due)} :
          /\ f \in pick_next_function(c)
          /\ queues' = c.queues
          /\ next_deadline' = update_deadline_timer(c.next, Head(c.queues[f]).deadline)
          /\ UNCHANGED <<now, registered, outstanding>>
  BY DEF SlotPoolClosed, AcquireSlot
<1>2. /\ c.queues \in [Functions -> Seq(Envelope)] /\ Fine(c.queues, c.next)
      /\ c.next \in Nat /\ Head(c.queues[f]).deadline \in Nat
      /\ c.next <= Head(c.queues[f]).deadline
  BY <1>1, PickedHead
<1>3. next_deadline' = c.next
  BY <1>1, <1>2, AdmissionAssumption DEF update_deadline_timer
<1>4. OutstandingFirst(c.queues)
  BY SweptFine DEF Due
<1>5. RegisteredProfile'
  BY <1>1 DEF DInv, RegisteredProfile
<1> QED
  BY <1>1, <1>2, <1>3, <1>4, <1>5, FineStep

\* The popped head becomes the attempt, ahead of what stays behind it.
LEMMA SlotToDispatchFine ==
    ASSUME IInv, DInv, NEW f \in Functions, SlotToDispatch(f)
    PROVE  DInv' /\ now < outstanding'.deadline
<1>1. PICK c \in {Swept(Due)} :
          /\ f \in pick_next_function(c)
          /\ queues' = [c.queues EXCEPT ![f] = Tail(@)]
          /\ next_deadline' = c.next
          /\ outstanding' = Head(c.queues[f])
          /\ UNCHANGED <<now, registered>>
  BY DEF SlotToDispatch, AcquireSlot
<1> DEFINE q == c.queues[f]
           env == Head(q)
           t == Tail(q)
           qs == [c.queues EXCEPT ![f] = t]
<1>2. /\ c.queues \in [Functions -> Seq(Envelope)] /\ c.next \in Nat
      /\ Fine(c.queues, c.next)
      /\ q # <<>> /\ env = q[1] /\ env \in Envelope /\ env.deadline \in Nat
      /\ FunctionOf[env.req] = f
      /\ c.next <= env.deadline /\ now < env.deadline
  BY <1>1, PickedHead
<1>3. /\ q \in Seq(Envelope) /\ Len(q) \in Nat /\ 1 \in 0..Len(q)
      /\ t \in Seq(Envelope) /\ Len(t) = Len(q) - 1
      /\ \A i \in 1..Len(t) : t[i] = q[1 + i]
  BY <1>2
<1>4. Sorted(q) /\ Young(q, f) /\ Timely(c.next, q)
  BY <1>2 DEF Fine
<1>5. qs \in [Functions -> Seq(Envelope)] /\ qs[f] = t /\ \A g \in Functions \ {f} : qs[g] = c.queues[g]
  BY <1>2, <1>3
<1> HIDE DEF t, qs
<1>6. Sorted(t) /\ Young(t, f)
  BY <1>3, <1>4, SuffixFine
<1>7. Before(env.deadline, t)
  <2>1. ASSUME NEW i \in 1..Len(t) PROVE env.deadline <= t[i].deadline
    <3>1. 1 + i \in 1..Len(q) /\ 1 \in 1..Len(q) /\ 1 < 1 + i
      BY <1>3
    <3> QED
      BY <1>2, <1>3, <1>4, <3>1 DEF Sorted
  <2> QED
    BY <2>1 DEF Before
<1>8. ASSUME t # <<>> PROVE c.next <= t[1].deadline
  <2>1. 1 \in 1..Len(t) /\ t[1].deadline \in Nat
    BY <1>3, <1>8, HeadIsFirst
  <2>2. env.deadline <= t[1].deadline
    BY <1>7, <2>1 DEF Before
  <2> QED
    BY <1>2, <2>1, <2>2
<1>9. ASSUME NEW g \in Functions
      PROVE  Sorted(qs[g]) /\ Young(qs[g], g) /\ Timely(c.next, qs[g])
  <2>1. CASE g = f
    BY <1>2, <1>5, <1>6, <1>8, <2>1 DEF Timely
  <2>2. CASE g # f
    BY <1>2, <1>5, <2>2 DEF Fine
  <2> QED
    BY <2>1, <2>2
<1>10. NotLaterThanNew(env.deadline, f)
  <2>1. 1 \in 1..Len(q)
    BY <1>2, <1>3
  <2> QED
    BY <1>2, <1>4, <2>1 DEF Young
<1>11. queues' = qs
  BY <1>1 DEF qs, t
<1>12. Fine(queues, next_deadline)'
  BY <1>1, <1>9, <1>11 DEF Fine, Sorted, Young, Timely, NotLaterThanNew
<1>13. OutstandingFirst(queues)'
  BY <1>1, <1>2, <1>5, <1>7, <1>10, <1>11 DEF OutstandingFirst, NotLaterThanNew, Before
<1>14. RegisteredProfile'
  BY <1>1 DEF DInv, RegisteredProfile
<1> QED
  BY <1>1, <1>2, <1>12, <1>13, <1>14 DEF DInv

\* The request of a WouldBlock goes back in front of its queue.
LEMMA ReplyWouldBlockFine ==
    ASSUME IInv, DInv, ReplyWouldBlock
    PROVE  DInv'
<1> DEFINE f == FunctionOf[outstanding.req]
           env == outstanding
           q == queues[f]
           n == Len(q)
           q2 == push_front(q, env)
           qs == [queues EXCEPT ![f] = q2]
           next == update_deadline_timer(next_deadline, env.deadline)
<1>1. /\ env # None /\ outstanding' = None
      /\ queues' = qs /\ next_deadline' = next
      /\ UNCHANGED <<now, registered>>
  BY DEF ReplyWouldBlock, TakeReply
<1>2. env \in Envelope /\ queues \in [Functions -> Seq(Envelope)] /\ next_deadline \in Nat \cup {None}
  BY <1>1 DEF IInv, TypeOK
<1>3. env.deadline \in Nat /\ f \in Functions
  BY <1>2, AdmissionAssumption DEF Envelope
<1>4. /\ Sorted(q) /\ Young(q, f) /\ Timely(next_deadline, q)
      /\ NotLaterThanNew(env.deadline, f) /\ Before(env.deadline, q)
  BY <1>1, <1>3 DEF DInv, Fine, OutstandingFirst
<1>5. q \in Seq(Envelope) /\ n \in Nat
  BY <1>2, <1>3
<1>6. /\ q2 \in Seq(Envelope) /\ Len(q2) = n + 1 /\ q2[1] = env
      /\ \A i \in 2..(n + 1) : q2[i] = q[i - 1]
  BY <1>2, <1>5 DEF push_front
<1>7. qs \in [Functions -> Seq(Envelope)] /\ qs[f] = q2 /\ \A g \in Functions \ {f} : qs[g] = queues[g]
  BY <1>2, <1>3, <1>6
<1>8. next \in Nat /\ next <= env.deadline /\ (next_deadline \in Nat => next <= next_deadline)
  BY <1>2, <1>3, UpdateTimer
<1> HIDE DEF f, env, q2, n, qs, next
<1>9. \A i \in 1..(n + 1) : i = 1 \/ (i - 1 \in 1..n /\ q2[i] = q[i - 1])
  BY <1>5, <1>6
<1>10. ASSUME NEW i \in 1..Len(q2), NEW j \in 1..Len(q2), i < j
       PROVE  q2[i].deadline <= q2[j].deadline
  <2>1. j - 1 \in 1..n /\ q2[j] = q[j - 1]
    BY <1>5, <1>6, <1>9, <1>10
  <2>2. CASE i = 1
    BY <1>4, <1>6, <2>1, <2>2 DEF Before, n
  <2>3. CASE i - 1 \in 1..n /\ q2[i] = q[i - 1]
    <3>1. i - 1 < j - 1
      BY <1>10
    <3> QED
      BY <1>4, <2>1, <2>3, <3>1 DEF Sorted, n
  <2> QED
    BY <1>6, <1>9, <2>2, <2>3
<1>11. ASSUME NEW i \in 1..Len(q2) PROVE NotLaterThanNew(q2[i].deadline, f)
  BY <1>4, <1>6, <1>9 DEF Young, n
<1>12. ASSUME NEW g \in Functions
       PROVE  Sorted(qs[g]) /\ Young(qs[g], g) /\ Timely(next, qs[g])
  <2>1. CASE g = f
    BY <1>6, <1>7, <1>8, <1>10, <1>11, <2>1 DEF Sorted, Young, Timely
  <2>2. CASE g # f
    <3>1. qs[g] = queues[g] /\ queues[g] \in Seq(Envelope)
      BY <1>2, <1>7, <2>2
    <3>2. Sorted(qs[g]) /\ Young(qs[g], g) /\ Timely(next_deadline, qs[g])
      BY <3>1 DEF DInv, Fine
    <3>3. ASSUME qs[g] # <<>> PROVE next \in Nat /\ next <= qs[g][1].deadline
      <4>1. qs[g][1].deadline \in Nat
        BY <3>1, <3>3, HeadIsFirst
      <4>2. next_deadline \in Nat /\ next_deadline <= qs[g][1].deadline
        BY <3>2, <3>3 DEF Timely
      <4> QED
        BY <1>8, <4>1, <4>2
    <3> QED
      BY <3>2, <3>3 DEF Timely
  <2> QED
    BY <2>1, <2>2
<1>13. Fine(queues, next_deadline)'
  BY <1>1, <1>12 DEF Fine, Sorted, Young, Timely, NotLaterThanNew
<1>14. OutstandingFirst(queues)'
  BY <1>1 DEF OutstandingFirst
<1>15. RegisteredProfile'
  BY <1>1 DEF DInv, RegisteredProfile
<1> QED
  BY <1>13, <1>14, <1>15 DEF DInv
\* Every step keeps the invariant, and starts an attempt only before its deadline.
LEMMA NextFine ==
    ASSUME StableDelays, IInv, DInv, [Next]_vars
    PROVE  /\ DInv'
           /\ outstanding' # None /\ outstanding' # outstanding => now < outstanding'.deadline
<1> DEFINE Goal == /\ DInv'
                   /\ outstanding' # None /\ outstanding' # outstanding => now < outstanding'.deadline
<1> SUFFICES Goal
  BY SMTT(40)
<1> HIDE DEF Goal
<1>1. ASSUME NEW r \in Requests, NewRequestQueued(r) PROVE Goal
  BY <1>1, NewRequestQueuedFine DEF NewRequestQueued, Goal
<1>2. ASSUME DeadlineTimer \/ SlotUnused \/ \E r \in Requests : NewRequestRefused(r) PROVE Goal
  <2>1. outstanding' = outstanding
    BY <1>2 DEF DeadlineTimer, SlotUnused, NewRequestRefused
  <2> QED
    BY SMTT(40), <1>2, <2>1, SweepStepFine DEF Goal
<1>3. ASSUME NEW f \in Functions, SlotPoolClosed(f) PROVE Goal
  BY <1>3, SlotPoolClosedFine DEF SlotPoolClosed, Goal
<1>4. ASSUME NEW f \in Functions, SlotToDispatch(f) PROVE Goal
  BY <1>4, SlotToDispatchFine DEF Goal
<1>5. CASE ReplyWouldBlock
  BY <1>5, ReplyWouldBlockFine DEF ReplyWouldBlock, TakeReply, Goal
<1>6. ASSUME UNCHANGED <<queues, next_deadline>>, outstanding' \in {outstanding, None},
             now' \in {now, now + 1}, RegisteredProfile'
      PROVE  Goal
  BY <1>6, QuietStep DEF Goal
<1>7. ASSUME UNCHANGED <<queues, next_deadline, now, registered>>,
             outstanding' \in {outstanding, None}
      PROVE  Goal
  <2>1. RegisteredProfile'
    BY <1>7 DEF DInv, RegisteredProfile
  <2> QED
    BY <1>6, <1>7, <2>1
<1>8. ASSUME NEW r \in Requests, NewRequestUnknown(r) PROVE Goal
  BY <1>7, <1>8 DEF NewRequestUnknown
<1>9. ASSUME NEW f \in Functions, WorkerIdleEvent(f) \/ WorkerCapAvailableEvent(f) PROVE Goal
  BY <1>7, <1>9 DEF WorkerIdleEvent, WorkerCapAvailableEvent, Unblock
<1>10. CASE MemoryCapAvailableEvent \/ LivenessTimer
  BY <1>7, <1>10 DEF MemoryCapAvailableEvent, LivenessTimer, Unblock
<1>11. CASE ReplyDispatch \/ ReplyForwardFailed \/ ReplyReject \/ ReplyClosed
  BY <1>7, <1>11 DEF ReplyDispatch, ReplyForwardFailed, ReplyReject, ReplyClosed, TakeReply
<1>12. CASE Quit \/ UNCHANGED vars
  BY <1>7, <1>12 DEF Quit, vars
<1>13. CASE EnvironmentStep
  <2>1. ASSUME \/ \E resp \in Replies \ {"Closed"} : PoolReply(resp)
               \/ \E resp \in {"Reject", "Closed"} : PoolExit(resp)
               \/ \E r \in Requests : WorkerDone(r)
        PROVE  Goal
    BY <1>7, <2>1 DEF PoolReply, PoolExit, WorkerDone, controller
  <2>2. ASSUME NEW f \in Functions, Deregister(f) PROVE Goal
    <3>1. RegisteredProfile'
      BY <2>2 DEF Deregister, DInv, RegisteredProfile, IInv, TypeOK
    <3> QED
      BY <1>6, <2>2, <3>1 DEF Deregister, controller
  <2>3. ASSUME NEW f \in Functions, NEW limits \in Profiles[f], Register(f, limits) PROVE Goal
    <3>1. RegisteredProfile'
      BY <2>3 DEF Register, DInv, RegisteredProfile, IInv, TypeOK
    <3> QED
      BY <1>6, <2>3, <3>1 DEF Register, controller
  <2>4. CASE Tick
    <3>1. RegisteredProfile'
      BY <2>4 DEF Tick, DInv, RegisteredProfile
    <3> QED
      BY <1>6, <2>4, <3>1 DEF Tick, controller
  <2> QED
    BY <1>13, <2>1, <2>2, <2>3, <2>4 DEF EnvironmentStep
<1>14. CASE ControllerStep
  BY <1>1, <1>2, <1>3, <1>4, <1>5, <1>8, <1>9, <1>10, <1>11, <1>12, <1>14 DEF ControllerStep
<1> QED
  BY <1>12, <1>13, <1>14 DEF Next, Exited

-----------------------------------------------------------------------------
(***************************************************************************)
(* The theorems                                                            *)
(***************************************************************************)

\* With stable delays, deadlines within a queue are in enqueue order, as the
\* comment on expire_queued_requests has it, and the deadline timer is never late.
THEOREM DeadlinesCorrect ==
    ASSUME StableDelays
    PROVE  Spec => [](DeadlinesOrdered /\ TimerNotLate)
<1>1. Init => IInv /\ DInv
  BY InitIInv, InitDInv
<1>2. IInv /\ DInv /\ [Next]_vars => IInv' /\ DInv'
  BY NextKeeps, NextFine
<1>3. IInv /\ DInv => DeadlinesOrdered /\ TimerNotLate
  <2> SUFFICES ASSUME IInv, DInv PROVE DeadlinesOrdered /\ TimerNotLate
    OBVIOUS
  <2>1. DeadlinesOrdered
    BY DEF DeadlinesOrdered, DInv, Fine, Sorted
  <2>2. ASSUME NEW f \in Functions, queues[f] # <<>>
        PROVE  next_deadline # None /\ next_deadline <= Head(queues[f]).deadline
    <3>1. queues[f] \in Seq(Envelope)
      BY DEF IInv, TypeOK
    <3> QED
      BY <2>2, <3>1, HeadIsFirst, AdmissionAssumption DEF DInv, Fine, Timely
  <2> QED
    BY <2>1, <2>2 DEF TimerNotLate
<1> QED
  BY <1>1, <1>2, <1>3, PTL DEF Spec

\* With stable delays, handle_acquired_slot never hands a request to the Pool at
\* or after its deadline, also when it wins the select! over a due timer.
THEOREM NoExpiredDispatch ==
    ASSUME StableDelays
    PROVE  Spec => NoExpiredAttempt
<1>1. Init => IInv /\ DInv
  BY InitIInv, InitDInv
<1>2. IInv /\ DInv /\ [Next]_vars => IInv' /\ DInv'
  BY NextKeeps, NextFine
<1>3. IInv /\ DInv /\ [Next]_vars =>
          [outstanding' # None /\ outstanding' # outstanding => now < outstanding'.deadline]_vars
  BY NextFine
<1> QED
  BY <1>1, <1>2, <1>3, PTL DEF Spec, NoExpiredAttempt
=============================================================================
