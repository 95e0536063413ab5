---------------------------- MODULE ServerProofs ----------------------------
(***************************************************************************)
(* Proofs about Server, for every finite set of connections, every choice   *)
(* of the routes that are called, every concurrency limit and every number  *)
(* of targets.                                                             *)
(***************************************************************************)
EXTENDS Server, SequenceTheorems, FiniteSetTheorems, TLAPS

Stages == {"closed", "open", "queued", "reading", "handling", "streaming"}

ServerTypes ==
    /\ stage \in [Conns -> Stages]
    /\ route \in [Conns -> Routes \cup {NoRoute}]
    /\ answer \in [Conns -> {"none", "pending", "ready", "unavailable"}]
    /\ permits \in [Api -> Nat]
    /\ waiting \in [Api -> Seq(Conns)]
    /\ up \in [Targets -> BOOLEAN]
    /\ at \in [Conns -> Targets]
    /\ was_up \in [Conns -> SUBSET Targets]

QueuedOf(r) == {c \in Conns : route[c] = r /\ stage[c] = "queued"}

\* What a limiter keeps true of its holders, its queued users, its permits and
\* its queue: no permit is lost or made up, the queue has every queued user once,
\* and nobody queues while there is a permit.
IsLimited(holders, queued, free, queue) ==
    /\ holders \subseteq Conns
    /\ holders \cap queued = {}
    /\ queue \in Seq(Conns)
    /\ \A i, j \in 1 .. Len(queue) : queue[i] = queue[j] => i = j
    /\ queued = {queue[i] : i \in 1 .. Len(queue)}
    /\ free \in Nat
    /\ free + Cardinality(holders) = MaxConcurrency
    /\ queue # <<>> => free = 0

-----------------------------------------------------------------------------
(* The queue.                                                              *)

\* RemoveAt closes the gap it makes.
LEMMA RemoveAtProperties ==
    ASSUME NEW S, NEW s \in Seq(S), NEW k \in 1 .. Len(s)
    PROVE  /\ RemoveAt(s, k) \in Seq(S)
           /\ Len(RemoveAt(s, k)) = Len(s) - 1
           /\ \A i \in 1 .. Len(s) - 1 :
                 RemoveAt(s, k)[i] = IF i < k THEN s[i] ELSE s[i + 1]
<1> DEFINE a == SubSeq(s, 1, k - 1)
           b == SubSeq(s, k + 1, Len(s))
<1>1. Len(s) \in Nat /\ k \in Nat /\ \A i \in 1 .. Len(s) : s[i] \in S
  BY LenProperties, ElementOfSeq
<1>2. /\ a \in Seq(S) /\ Len(a) = k - 1
      /\ \A i \in 1 .. k - 1 : a[i] = s[i]
  <2>1. \A i \in 1 .. k - 1 : s[i] \in S
    BY <1>1
  <2>2. /\ a \in Seq(S) /\ Len(a) = IF 1 <= k - 1 THEN k - 1 - 1 + 1 ELSE 0
        /\ \A i \in 1 .. k - 1 - 1 + 1 : a[i] = s[1 + i - 1]
    BY <1>1, <2>1, SubSeqProperties
  <2> HIDE DEF a
  <2> QED BY <1>1, <2>2
<1>3. /\ b \in Seq(S) /\ Len(b) = Len(s) - k
      /\ \A i \in 1 .. Len(s) - k : b[i] = s[k + i]
  <2>1. \A i \in k + 1 .. Len(s) : s[i] \in S
    BY <1>1
  <2>2. /\ b \in Seq(S) /\ Len(b) = IF k + 1 <= Len(s) THEN Len(s) - (k + 1) + 1 ELSE 0
        /\ \A i \in 1 .. Len(s) - (k + 1) + 1 : b[i] = s[k + 1 + i - 1]
    BY <1>1, <2>1, SubSeqProperties
  <2> HIDE DEF b
  <2>3. \A i \in 1 .. Len(s) - k : k + 1 + i - 1 = k + i
    BY <1>1
  <2> QED BY <1>1, <2>2, <2>3
<1> HIDE DEF a, b
<1>4. /\ a \o b \in Seq(S)
      /\ Len(a \o b) = Len(a) + Len(b)
      /\ \A i \in 1 .. Len(a) + Len(b) :
            (a \o b)[i] = IF i <= Len(a) THEN a[i] ELSE b[i - Len(a)]
  BY <1>2, <1>3, ConcatProperties
<1>5. RemoveAt(s, k) = a \o b
  BY DEF RemoveAt, a, b
<1>6. Len(a) + Len(b) = Len(s) - 1
  BY <1>1, <1>2, <1>3
<1>7. ASSUME NEW i \in 1 .. Len(s) - 1
      PROVE  (a \o b)[i] = IF i < k THEN s[i] ELSE s[i + 1]
  <2>1. CASE i < k
    <3>1. i \in 1 .. k - 1 /\ i \in 1 .. Len(a) + Len(b) /\ i <= Len(a)
      BY <1>1, <1>2, <1>6, <2>1
    <3> QED BY <1>2, <1>4, <2>1, <3>1
  <2>2. CASE ~(i < k)
    <3>1. /\ i \in 1 .. Len(a) + Len(b) /\ ~(i <= Len(a))
          /\ i - Len(a) \in 1 .. Len(s) - k /\ k + (i - Len(a)) = i + 1
      BY <1>1, <1>2, <1>6, <2>2
    <3>2. (a \o b)[i] = b[i - Len(a)]
      BY <1>4, <3>1
    <3>3. b[i - Len(a)] = s[k + (i - Len(a))]
      BY <1>3, <3>1
    <3> QED BY <2>2, <3>1, <3>2, <3>3
  <2> QED BY <2>1, <2>2
<1> QED BY <1>4, <1>5, <1>6, <1>7

\* There is room: a user that was outside gets in.
LEMMA LimiterEnters ==
    ASSUME NEW H, NEW Q, NEW p, NEW w, IsLimited(H, Q, p, w), p > 0,
           NEW u \in Conns \ (H \cup Q)
    PROVE  /\ IsLimited(H \cup {u}, Q, p - 1, w)
           /\ Cardinality(H) < MaxConcurrency
           /\ w = <<>>
<1>1. IsFiniteSet(H) /\ H \subseteq Conns
  BY ServerAssumption, FS_Subset DEF IsLimited
<1>2. Cardinality(H \cup {u}) = Cardinality(H) + 1 /\ Cardinality(H) \in Nat
  BY <1>1, FS_AddElement, FS_CardinalityType
<1>3. w = <<>> /\ p \in Nat /\ p + Cardinality(H) = MaxConcurrency
  BY DEF IsLimited
<1>4. p - 1 \in Nat /\ p - 1 + Cardinality(H \cup {u}) = MaxConcurrency
      /\ Cardinality(H) < MaxConcurrency
  BY <1>2, <1>3
<1> QED BY <1>3, <1>4 DEF IsLimited

\* There is none: a user goes to the end of the queue.
LEMMA LimiterQueues ==
    ASSUME NEW H, NEW Q, NEW p, NEW w, IsLimited(H, Q, p, w), ~(p > 0),
           NEW u \in Conns \ (H \cup Q)
    PROVE  /\ IsLimited(H, Q \cup {u}, p, Append(w, u))
           /\ Cardinality(H) = MaxConcurrency
<1>0. IsFiniteSet(H)
  BY ServerAssumption, FS_Subset DEF IsLimited
<1>1. /\ w \in Seq(Conns) /\ Len(w) \in Nat /\ p = 0
      /\ Cardinality(H) \in Nat /\ p + Cardinality(H) = MaxConcurrency
      /\ \A i, j \in 1 .. Len(w) : w[i] = w[j] => i = j
      /\ Q = {w[i] : i \in 1 .. Len(w)}
  BY <1>0, LenProperties, FS_CardinalityType DEF IsLimited
<1> DEFINE v == Append(w, u)
<1>2. /\ v \in Seq(Conns) /\ Len(v) = Len(w) + 1
      /\ \A i \in 1 .. Len(w) : v[i] = w[i]
      /\ v[Len(w) + 1] = u
  BY <1>1, AppendProperties
<1> HIDE DEF v
<1>3. \A i \in 1 .. Len(w) : w[i] # u
  BY <1>1
<1>4. \A i \in 1 .. Len(v) : i \in 1 .. Len(w) \/ i = Len(w) + 1
  BY <1>1, <1>2
<1>5. \A i, j \in 1 .. Len(v) : v[i] = v[j] => i = j
  BY <1>1, <1>2, <1>3, <1>4
<1>6. Q \cup {u} = {v[i] : i \in 1 .. Len(v)}
  <2>1. \A i \in 1 .. Len(w) : i \in 1 .. Len(v)
    BY <1>1, <1>2
  <2>2. Len(w) + 1 \in 1 .. Len(v)
    BY <1>1, <1>2
  <2> QED BY <1>1, <1>2, <1>4, <2>1, <2>2
<1>7. IsLimited(H, Q \cup {u}, p, v)
  BY <1>1, <1>2, <1>5, <1>6 DEF IsLimited
<1> QED BY <1>1, <1>7 DEF v

\* A user gives up its place.
LEMMA LimiterGivesUp ==
    ASSUME NEW H, NEW Q, NEW p, NEW w, IsLimited(H, Q, p, w), NEW k \in 1 .. Len(w)
    PROVE  IsLimited(H, Q \ {w[k]}, p, RemoveAt(w, k))
<1>1. /\ w \in Seq(Conns) /\ Len(w) \in Nat /\ p \in Nat
      /\ \A i, j \in 1 .. Len(w) : w[i] = w[j] => i = j
      /\ Q = {w[i] : i \in 1 .. Len(w)}
      /\ w # <<>> => p = 0
  BY LenProperties DEF IsLimited
<1>2. w # <<>>
  BY <1>1
<1> DEFINE v == RemoveAt(w, k)
<1>3. /\ v \in Seq(Conns) /\ Len(v) = Len(w) - 1
      /\ \A i \in 1 .. Len(v) : v[i] = IF i < k THEN w[i] ELSE w[i + 1]
  BY <1>1, RemoveAtProperties
<1> HIDE DEF v
<1> DEFINE old(i) == IF i < k THEN i ELSE i + 1
<1>4. \A i \in 1 .. Len(v) : /\ old(i) \in 1 .. Len(w) /\ old(i) # k
                             /\ v[i] = w[old(i)]
  BY <1>1, <1>3
<1>5. \A i, j \in 1 .. Len(v) : old(i) = old(j) => i = j
  BY <1>1, <1>3
<1>6. \A j \in 1 .. Len(w) : j # k => \E i \in 1 .. Len(v) : old(i) = j
  <2> SUFFICES ASSUME NEW j \in 1 .. Len(w), j # k
               PROVE  \E i \in 1 .. Len(v) : old(i) = j
    OBVIOUS
  <2>1. CASE j < k
    <3>1. j \in 1 .. Len(v) /\ old(j) = j
      BY <1>1, <1>3, <2>1
    <3> QED BY <3>1
  <2>2. CASE ~(j < k)
    <3>1. j - 1 \in 1 .. Len(v) /\ old(j - 1) = j
      BY <1>1, <1>3, <2>2
    <3> QED BY <3>1
  <2> QED BY <2>1, <2>2
<1> HIDE DEF old
<1>7. \A i, j \in 1 .. Len(v) : v[i] = v[j] => i = j
  BY <1>1, <1>4, <1>5
<1>8. Q \ {w[k]} = {v[i] : i \in 1 .. Len(v)}
  <2>1. ASSUME NEW i \in 1 .. Len(v) PROVE v[i] \in Q \ {w[k]}
    BY <1>1, <1>4
  <2>2. ASSUME NEW c \in Q \ {w[k]} PROVE \E i \in 1 .. Len(v) : v[i] = c
    <3>1. PICK j \in 1 .. Len(w) : w[j] = c
      BY <1>1
    <3>2. PICK i \in 1 .. Len(v) : old(i) = j
      BY <1>6, <3>1
    <3> QED BY <1>4, <3>1, <3>2
  <2> QED BY <2>1, <2>2
<1>9. IsLimited(H, Q \ {w[k]}, p, v)
  BY <1>1, <1>2, <1>3, <1>7, <1>8 DEF IsLimited
<1> QED BY <1>9 DEF v

\* The permit of a user goes to the head of the queue.
LEMMA LimiterPasses ==
    ASSUME NEW H, NEW Q, NEW p, NEW w, IsLimited(H, Q, p, w), w # <<>>, NEW u \in H
    PROVE  /\ IsLimited((H \ {u}) \cup {Head(w)}, Q \ {Head(w)}, p, Tail(w))
           /\ Head(w) \in Q
<1>1. /\ w \in Seq(Conns) /\ Len(w) \in Nat \ {0} /\ p = 0
      /\ \A i, j \in 1 .. Len(w) : w[i] = w[j] => i = j
      /\ Q = {w[i] : i \in 1 .. Len(w)}
      /\ H \cap Q = {} /\ H \subseteq Conns
  BY LenProperties, EmptySeq DEF IsLimited
<1> DEFINE q == Head(w)
           v == Tail(w)
<1>2. /\ v \in Seq(Conns) /\ Len(v) = Len(w) - 1
      /\ \A i \in 1 .. Len(v) : v[i] = w[i + 1]
  BY <1>1, HeadTailProperties
<1>3. q = w[1]
  BY <1>1
<1> HIDE DEF q, v
<1>4. 1 \in 1 .. Len(w) /\ q \in Q /\ q \in Conns
  <2>1. 1 \in 1 .. Len(w)
    BY <1>1
  <2> QED BY <1>1, <1>3, <2>1, ElementOfSeq
<1>5. \A i \in 1 .. Len(v) : i + 1 \in 1 .. Len(w) /\ i + 1 # 1
  BY <1>1, <1>2
<1>6. \A i, j \in 1 .. Len(v) : i + 1 = j + 1 => i = j
  BY <1>1, <1>2
<1>7. \A i, j \in 1 .. Len(v) : v[i] = v[j] => i = j
  BY <1>1, <1>2, <1>5, <1>6
<1>8. Q \ {q} = {v[i] : i \in 1 .. Len(v)}
  <2>1. ASSUME NEW i \in 1 .. Len(v) PROVE v[i] \in Q \ {q}
    BY <1>1, <1>2, <1>3, <1>4, <1>5
  <2>2. ASSUME NEW c \in Q \ {q} PROVE \E i \in 1 .. Len(v) : v[i] = c
    <3>1. PICK j \in 1 .. Len(w) : w[j] = c
      BY <1>1
    <3>2. j # 1
      BY <1>3, <3>1
    <3>3. j - 1 \in 1 .. Len(v) /\ (j - 1) + 1 = j
      BY <1>1, <1>2, <3>2
    <3> QED BY <1>2, <3>1, <3>3
  <2> QED BY <2>1, <2>2
<1>9. Cardinality((H \ {u}) \cup {q}) = Cardinality(H)
  <2>1. IsFiniteSet(H)
    BY <1>1, ServerAssumption, FS_Subset
  <2>2. /\ IsFiniteSet(H \ {u}) /\ Cardinality(H \ {u}) = Cardinality(H) - 1
        /\ Cardinality(H) \in Nat
    BY <2>1, FS_RemoveElement, FS_CardinalityType
  <2>3. q \notin H \ {u}
    BY <1>1, <1>4
  <2>4. Cardinality((H \ {u}) \cup {q}) = Cardinality(H \ {u}) + 1
    BY <2>2, <2>3, FS_AddElement
  <2> QED BY <2>2, <2>4
<1>10. /\ (H \ {u}) \cup {q} \subseteq Conns
       /\ ((H \ {u}) \cup {q}) \cap (Q \ {q}) = {}
  BY <1>1, <1>4
<1>11. p \in Nat /\ p + Cardinality((H \ {u}) \cup {q}) = MaxConcurrency
  BY <1>9 DEF IsLimited
<1>12. IsLimited((H \ {u}) \cup {q}, Q \ {q}, p, v)
  BY <1>1, <1>2, <1>7, <1>8, <1>10, <1>11 DEF IsLimited
<1> QED BY <1>4, <1>12 DEF q, v

\* Or comes free, when there is no queue.
LEMMA LimiterFrees ==
    ASSUME NEW H, NEW Q, NEW p, NEW w, IsLimited(H, Q, p, w), w = <<>>, NEW u \in H
    PROVE  IsLimited(H \ {u}, Q, p + 1, w)
<1>1. IsFiniteSet(H)
  BY ServerAssumption, FS_Subset DEF IsLimited
<1>2. Cardinality(H \ {u}) = Cardinality(H) - 1 /\ Cardinality(H) \in Nat
  BY <1>1, FS_RemoveElement, FS_CardinalityType
<1>3. p \in Nat /\ p + Cardinality(H) = MaxConcurrency
  BY DEF IsLimited
<1>4. p + 1 \in Nat /\ p + 1 + Cardinality(H \ {u}) = MaxConcurrency
  BY <1>2, <1>3
<1> QED BY <1>4 DEF IsLimited

-----------------------------------------------------------------------------
(* The limits of the routes.                                               *)

\* The records of a connection agree: it has a request, with a route, while it
\* is neither open nor closed, only API requests queue, only those with a body
\* read one, and only event streams last.
RequestsAgree ==
    \A c \in Conns :
        /\ answer[c] = "pending" <=> stage[c] \notin {"closed", "open"}
        /\ route[c] = NoRoute <=> stage[c] \in {"closed", "open"}
        /\ stage[c] = "queued" => route[c] \in Api
        /\ stage[c] = "reading" =>
              route[c] \in {"command", "pipeline", "multi_exec", "subscribe"}
        /\ stage[c] = "streaming" => route[c] = "subscribe"

Limited(l) == IsLimited(HoldersOf(l), QueuedOf(l), permits[l], waiting[l])

RouteStays(l) ==
    /\ HoldersOf(l)' = HoldersOf(l) /\ QueuedOf(l)' = QueuedOf(l)
    /\ permits'[l] = permits[l] /\ waiting'[l] = waiting[l]

RouteEnter(l, u) ==
    /\ u \notin HoldersOf(l) \cup QueuedOf(l) /\ permits[l] > 0
    /\ HoldersOf(l)' = HoldersOf(l) \cup {u} /\ QueuedOf(l)' = QueuedOf(l)
    /\ permits'[l] = permits[l] - 1 /\ waiting'[l] = waiting[l]

RouteQueue(l, u) ==
    /\ u \notin HoldersOf(l) \cup QueuedOf(l) /\ ~(permits[l] > 0)
    /\ HoldersOf(l)' = HoldersOf(l) /\ QueuedOf(l)' = QueuedOf(l) \cup {u}
    /\ permits'[l] = permits[l] /\ waiting'[l] = Append(waiting[l], u)

RouteGiveUp(l, u) ==
    \E k \in 1 .. Len(waiting[l]) :
        /\ waiting[l][k] = u
        /\ HoldersOf(l)' = HoldersOf(l) /\ QueuedOf(l)' = QueuedOf(l) \ {u}
        /\ permits'[l] = permits[l] /\ waiting'[l] = RemoveAt(waiting[l], k)

RoutePass(l, u) ==
    /\ u \in HoldersOf(l) /\ waiting[l] # <<>>
    /\ HoldersOf(l)' = (HoldersOf(l) \ {u}) \cup {Head(waiting[l])}
    /\ QueuedOf(l)' = QueuedOf(l) \ {Head(waiting[l])}
    /\ permits'[l] = permits[l] /\ waiting'[l] = Tail(waiting[l])

RouteFree(l, u) ==
    /\ u \in HoldersOf(l) /\ waiting[l] = <<>>
    /\ HoldersOf(l)' = HoldersOf(l) \ {u} /\ QueuedOf(l)' = QueuedOf(l)
    /\ permits'[l] = permits[l] + 1 /\ waiting'[l] = waiting[l]

\* What a step of the server may do to the limit of a route.
RouteStep(l) ==
    \/ RouteStays(l)
    \/ \E u \in Conns : \/ RouteEnter(l, u) \/ RouteQueue(l, u) \/ RouteGiveUp(l, u)
                        \/ RoutePass(l, u) \/ RouteFree(l, u)

\* It keeps the limit.
LEMMA RouteStepKeeps ==
    ASSUME NEW l \in Api, Limited(l), RouteStep(l)
    PROVE  Limited(l)'
<1>1. CASE RouteStays(l)
  BY <1>1 DEF RouteStays, Limited
<1>2. ASSUME NEW u \in Conns, RouteEnter(l, u) PROVE Limited(l)'
  <2>1. IsLimited(HoldersOf(l) \cup {u}, QueuedOf(l), permits[l] - 1, waiting[l])
    BY <1>2, LimiterEnters DEF Limited, RouteEnter
  <2> QED BY <1>2, <2>1 DEF Limited, RouteEnter
<1>3. ASSUME NEW u \in Conns, RouteQueue(l, u) PROVE Limited(l)'
  <2>1. IsLimited(HoldersOf(l), QueuedOf(l) \cup {u}, permits[l], Append(waiting[l], u))
    BY <1>3, LimiterQueues DEF Limited, RouteQueue
  <2> QED BY <1>3, <2>1 DEF Limited, RouteQueue
<1>4. ASSUME NEW u \in Conns, RouteGiveUp(l, u) PROVE Limited(l)'
  <2>1. PICK k \in 1 .. Len(waiting[l]) :
          /\ waiting[l][k] = u
          /\ HoldersOf(l)' = HoldersOf(l) /\ QueuedOf(l)' = QueuedOf(l) \ {u}
          /\ permits'[l] = permits[l] /\ waiting'[l] = RemoveAt(waiting[l], k)
    BY <1>4 DEF RouteGiveUp
  <2>2. IsLimited(HoldersOf(l), QueuedOf(l) \ {waiting[l][k]}, permits[l],
                  RemoveAt(waiting[l], k))
    BY LimiterGivesUp DEF Limited
  <2> QED BY <2>1, <2>2 DEF Limited
<1>5. ASSUME NEW u \in Conns, RoutePass(l, u) PROVE Limited(l)'
  <2>1. IsLimited((HoldersOf(l) \ {u}) \cup {Head(waiting[l])},
                  QueuedOf(l) \ {Head(waiting[l])}, permits[l], Tail(waiting[l]))
    BY <1>5, LimiterPasses DEF Limited, RoutePass
  <2> QED BY <1>5, <2>1 DEF Limited, RoutePass
<1>6. ASSUME NEW u \in Conns, RouteFree(l, u) PROVE Limited(l)'
  <2>1. IsLimited(HoldersOf(l) \ {u}, QueuedOf(l), permits[l] + 1, waiting[l])
    BY <1>6, LimiterFrees DEF Limited, RouteFree
  <2> QED BY <1>6, <2>1 DEF Limited, RouteFree
<1> QED BY <1>1, <1>2, <1>3, <1>4, <1>5, <1>6 DEF RouteStep

\* A request holds a permit of its own route.
LEMMA HoldersAreOnRoute ==
    ASSUME NEW l \in Api
    PROVE  /\ HoldersOf(l) = {c \in Conns : route[c] = l /\ stage[c] \in {"reading", "handling"}}
           /\ HoldersOf(l)' = {c \in Conns : route'[c] = l /\ stage'[c] \in {"reading", "handling"}}
           /\ QueuedOf(l)' = {c \in Conns : route'[c] = l /\ stage'[c] = "queued"}
<1>1. l # NoRoute
  BY DEF Api, NoRoute
<1>2. \A r : LimitOf(r) = l <=> r = l
  BY <1>1 DEF LimitOf
<1> QED BY <1>2 DEF HoldersOf, QueuedOf

\* Connections on other routes are nothing to the limit of a route.
LEMMA Elsewhere ==
    ASSUME NEW l \in Api,
           \A d \in Conns : /\ route'[d] = l <=> route[d] = l
                            /\ route[d] = l => stage'[d] = stage[d]
    PROVE  HoldersOf(l)' = HoldersOf(l) /\ QueuedOf(l)' = QueuedOf(l)
<1>1. HoldersOf(l)' = HoldersOf(l)
  BY HoldersAreOnRoute
<1>2. QueuedOf(l)' = QueuedOf(l)
  BY HoldersAreOnRoute DEF QueuedOf
<1> QED BY <1>1, <1>2

\* A step that leaves the permits and queues alone, and does not take a
\* connection into or out of a limit.
LEMMA StepAside ==
    ASSUME NEW l \in Api, NEW c \in Conns, ServerTypes, UNCHANGED limitVars,
           \A d \in Conns \ {c} : stage'[d] = stage[d] /\ route'[d] = route[d],
           \/ route[c] # l
           \/ stage[c] \notin {"queued", "reading", "handling"},
           \/ route'[c] # l
           \/ stage'[c] \notin {"queued", "reading", "handling"}
    PROVE  RouteStep(l)
<1>1. HoldersOf(l)' = HoldersOf(l) /\ QueuedOf(l)' = QueuedOf(l)
  BY HoldersAreOnRoute DEF QueuedOf
<1> QED BY <1>1 DEF RouteStep, RouteStays, limitVars

\* The request of c ends: its permit is passed on or comes free, its place in
\* the queue is given up, and no other route sees it.
LEMMA EndRequestStep ==
    ASSUME NEW l \in Api, NEW c \in Conns, NEW next \in {"closed", "open"},
           ServerTypes, RequestsAgree, \A r \in Api : Limited(r),
           stage[c] \notin {"closed", "open"},
           EndRequest(c, next), route' = [route EXCEPT ![c] = NoRoute]
    PROVE  RouteStep(l)
<1> DEFINE m == LimitOf(route[c])
<1>0. /\ m \in Api => m = route[c]
      /\ m \notin Api => route[c] \notin Api
      /\ NoRoute \notin Api
  BY DEF LimitOf, Api, NoRoute
<1>1. /\ route'[c] = NoRoute
      /\ \A d \in Conns \ {c} : route'[d] = route[d]
  BY DEF ServerTypes
<1>2. stage[c] \in {"queued", "reading", "handling", "streaming"}
  BY DEF ServerTypes, Stages
<1>3. m \in Api => /\ stage[c] # "streaming"
                   /\ stage[c] # "queued" => c \in HoldersOf(m)
                   /\ stage[c] = "queued" => c \in QueuedOf(m)
  <2>1. "subscribe" \notin Api
    BY DEF Api
  <2> QED BY <1>0, <1>2, <2>1, HoldersAreOnRoute DEF RequestsAgree, QueuedOf
<1> HIDE DEF m
<1>4. CASE /\ m \in Api /\ stage[c] # "queued" /\ waiting[m] # <<>>
           /\ stage' = [stage EXCEPT ![c] = next,
                                     ![Head(waiting[m])] = FirstStage(route[Head(waiting[m])])]
           /\ waiting' = [waiting EXCEPT ![m] = Tail(@)]
           /\ UNCHANGED permits
  <2>0. m \in Api /\ stage[c] # "queued"
    BY <1>4
  <2> DEFINE q == Head(waiting[m])
  <2>1. q \in QueuedOf(m)
    BY <1>3, <1>4, LimiterPasses DEF Limited
  <2>2. q \in Conns /\ q # c /\ route[q] = m /\ stage[q] = "queued"
    BY <1>4, <2>1 DEF QueuedOf
  <2>3. FirstStage(route[q]) \in {"reading", "handling"}
    BY DEF FirstStage
  <2>4. /\ stage'[c] = next /\ stage'[q] = FirstStage(route[q])
        /\ \A d \in Conns \ {c, q} : stage'[d] = stage[d]
    BY <1>4, <2>2 DEF ServerTypes
  <2>5. waiting'[m] = Tail(waiting[m]) /\ permits'[l] = permits[l]
        /\ (l # m => waiting'[l] = waiting[l])
    BY <1>4 DEF ServerTypes
  <2> HIDE DEF q
  <2>6. CASE l = m
    <3>1. /\ HoldersOf(l)' = (HoldersOf(l) \ {c}) \cup {q}
          /\ QueuedOf(l)' = QueuedOf(l) \ {q}
      BY <1>0, <1>1, <2>0, <2>2, <2>3, <2>4, <2>6, HoldersAreOnRoute DEF QueuedOf
    <3>2. RoutePass(l, c)
      BY <1>3, <1>4, <2>5, <2>6, <3>1 DEF RoutePass, q
    <3> QED BY <3>2 DEF RouteStep
  <2>7. CASE l # m
    <3>1. HoldersOf(l)' = HoldersOf(l) /\ QueuedOf(l)' = QueuedOf(l)
      <4>1. \A d \in Conns : /\ route'[d] = l <=> route[d] = l
                             /\ route[d] = l => stage'[d] = stage[d]
        BY <1>0, <1>1, <2>0, <2>2, <2>4, <2>7
      <4> QED BY <4>1, Elsewhere
    <3> QED BY <2>5, <2>7, <3>1 DEF RouteStep, RouteStays
  <2> QED BY <2>6, <2>7
<1>5. CASE /\ m \in Api /\ stage[c] # "queued" /\ waiting[m] = <<>>
           /\ stage' = [stage EXCEPT ![c] = next]
           /\ permits' = [permits EXCEPT ![m] = @ + 1]
           /\ UNCHANGED waiting
  <2>0. m \in Api /\ stage[c] # "queued"
    BY <1>5
  <2>1. stage'[c] = next /\ \A d \in Conns \ {c} : stage'[d] = stage[d]
    BY <1>5 DEF ServerTypes
  <2>2. /\ permits'[m] = permits[m] + 1 /\ waiting'[l] = waiting[l]
        /\ l # m => permits'[l] = permits[l]
    BY <1>5 DEF ServerTypes
  <2>3. CASE l = m
    <3>1. HoldersOf(l)' = HoldersOf(l) \ {c} /\ QueuedOf(l)' = QueuedOf(l)
      BY <1>0, <1>1, <2>0, <2>1, <2>3, HoldersAreOnRoute DEF QueuedOf
    <3>2. RouteFree(l, c)
      BY <1>3, <1>5, <2>2, <2>3, <3>1 DEF RouteFree
    <3> QED BY <3>2 DEF RouteStep
  <2>4. CASE l # m
    <3>1. HoldersOf(l)' = HoldersOf(l) /\ QueuedOf(l)' = QueuedOf(l)
      <4>1. \A d \in Conns : /\ route'[d] = l <=> route[d] = l
                             /\ route[d] = l => stage'[d] = stage[d]
        BY <1>0, <1>1, <2>0, <2>1, <2>4
      <4> QED BY <4>1, Elsewhere
    <3> QED BY <2>2, <2>4, <3>1 DEF RouteStep, RouteStays
  <2> QED BY <2>3, <2>4
<1>6. CASE /\ m \in Api /\ stage[c] = "queued"
           /\ stage' = [stage EXCEPT ![c] = next]
           /\ \E k \in 1 .. Len(waiting[m]) :
                 waiting[m][k] = c /\ waiting' = [waiting EXCEPT ![m] = RemoveAt(@, k)]
           /\ UNCHANGED permits
  <2>0. m \in Api /\ stage[c] = "queued"
    BY <1>6
  <2>1. stage'[c] = next /\ \A d \in Conns \ {c} : stage'[d] = stage[d]
    BY <1>6 DEF ServerTypes
  <2>2. l = m => HoldersOf(l)' = HoldersOf(l) /\ QueuedOf(l)' = QueuedOf(l) \ {c}
    BY <1>0, <1>1, <2>0, <2>1, HoldersAreOnRoute DEF QueuedOf
  <2>3. l # m => HoldersOf(l)' = HoldersOf(l) /\ QueuedOf(l)' = QueuedOf(l)
    BY <1>0, <1>1, <2>0, <2>1, HoldersAreOnRoute DEF QueuedOf
  <2>4. PICK k \in 1 .. Len(waiting[m]) :
          waiting[m][k] = c /\ waiting' = [waiting EXCEPT ![m] = RemoveAt(@, k)]
    BY <1>6
  <2>5. /\ waiting'[m] = RemoveAt(waiting[m], k) /\ permits'[l] = permits[l]
        /\ l # m => waiting'[l] = waiting[l]
    BY <1>6, <2>4 DEF ServerTypes
  <2>6. CASE l = m
    <3>1. RouteGiveUp(l, c)
      BY <2>2, <2>4, <2>5, <2>6 DEF RouteGiveUp
    <3> QED BY <3>1 DEF RouteStep
  <2>7. CASE l # m
    BY <2>3, <2>5, <2>7 DEF RouteStep, RouteStays
  <2> QED BY <2>6, <2>7
<1>7. CASE /\ m \notin Api
           /\ stage' = [stage EXCEPT ![c] = next]
           /\ UNCHANGED limitVars
  <2>1. stage'[c] = next /\ \A d \in Conns \ {c} : stage'[d] = stage[d]
    BY <1>7 DEF ServerTypes
  <2> QED BY <1>0, <1>1, <1>7, <2>1, StepAside
<1> QED BY <1>4, <1>5, <1>6, <1>7 DEF EndRequest, m

\* A request comes: it is let in or queued, on its own route only.
LEMMA RequestStep ==
    ASSUME NEW l \in Api, NEW c \in Conns, NEW r \in Routes,
           ServerTypes, RequestsAgree, Request(c, r)
    PROVE  RouteStep(l)
<1> DEFINE m == LimitOf(r)
<1>0. /\ m \in Api => m = r
      /\ m \notin Api => r \notin Api
      /\ NoRoute \notin Api
  BY DEF LimitOf, Api, NoRoute
<1>1. /\ stage[c] = "open" /\ route[c] = NoRoute
      /\ route'[c] = r /\ \A d \in Conns \ {c} : route'[d] = route[d]
  BY DEF Request, ServerTypes, RequestsAgree
<1>2. c \notin HoldersOf(l) \cup QueuedOf(l)
  BY <1>0, <1>1, HoldersAreOnRoute DEF QueuedOf
<1>3. FirstStage(r) \in {"reading", "handling"}
  BY DEF FirstStage
<1>4. CASE m \notin Api
  <2>1. stage'[c] = FirstStage(r) /\ \A d \in Conns \ {c} : stage'[d] = stage[d]
    BY <1>4 DEF Request, ServerTypes
  <2>2. UNCHANGED limitVars
    BY <1>4 DEF Request
  <2> QED BY <1>0, <1>1, <1>4, <2>1, <2>2, StepAside
<1>5. CASE m \in Api /\ HasRoom(m)
  <2>1. stage'[c] = FirstStage(r) /\ \A d \in Conns \ {c} : stage'[d] = stage[d]
    BY <1>5 DEF Request, ServerTypes
  <2>2. /\ permits'[m] = permits[m] - 1 /\ waiting'[l] = waiting[l]
        /\ l # m => permits'[l] = permits[l]
    BY <1>5 DEF Request, ServerTypes
  <2>3. CASE l = m
    <3>1. HoldersOf(l)' = HoldersOf(l) \cup {c} /\ QueuedOf(l)' = QueuedOf(l)
      BY <1>0, <1>1, <1>3, <1>5, <2>1, <2>3, HoldersAreOnRoute DEF QueuedOf
    <3>2. RouteEnter(l, c)
      BY <1>2, <1>5, <2>2, <2>3, <3>1 DEF RouteEnter, HasRoom
    <3> QED BY <3>2 DEF RouteStep
  <2>4. CASE l # m
    <3>1. HoldersOf(l)' = HoldersOf(l) /\ QueuedOf(l)' = QueuedOf(l)
      BY <1>0, <1>1, <1>5, <2>1, <2>4, HoldersAreOnRoute DEF QueuedOf
    <3> QED BY <2>2, <2>4, <3>1 DEF RouteStep, RouteStays
  <2> QED BY <2>3, <2>4
<1>6. CASE m \in Api /\ ~HasRoom(m)
  <2>1. stage'[c] = "queued" /\ \A d \in Conns \ {c} : stage'[d] = stage[d]
    BY <1>6 DEF Request, ServerTypes
  <2>2. /\ waiting'[m] = Append(waiting[m], c) /\ permits'[l] = permits[l]
        /\ l # m => waiting'[l] = waiting[l]
    BY <1>6 DEF Request, ServerTypes
  <2>3. CASE l = m
    <3>1. HoldersOf(l)' = HoldersOf(l) /\ QueuedOf(l)' = QueuedOf(l) \cup {c}
      BY <1>0, <1>1, <1>6, <2>1, <2>3, HoldersAreOnRoute DEF QueuedOf
    <3>2. RouteQueue(l, c)
      BY <1>2, <1>6, <2>2, <2>3, <3>1 DEF RouteQueue, HasRoom
    <3> QED BY <3>2 DEF RouteStep
  <2>4. CASE l # m
    <3>1. HoldersOf(l)' = HoldersOf(l) /\ QueuedOf(l)' = QueuedOf(l)
      BY <1>0, <1>1, <1>6, <2>1, <2>4, HoldersAreOnRoute DEF QueuedOf
    <3> QED BY <2>2, <2>4, <3>1 DEF RouteStep, RouteStays
  <2> QED BY <2>3, <2>4
<1> QED BY <1>4, <1>5, <1>6

-----------------------------------------------------------------------------
(* The invariant of the server.                                            *)

Probing(c) == stage[c] = "handling" /\ route[c] = "readyz"

\* A probe has seen the targets before the one it looks at, and the history has
\* every target that has a shard now; without a probe there is nothing to tell.
ProbesAgree ==
    \A c \in Conns :
        /\ Probing(c) => (1 .. at[c] - 1) \cup UpNow \subseteq was_up[c]
        /\ ~Probing(c) => at[c] = 1

ServerInv ==
    /\ ServerTypes
    /\ RequestsAgree
    /\ ProbesAgree
    /\ \A l \in Api : Limited(l)

\* What the end of a request does to the connections: c goes on to next, and at
\* most a queued one is let in.
LEMMA EndRequestEffect ==
    ASSUME NEW c \in Conns, NEW next \in {"closed", "open"}, ServerInv,
           stage[c] \notin {"closed", "open"}, EndRequest(c, next)
    PROVE  /\ stage' \in [Conns -> Stages]
           /\ permits' \in [Api -> Nat]
           /\ waiting' \in [Api -> Seq(Conns)]
           /\ stage'[c] = next
           /\ \A d \in Conns \ {c} :
                 \/ stage'[d] = stage[d]
                 \/ stage[d] = "queued" /\ stage'[d] = FirstStage(route[d])
<1> DEFINE m == LimitOf(route[c])
<1>0. /\ m \in Api => m = route[c]
      /\ next \in Stages
      /\ \A r : FirstStage(r) \in Stages
  BY DEF LimitOf, Api, NoRoute, FirstStage, Stages
<1>1. /\ stage \in [Conns -> Stages] /\ permits \in [Api -> Nat]
      /\ waiting \in [Api -> Seq(Conns)]
      /\ \A l \in Api : Limited(l)
  BY DEF ServerInv, ServerTypes
<1>2. m \in Api /\ stage[c] # "queued" => c \in HoldersOf(m)
  <2>1. "subscribe" \notin Api
    BY DEF Api
  <2>2. stage[c] \in {"queued", "reading", "handling", "streaming"}
    BY <1>1 DEF Stages
  <2> QED BY <1>0, <2>1, <2>2, HoldersAreOnRoute DEF ServerInv, RequestsAgree
<1> HIDE DEF m
<1>3. CASE /\ m \in Api /\ stage[c] # "queued" /\ waiting[m] # <<>>
           /\ stage' = [stage EXCEPT ![c] = next,
                                     ![Head(waiting[m])] = FirstStage(route[Head(waiting[m])])]
           /\ waiting' = [waiting EXCEPT ![m] = Tail(@)]
           /\ UNCHANGED permits
  <2> DEFINE q == Head(waiting[m])
  <2>1. q \in QueuedOf(m)
    BY <1>1, <1>2, <1>3, LimiterPasses DEF Limited
  <2>2. q \in Conns /\ q # c /\ stage[q] = "queued"
    BY <1>3, <2>1 DEF QueuedOf
  <2>3. Tail(waiting[m]) \in Seq(Conns)
    BY <1>1, <1>3, HeadTailProperties
  <2>4. waiting' \in [Api -> Seq(Conns)] /\ permits' \in [Api -> Nat]
    BY <1>1, <1>3, <2>3
  <2>5. stage' = [stage EXCEPT ![c] = next, ![q] = FirstStage(route[q])]
    BY <1>3
  <2> HIDE DEF q
  <2>6. stage' \in [Conns -> Stages]
    BY <1>0, <1>1, <2>2, <2>5
  <2> QED BY <1>1, <2>2, <2>4, <2>5, <2>6
<1>4. CASE /\ m \in Api /\ stage[c] # "queued" /\ waiting[m] = <<>>
           /\ stage' = [stage EXCEPT ![c] = next]
           /\ permits' = [permits EXCEPT ![m] = @ + 1]
           /\ UNCHANGED waiting
  <2>1. permits' \in [Api -> Nat]
    BY <1>1, <1>4
  <2> QED BY <1>0, <1>1, <1>4, <2>1
<1>5. CASE /\ m \in Api /\ stage[c] = "queued"
           /\ stage' = [stage EXCEPT ![c] = next]
           /\ \E k \in 1 .. Len(waiting[m]) :
                 waiting[m][k] = c /\ waiting' = [waiting EXCEPT ![m] = RemoveAt(@, k)]
           /\ UNCHANGED permits
  <2>1. waiting' \in [Api -> Seq(Conns)]
    <3>1. PICK k \in 1 .. Len(waiting[m]) : waiting' = [waiting EXCEPT ![m] = RemoveAt(@, k)]
      BY <1>5
    <3>2. RemoveAt(waiting[m], k) \in Seq(Conns)
      BY <1>1, <1>5, RemoveAtProperties
    <3> QED BY <1>1, <3>1, <3>2
  <2> QED BY <1>0, <1>1, <1>5, <2>1
<1>6. CASE /\ m \notin Api
           /\ stage' = [stage EXCEPT ![c] = next]
           /\ UNCHANGED limitVars
  BY <1>0, <1>1, <1>6 DEF limitVars
<1> QED BY <1>3, <1>4, <1>5, <1>6 DEF EndRequest, m

\* So it leaves the invariant, whatever the answer was.
LEMMA RequestEnds ==
    ASSUME NEW c \in Conns, NEW next \in {"closed", "open"},
           NEW a \in {"none", "ready", "unavailable"},
           ServerInv, stage[c] \notin {"closed", "open"},
           EndRequest(c, next), answer' = [answer EXCEPT ![c] = a], RequestOver(c)
    PROVE  ServerInv'
<1>1. /\ stage' \in [Conns -> Stages]
      /\ permits' \in [Api -> Nat] /\ waiting' \in [Api -> Seq(Conns)]
      /\ stage'[c] = next
      /\ \A d \in Conns \ {c} :
            \/ stage'[d] = stage[d]
            \/ stage[d] = "queued" /\ stage'[d] = FirstStage(route[d])
  BY EndRequestEffect
<1>2. ServerTypes /\ RequestsAgree /\ ProbesAgree /\ \A l \in Api : Limited(l)
  BY DEF ServerInv
<1>3. 1 \in Targets /\ NoRoute \in Routes \cup {NoRoute}
  BY ServerAssumption DEF Targets
<1>4. ServerTypes'
  BY <1>1, <1>2, <1>3 DEF ServerTypes, RequestOver, Targets
<1>5. /\ route'[c] = NoRoute /\ answer'[c] = a /\ at'[c] = 1
      /\ \A d \in Conns \ {c} : /\ route'[d] = route[d] /\ answer'[d] = answer[d]
                                /\ at'[d] = at[d] /\ was_up'[d] = was_up[d]
      /\ UpNow' = UpNow
  BY <1>2 DEF ServerTypes, RequestOver, UpNow
<1>6. \A r : /\ FirstStage(r) \in {"reading", "handling"}
             /\ FirstStage(r) = "reading" => r \in {"command", "pipeline", "multi_exec", "subscribe"}
  BY DEF FirstStage
<1>7. "readyz" \notin Api /\ NoRoute \notin Api /\ NoRoute # "readyz"
  BY DEF Api, NoRoute
<1>8. RequestsAgree'
  BY <1>1, <1>2, <1>5, <1>6, <1>7 DEF RequestsAgree
<1>9. ProbesAgree'
  <2> SUFFICES ASSUME NEW d \in Conns
               PROVE  /\ Probing(d)' => (1 .. at'[d] - 1) \cup UpNow' \subseteq was_up'[d]
                      /\ ~Probing(d)' => at'[d] = 1
    BY DEF ProbesAgree
  <2>1. CASE d = c
    BY <1>5, <1>7, <2>1 DEF Probing
  <2>2. CASE d # c
    <3>1. Probing(d)' <=> Probing(d)
      BY <1>1, <1>2, <1>5, <1>7, <2>2 DEF Probing, RequestsAgree
    <3> QED BY <1>2, <1>5, <2>2, <3>1 DEF ProbesAgree
  <2> QED BY <2>1, <2>2
<1>10. \A l \in Api : Limited(l)'
  <2>1. route' = [route EXCEPT ![c] = NoRoute]
    BY DEF RequestOver
  <2> QED BY <1>2, <2>1, EndRequestStep, RouteStepKeeps
<1> QED BY <1>4, <1>8, <1>9, <1>10 DEF ServerInv

\* A handler that answers, and a client that goes away in the middle.
LEMMA AnswerEnds ==
    ASSUME NEW c \in Conns, ServerInv,
           Handle(c) \/ (ClientGone(c) /\ stage[c] # "open")
             \/ (ReadTarget(c) /\ (~up[at[c]] \/ at[c] = TargetCount))
    PROVE  \E next \in {"closed", "open"}, a \in {"none", "ready", "unavailable"} :
              /\ stage[c] \notin {"closed", "open"}
              /\ EndRequest(c, next) /\ answer' = [answer EXCEPT ![c] = a]
              /\ RequestOver(c)
<1>1. CASE Handle(c)
  BY <1>1 DEF Handle, Respond
<1>2. CASE ClientGone(c) /\ stage[c] # "open"
  BY <1>2 DEF ClientGone
<1>3. CASE ReadTarget(c) /\ (~up[at[c]] \/ at[c] = TargetCount)
  <2>1. at[c] \in Nat /\ TargetCount \in Nat
    BY ServerAssumption DEF ServerInv, ServerTypes, Targets
  <2>2. stage[c] = "handling" /\ \E a \in {"ready", "unavailable"} : Respond(c, a)
    BY <1>3, <2>1 DEF ReadTarget
  <2> QED BY <2>2 DEF Respond
<1> QED BY <1>1, <1>2, <1>3

\* Every step of the server is, for each API route, a step of its limiter.
LEMMA RouteSteps ==
    ASSUME ServerInv, [ServerNext]_serverVars, NEW l \in Api
    PROVE  RouteStep(l)
<1>0. /\ ServerTypes /\ RequestsAgree /\ \A r \in Api : Limited(r)
      /\ Visited \subseteq Routes
      /\ "subscribe" \notin Api /\ NoRoute \notin Api
  BY ServerAssumption DEF ServerInv, Api, NoRoute
<1>1. ASSUME UNCHANGED <<stage, route, limitVars>> PROVE RouteStep(l)
  <2>1. HoldersOf(l)' = HoldersOf(l) /\ QueuedOf(l)' = QueuedOf(l)
    BY <1>1 DEF HoldersOf, QueuedOf
  <2> QED BY <1>1, <2>1 DEF RouteStep, RouteStays, limitVars
<1>2. CASE UNCHANGED serverVars \/ Signal \/ Stop \/ \E t \in Targets : Supervise(t)
  <2>1. UNCHANGED <<stage, route, limitVars>>
    BY <1>2 DEF serverVars, connVars, limitVars, Signal, Stop, Supervise
  <2> QED BY <1>1, <2>1
<1>3. ASSUME NEW c \in Conns,
             \E next \in {"closed", "open"}, a \in {"none", "ready", "unavailable"} :
                /\ stage[c] \notin {"closed", "open"}
                /\ EndRequest(c, next) /\ answer' = [answer EXCEPT ![c] = a]
                /\ RequestOver(c)
      PROVE  RouteStep(l)
  BY <1>0, <1>3, EndRequestStep DEF RequestOver
<1>4. ASSUME NEW c \in Conns, Accept(c) \/ Notice(c) \/ (ClientGone(c) /\ stage[c] = "open")
      PROVE  RouteStep(l)
  <2>1. /\ \A d \in Conns \ {c} : stage'[d] = stage[d] /\ route'[d] = route[d]
        /\ UNCHANGED limitVars
    BY <1>0, <1>4 DEF Accept, Notice, ClientGone, RequestOver, ServerTypes
  <2>2. CASE stage[c] \in {"closed", "open"}
    <3>1. stage'[c] \in {"closed", "open"}
      BY <1>0, <1>4, <2>2 DEF Accept, Notice, ClientGone, ServerTypes
    <3> QED BY <1>0, <2>1, <2>2, <3>1, StepAside
  <2>3. CASE stage[c] \notin {"closed", "open"}
    <3>1. UNCHANGED <<stage, route, limitVars>>
      BY <1>0, <1>4, <2>3 DEF Accept, Notice, ClientGone, ServerTypes
    <3> QED BY <1>1, <3>1
  <2> QED BY <2>2, <2>3
<1>5. ASSUME NEW c \in Conns, NEW r \in Visited, Request(c, r) PROVE RouteStep(l)
  BY <1>0, <1>5, RequestStep
<1>6. ASSUME NEW c \in Conns, BodyArrives(c) PROVE RouteStep(l)
  <2>1. /\ stage[c] = "reading" /\ stage'[c] = "handling"
        /\ \A d \in Conns \ {c} : stage'[d] = stage[d]
        /\ route' = route /\ UNCHANGED limitVars
    BY <1>0, <1>6 DEF BodyArrives, ServerTypes
  <2>2. HoldersOf(l)' = HoldersOf(l) /\ QueuedOf(l)' = QueuedOf(l)
    BY <2>1, HoldersAreOnRoute DEF QueuedOf
  <2> QED BY <2>1, <2>2 DEF RouteStep, RouteStays, limitVars
<1>7. ASSUME NEW c \in Conns, Stream(c) PROVE RouteStep(l)
  <2>1. /\ route[c] # l /\ route' = route /\ UNCHANGED limitVars
        /\ \A d \in Conns \ {c} : stage'[d] = stage[d]
    BY <1>0, <1>7 DEF Stream, ServerTypes
  <2> QED BY <1>0, <2>1, StepAside
<1>8. ASSUME NEW c \in Conns, ReadTarget(c), up[at[c]], at[c] # TargetCount PROVE RouteStep(l)
  <2>1. UNCHANGED <<stage, route, limitVars>>
    BY <1>8 DEF ReadTarget, connVars
  <2> QED BY <1>1, <2>1
<1>9. CASE \E c \in Conns :
             \/ Accept(c) \/ \E r \in Visited : Request(c, r)
             \/ BodyArrives(c) \/ Handle(c) \/ Stream(c) \/ ReadTarget(c)
             \/ ClientGone(c) \/ Notice(c)
  <2>1. PICK c \in Conns :
             \/ Accept(c) \/ \E r \in Visited : Request(c, r)
             \/ BodyArrives(c) \/ Handle(c) \/ Stream(c) \/ ReadTarget(c)
             \/ ClientGone(c) \/ Notice(c)
    BY <1>9
  <2>2. CASE Handle(c) \/ (ClientGone(c) /\ stage[c] # "open")
               \/ (ReadTarget(c) /\ (~up[at[c]] \/ at[c] = TargetCount))
    BY <1>3, <2>2, AnswerEnds
  <2>3. CASE ReadTarget(c) /\ up[at[c]] /\ at[c] # TargetCount
    BY <1>8, <2>3
  <2>4. CASE Accept(c) \/ Notice(c) \/ (ClientGone(c) /\ stage[c] = "open")
    BY <1>4, <2>4
  <2>5. CASE BodyArrives(c) \/ Stream(c) \/ \E r \in Visited : Request(c, r)
    BY <1>5, <1>6, <1>7, <2>5
  <2>6. CASE ReadTarget(c)
    <3>1. CASE ~up[at[c]] \/ at[c] = TargetCount
      BY <2>2, <2>6, <3>1
    <3>2. CASE ~(~up[at[c]] \/ at[c] = TargetCount)
      BY <2>3, <2>6, <3>2
    <3> QED BY <3>1, <3>2
  <2>7. CASE ClientGone(c)
    BY <2>2, <2>4, <2>7
  <2>8. CASE Handle(c)
    BY <2>2, <2>8
  <2> QED BY <2>1, <2>4, <2>5, <2>6, <2>7, <2>8
<1> QED BY <1>2, <1>9 DEF ServerNext

LEMMA ServerInitially == ServerInit => ServerInv
<1> SUFFICES ASSUME ServerInit PROVE ServerInv
  OBVIOUS
<1>1. 1 \in Targets /\ MaxConcurrency \in Nat
  BY ServerAssumption DEF Targets
<1>2. <<>> \in Seq(Conns) /\ Len(<<>>) = 0
  BY EmptySeq
<1>3. ServerTypes
  BY <1>1, <1>2 DEF ServerInit, ServerTypes, Stages, Routes
<1>4. RequestsAgree /\ ProbesAgree
  BY DEF ServerInit, RequestsAgree, ProbesAgree, Probing
<1>5. ASSUME NEW l \in Api PROVE Limited(l)
  <2>1. HoldersOf(l) = {} /\ QueuedOf(l) = {} /\ permits[l] = MaxConcurrency /\ waiting[l] = <<>>
    BY <1>5 DEF ServerInit, HoldersOf, QueuedOf
  <2>2. Cardinality({}) = 0
    BY FS_EmptySet
  <2>3. IsLimited({}, {}, MaxConcurrency, <<>>)
    BY <1>1, <1>2, <2>2 DEF IsLimited
  <2> QED BY <2>1, <2>3 DEF Limited
<1> QED BY <1>3, <1>4, <1>5 DEF ServerInv

LEMMA ServerStep == ServerInv /\ [ServerNext]_serverVars => ServerInv'
<1> SUFFICES ASSUME ServerInv, [ServerNext]_serverVars PROVE ServerInv'
  OBVIOUS
<1>0. /\ ServerTypes /\ RequestsAgree /\ ProbesAgree
      /\ Visited \subseteq Routes
      /\ TargetCount \in Nat \ {0}
  BY ServerAssumption DEF ServerInv
<1>1. \A l \in Api : Limited(l)'
  BY RouteSteps, RouteStepKeeps DEF ServerInv
<1>2. CASE UNCHANGED serverVars \/ Signal \/ Stop
  <2>1. UNCHANGED <<connVars, limitVars, up, readyVars>>
    BY <1>2 DEF serverVars, connVars, limitVars, readyVars, Signal, Stop
  <2>2. ServerTypes' /\ RequestsAgree'
    BY <1>0, <2>1 DEF ServerTypes, RequestsAgree, connVars, limitVars, readyVars
  <2>3. ProbesAgree'
    BY <1>0, <2>1 DEF ProbesAgree, Probing, UpNow, connVars, readyVars
  <2> QED BY <1>1, <2>2, <2>3 DEF ServerInv
<1>3. ASSUME NEW t \in Targets, Supervise(t) PROVE ServerInv'
  <2>1. /\ UNCHANGED <<connVars, limitVars, at>>
        /\ up' = [up EXCEPT ![t] = ~@]
        /\ was_up' = [c \in Conns |-> IF Probing(c) /\ up'[t] THEN was_up[c] \cup {t} ELSE was_up[c]]
    BY <1>3 DEF Supervise, Probing
  <2>2. ServerTypes' /\ RequestsAgree'
    <3>1. was_up' \in [Conns -> SUBSET Targets]
      BY <1>0, <2>1 DEF ServerTypes
    <3>2. up' \in [Targets -> BOOLEAN]
      BY <1>0, <2>1 DEF ServerTypes
    <3>3. RequestsAgree'
      BY <1>0, <2>1 DEF RequestsAgree, connVars
    <3> QED BY <1>0, <2>1, <3>1, <3>2, <3>3 DEF ServerTypes, connVars, limitVars
  <2>3. UpNow' \subseteq IF up'[t] THEN UpNow \cup {t} ELSE UpNow
    BY <1>0, <2>1 DEF UpNow, ServerTypes
  <2>4. ProbesAgree'
    <3> SUFFICES ASSUME NEW c \in Conns
                 PROVE  /\ Probing(c)' => (1 .. at'[c] - 1) \cup UpNow' \subseteq was_up'[c]
                        /\ ~Probing(c)' => at'[c] = 1
      BY DEF ProbesAgree
    <3>1. (Probing(c)' <=> Probing(c)) /\ at'[c] = at[c]
      BY <2>1 DEF Probing, connVars
    <3>2. Probing(c) => was_up'[c] = IF up'[t] THEN was_up[c] \cup {t} ELSE was_up[c]
      BY <2>1
    <3> QED BY <1>0, <2>3, <3>1, <3>2 DEF ProbesAgree
  <2> QED BY <1>1, <2>2, <2>4 DEF ServerInv
<1>4. ASSUME NEW c \in Conns, NEW next \in Stages,
             NEW a \in {"none", "pending", "ready", "unavailable"},
             NEW r \in Routes \cup {NoRoute}, NEW seen \in SUBSET Targets,
             stage' = [stage EXCEPT ![c] = next], route' = [route EXCEPT ![c] = r],
             answer' = [answer EXCEPT ![c] = a], was_up' = [was_up EXCEPT ![c] = seen],
             UNCHANGED <<up, at>>, permits' \in [Api -> Nat], waiting' \in [Api -> Seq(Conns)],
             a = "pending" <=> next \notin {"closed", "open"},
             r = NoRoute <=> next \in {"closed", "open"},
             next = "queued" => r \in Api,
             next = "reading" => r \in {"command", "pipeline", "multi_exec", "subscribe"},
             next = "streaming" => r = "subscribe",
             at[c] = 1,
             next = "handling" /\ r = "readyz" => UpNow \subseteq seen
      PROVE  ServerInv'
  <2>1. ServerTypes'
    BY <1>0, <1>4 DEF ServerTypes
  <2>2. /\ stage'[c] = next /\ route'[c] = r /\ answer'[c] = a /\ was_up'[c] = seen
        /\ \A d \in Conns \ {c} : /\ stage'[d] = stage[d] /\ route'[d] = route[d]
                                  /\ answer'[d] = answer[d] /\ was_up'[d] = was_up[d]
        /\ UpNow' = UpNow /\ at' = at
    BY <1>0, <1>4 DEF ServerTypes, UpNow
  <2>3. RequestsAgree'
    <3> SUFFICES ASSUME NEW d \in Conns
                 PROVE
            /\ answer'[d] = "pending" <=> stage'[d] \notin {"closed", "open"}
            /\ route'[d] = NoRoute <=> stage'[d] \in {"closed", "open"}
            /\ stage'[d] = "queued" => route'[d] \in Api
            /\ stage'[d] = "reading" =>
                  route'[d] \in {"command", "pipeline", "multi_exec", "subscribe"}
            /\ stage'[d] = "streaming" => route'[d] = "subscribe"
      BY DEF RequestsAgree
    <3>1. CASE d = c
      BY <1>4, <2>2, <3>1
    <3>2. CASE d # c
      BY <1>0, <2>2, <3>2 DEF RequestsAgree
    <3> QED BY <3>1, <3>2
  <2>4. ProbesAgree'
    <3> SUFFICES ASSUME NEW d \in Conns
                 PROVE  /\ Probing(d)' => (1 .. at'[d] - 1) \cup UpNow' \subseteq was_up'[d]
                        /\ ~Probing(d)' => at'[d] = 1
      BY DEF ProbesAgree
    <3>1. CASE d = c
      <4>1. 1 .. at[c] - 1 = {}
        BY <1>4
      <4> QED BY <1>4, <2>2, <3>1, <4>1 DEF Probing
    <3>2. CASE d # c
      <4>1. Probing(d)' <=> Probing(d)
        BY <2>2, <3>2 DEF Probing
      <4> QED BY <1>0, <2>2, <3>2, <4>1 DEF ProbesAgree
    <3> QED BY <3>1, <3>2
  <2> QED BY <1>1, <2>1, <2>3, <2>4 DEF ServerInv
<1>5. ASSUME NEW c \in Conns, Accept(c) PROVE ServerInv'
  <2>1. /\ stage[c] = "closed" /\ route[c] = NoRoute /\ at[c] = 1
        /\ was_up[c] \in SUBSET Targets /\ "open" \in Stages
    BY <1>0, <1>5 DEF Accept, RequestsAgree, ProbesAgree, Probing, ServerTypes, Stages
  <2>2. /\ stage' = [stage EXCEPT ![c] = "open"] /\ answer' = [answer EXCEPT ![c] = "none"]
        /\ route' = [route EXCEPT ![c] = NoRoute] /\ was_up' = [was_up EXCEPT ![c] = was_up[c]]
        /\ UNCHANGED <<up, at>>
    BY <1>0, <1>5, <2>1 DEF Accept, readyVars, ServerTypes
  <2>3. permits' \in [Api -> Nat] /\ waiting' \in [Api -> Seq(Conns)]
    BY <1>0, <1>5 DEF Accept, limitVars, ServerTypes
  <2> QED BY <1>4, <2>1, <2>2, <2>3
<1>6. ASSUME NEW c \in Conns, Notice(c) \/ (ClientGone(c) /\ stage[c] = "open"),
             stage[c] = "open"
      PROVE  ServerInv'
  <2> DEFINE seen == was_up'[c]
             a == answer'[c]
  <2>1. /\ route[c] = NoRoute /\ at[c] = 1 /\ answer[c] # "pending"
        /\ "closed" \in Stages /\ NoRoute \in Routes \cup {NoRoute}
    BY <1>0, <1>6 DEF RequestsAgree, ProbesAgree, Probing, Stages
  <2>2. /\ stage' = [stage EXCEPT ![c] = "closed"]
        /\ route' = [route EXCEPT ![c] = NoRoute]
        /\ UNCHANGED <<up, at>>
    BY <1>0, <1>6, <2>1 DEF Notice, ClientGone, RequestOver, readyVars, ServerTypes
  <2>3. permits' \in [Api -> Nat] /\ waiting' \in [Api -> Seq(Conns)]
    BY <1>0, <1>6 DEF Notice, ClientGone, limitVars, ServerTypes
  <2>4. /\ answer' = [answer EXCEPT ![c] = a] /\ a # "pending"
        /\ a \in {"none", "pending", "ready", "unavailable"}
    BY <1>0, <1>6, <2>1 DEF Notice, ClientGone, ServerTypes
  <2>5. was_up' = [was_up EXCEPT ![c] = seen] /\ seen \in SUBSET Targets
    BY <1>0, <1>6 DEF Notice, ClientGone, RequestOver, readyVars, ServerTypes
  <2> HIDE DEF seen, a
  <2> QED BY <1>4, <2>1, <2>2, <2>3, <2>4, <2>5
<1>7. ASSUME NEW c \in Conns, Notice(c), stage[c] # "open" PROVE ServerInv'
  <2>1. stage' = stage /\ UNCHANGED <<route, answer, limitVars, up, readyVars>>
    BY <1>0, <1>7 DEF Notice, ServerTypes
  <2>2. ServerTypes' /\ RequestsAgree'
    BY <1>0, <2>1 DEF ServerTypes, RequestsAgree, limitVars, readyVars
  <2>3. ProbesAgree'
    BY <1>0, <2>1 DEF ProbesAgree, Probing, UpNow, readyVars
  <2> QED BY <1>1, <2>2, <2>3 DEF ServerInv
<1>8. ASSUME NEW c \in Conns, NEW r \in Visited, Request(c, r) PROVE ServerInv'
  <2> DEFINE next == stage'[c]
             seen == IF r = "readyz" THEN UpNow ELSE {}
  <2>1. /\ stage[c] = "open" /\ at[c] = 1 /\ r \in Routes
        /\ seen \in SUBSET Targets
    BY <1>0, <1>8 DEF Request, ProbesAgree, Probing, UpNow
  <2>2. /\ route' = [route EXCEPT ![c] = r] /\ answer' = [answer EXCEPT ![c] = "pending"]
        /\ was_up' = [was_up EXCEPT ![c] = seen] /\ UNCHANGED <<up, at>>
    BY <1>8 DEF Request
  <2>3. /\ stage' = [stage EXCEPT ![c] = next]
        /\ \/ LimitOf(r) \in Api /\ next = "queued"
           \/ next = FirstStage(r)
    BY <1>0, <1>8 DEF Request, ServerTypes
  <2>4. permits' \in [Api -> Nat]
    <3>1. \A l \in Api : HasRoom(l) => permits[l] - 1 \in Nat
      BY <1>0 DEF HasRoom, ServerTypes
    <3>2. permits' = permits \/ \E l \in Api : HasRoom(l) /\ permits' = [permits EXCEPT ![l] = @ - 1]
      BY <1>8 DEF Request, limitVars
    <3> QED BY <1>0, <3>1, <3>2 DEF ServerTypes
  <2>5. waiting' \in [Api -> Seq(Conns)]
    <3>1. \A l \in Api : Append(waiting[l], c) \in Seq(Conns)
      BY <1>0, AppendProperties DEF ServerTypes
    <3>2. waiting' = waiting \/ \E l \in Api : waiting' = [waiting EXCEPT ![l] = Append(@, c)]
      BY <1>8 DEF Request, limitVars
    <3> QED BY <1>0, <3>1, <3>2 DEF ServerTypes
  <2>6. /\ LimitOf(r) \in Api => r \in Api
        /\ FirstStage(r) \in {"reading", "handling"}
        /\ FirstStage(r) = "reading" => r \in {"command", "pipeline", "multi_exec", "subscribe"}
        /\ r # NoRoute
    BY <2>1 DEF LimitOf, FirstStage, Routes, Api, Health, NoRoute
  <2>7. /\ next \in Stages /\ next \notin {"closed", "open", "streaming"}
        /\ next = "queued" => r \in Api
        /\ next = "reading" => r \in {"command", "pipeline", "multi_exec", "subscribe"}
    BY <2>3, <2>6 DEF Stages
  <2>8. r = "readyz" => UpNow \subseteq seen
    OBVIOUS
  <2> HIDE DEF next, seen
  <2> QED BY <1>4, <2>1, <2>2, <2>3, <2>4, <2>5, <2>6, <2>7, <2>8
<1>9. ASSUME NEW c \in Conns, BodyArrives(c) \/ Stream(c) PROVE ServerInv'
  <2> DEFINE next == stage'[c]
  <2>1. /\ at[c] = 1 /\ stage[c] \in {"reading", "handling"}
        /\ route[c] \in Routes \cup {NoRoute} /\ route[c] # NoRoute /\ answer[c] = "pending"
        /\ was_up[c] \in SUBSET Targets
        /\ next \in {"handling", "streaming"}
        /\ next = "streaming" => route[c] = "subscribe"
        /\ next = "handling" => route[c] # "readyz"
    BY <1>0, <1>9 DEF BodyArrives, Stream, ProbesAgree, Probing, RequestsAgree, ServerTypes
  <2>2. /\ stage' = [stage EXCEPT ![c] = next] /\ route' = [route EXCEPT ![c] = route[c]]
        /\ answer' = [answer EXCEPT ![c] = "pending"]
        /\ was_up' = [was_up EXCEPT ![c] = was_up[c]] /\ UNCHANGED <<up, at>>
    BY <1>0, <1>9, <2>1 DEF BodyArrives, Stream, readyVars, ServerTypes
  <2>3. permits' \in [Api -> Nat] /\ waiting' \in [Api -> Seq(Conns)]
    BY <1>0, <1>9 DEF BodyArrives, Stream, limitVars, ServerTypes
  <2>4. next \in Stages
    BY <2>1 DEF Stages
  <2> HIDE DEF next
  <2> QED BY <1>4, <2>1, <2>2, <2>3, <2>4
<1>10. ASSUME NEW c \in Conns, ReadTarget(c), up[at[c]], at[c] # TargetCount PROVE ServerInv'
  <2>1. /\ at' = [at EXCEPT ![c] = @ + 1] /\ at[c] < TargetCount
        /\ UNCHANGED <<connVars, limitVars, up, was_up>> /\ Probing(c)
    BY <1>10 DEF ReadTarget, Probing
  <2>2. at[c] \in 1 .. TargetCount /\ at[c] + 1 \in Targets /\ at[c] \in UpNow
    BY <1>0, <1>10, <2>1 DEF ServerTypes, Targets, UpNow
  <2>3. /\ at' \in [Conns -> Targets] /\ at'[c] = at[c] + 1
        /\ \A d \in Conns \ {c} : at'[d] = at[d]
    BY <1>0, <2>1, <2>2 DEF ServerTypes
  <2>4. ServerTypes' /\ RequestsAgree'
    BY <1>0, <2>1, <2>3 DEF ServerTypes, RequestsAgree, connVars, limitVars
  <2>5. ProbesAgree'
    <3> SUFFICES ASSUME NEW d \in Conns
                 PROVE  /\ Probing(d)' => (1 .. at'[d] - 1) \cup UpNow' \subseteq was_up'[d]
                        /\ ~Probing(d)' => at'[d] = 1
      BY DEF ProbesAgree
    <3>1. (Probing(d)' <=> Probing(d)) /\ UpNow' = UpNow /\ was_up'[d] = was_up[d]
      BY <2>1 DEF Probing, UpNow, connVars
    <3>2. CASE d = c
      <4>1. 1 .. at'[c] - 1 \subseteq (1 .. at[c] - 1) \cup {at[c]}
        BY <2>2, <2>3 DEF Targets
      <4>2. (1 .. at[c] - 1) \cup UpNow \subseteq was_up[c]
        BY <1>0, <2>1 DEF ProbesAgree
      <4> QED BY <2>1, <2>2, <3>1, <3>2, <4>1, <4>2
    <3>3. CASE d # c
      BY <1>0, <2>3, <3>1, <3>3 DEF ProbesAgree
    <3> QED BY <3>2, <3>3
  <2> QED BY <1>1, <2>4, <2>5 DEF ServerInv
<1>11. ASSUME NEW c \in Conns,
              Handle(c) \/ (ClientGone(c) /\ stage[c] # "open")
                \/ (ReadTarget(c) /\ (~up[at[c]] \/ at[c] = TargetCount))
       PROVE  ServerInv'
  BY <1>11, AnswerEnds, RequestEnds
<1>12. CASE \E c \in Conns :
              \/ Accept(c) \/ \E r \in Visited : Request(c, r)
              \/ BodyArrives(c) \/ Handle(c) \/ Stream(c) \/ ReadTarget(c)
              \/ ClientGone(c) \/ Notice(c)
  <2>1. PICK c \in Conns :
              \/ Accept(c) \/ \E r \in Visited : Request(c, r)
              \/ BodyArrives(c) \/ Handle(c) \/ Stream(c) \/ ReadTarget(c)
              \/ ClientGone(c) \/ Notice(c)
    BY <1>12
  <2>2. CASE ReadTarget(c)
    <3>1. CASE ~up[at[c]] \/ at[c] = TargetCount
      BY <1>11, <2>2, <3>1
    <3>2. CASE ~(~up[at[c]] \/ at[c] = TargetCount)
      BY <1>10, <2>2, <3>2
    <3> QED BY <3>1, <3>2
  <2>3. CASE ClientGone(c)
    BY <1>6, <1>11, <2>3
  <2>4. CASE Notice(c)
    BY <1>6, <1>7, <2>4
  <2>5. CASE Handle(c)
    BY <1>11, <2>5
  <2>6. CASE Accept(c) \/ BodyArrives(c) \/ Stream(c) \/ \E r \in Visited : Request(c, r)
    BY <1>5, <1>8, <1>9, <2>6
  <2> QED BY <2>1, <2>2, <2>3, <2>4, <2>5, <2>6
<1> QED BY <1>2, <1>3, <1>12 DEF ServerNext

-----------------------------------------------------------------------------
(* The theorems.                                                           *)

\* The invariant of the server: the records of every connection agree, probes and
\* their history agree, and no permit of a route is lost or made up.
THEOREM ServerInvariant == ServerSpec => []ServerInv
BY ServerInitially, ServerStep, PTL DEF ServerSpec

\* However connections, clients and the shutdown interleave, no request that was
\* taken on is left without an answer unless its client went away.
THEOREM RequestsAreAnswered == ServerSpec => []NoRequestCut
<1>1. ServerInv => NoRequestCut
  BY DEF ServerInv, RequestsAgree, NoRequestCut
<1> QED BY <1>1, ServerInvariant, PTL

\* /readyz says ready only if every target had a shard at some moment of the
\* request, for every number of targets and however their supervisors interleave.
THEOREM ReadinessIsJustified == ServerSpec => ReadyIsJustified
<1>1. ASSUME ServerInv, [ServerNext]_serverVars
      PROVE  [\A c \in Conns : answer[c] = "pending" /\ answer'[c] = "ready"
                                  => was_up[c] = Targets]_serverVars
  <2> SUFFICES ASSUME NEW c \in Conns, answer[c] = "pending", answer'[c] = "ready"
               PROVE  was_up[c] = Targets
    OBVIOUS
  <2>0. /\ answer \in [Conns -> {"none", "pending", "ready", "unavailable"}]
        /\ at[c] \in Targets /\ was_up[c] \subseteq Targets
        /\ TargetCount \in Nat \ {0}
    BY <1>1, ServerAssumption DEF ServerInv, ServerTypes
  <2>1. ReadTarget(c) /\ up[at[c]] /\ at[c] = TargetCount
    <3>1. CASE UNCHANGED serverVars \/ Signal \/ Stop \/ \E t \in Targets : Supervise(t)
      BY <3>1 DEF serverVars, connVars, Signal, Stop, Supervise
    <3>2. ASSUME NEW d \in Conns,
                 \/ Accept(d) \/ \E r \in Visited : Request(d, r)
                 \/ BodyArrives(d) \/ Handle(d) \/ Stream(d)
                 \/ ClientGone(d) \/ Notice(d)
          PROVE  FALSE
      <4>1. \/ UNCHANGED answer
            \/ \E a \in {"none", "pending"} : answer' = [answer EXCEPT ![d] = a]
        BY <3>2 DEF Accept, Request, BodyArrives, Handle, Respond, Stream, ClientGone, Notice
      <4> QED BY <2>0, <4>1
    <3>3. ASSUME NEW d \in Conns, ReadTarget(d)
          PROVE  d = c /\ ReadTarget(c) /\ up[at[c]] /\ at[c] = TargetCount
      <4>1. \/ UNCHANGED answer
            \/ answer' = [answer EXCEPT ![d] = "unavailable"]
            \/ answer' = [answer EXCEPT ![d] = "ready"] /\ up[at[d]] /\ at[d] = TargetCount
        BY <3>3 DEF ReadTarget, Respond, connVars
      <4>2. answer' = [answer EXCEPT ![d] = "ready"] /\ up[at[d]] /\ at[d] = TargetCount
        BY <2>0, <4>1
      <4>3. d = c
        BY <2>0, <4>2
      <4> QED BY <3>3, <4>2, <4>3
    <3> QED BY <1>1, <3>1, <3>2, <3>3 DEF ServerNext
  <2>2. (1 .. at[c] - 1) \cup UpNow \subseteq was_up[c]
    BY <1>1, <2>1 DEF ServerInv, ProbesAgree, Probing, ReadTarget
  <2>3. at[c] \in UpNow
    BY <2>0, <2>1 DEF UpNow
  <2>4. Targets \subseteq (1 .. at[c] - 1) \cup {at[c]}
    BY <2>0, <2>1 DEF Targets
  <2> QED BY <2>0, <2>2, <2>3, <2>4
<1> QED BY <1>1, ServerInvariant, PTL DEF ServerSpec, ReadyIsJustified

\* A step of a route is a step of the limiter it implements, or changes nothing
\* that the limiter sees.
LEMMA LimiterSteps ==
    ASSUME NEW l \in Api, Limited(l), RouteStep(l)
    PROVE  \/ HoldersOf(l)' = HoldersOf(l) /\ waiting'[l] = waiting[l]
           \/ \E u \in Conns :
                 \/ /\ u \notin HoldersOf(l) /\ Cardinality(HoldersOf(l)) < MaxConcurrency
                    /\ waiting[l] = <<>>
                    /\ HoldersOf(l)' = HoldersOf(l) \cup {u} /\ waiting'[l] = waiting[l]
                 \/ /\ u \notin HoldersOf(l) \cup {waiting[l][k] : k \in 1 .. Len(waiting[l])}
                    /\ Cardinality(HoldersOf(l)) = MaxConcurrency
                    /\ waiting'[l] = Append(waiting[l], u) /\ HoldersOf(l)' = HoldersOf(l)
                 \/ /\ \E k \in 1 .. Len(waiting[l]) :
                          waiting[l][k] = u /\ waiting'[l] = RemoveAt(waiting[l], k)
                    /\ HoldersOf(l)' = HoldersOf(l)
                 \/ /\ u \in HoldersOf(l)
                    /\ HoldersOf(l)' = (HoldersOf(l) \ {u}) \cup
                          (IF waiting[l] = <<>> THEN {} ELSE {Head(waiting[l])})
                    /\ waiting'[l] = IF waiting[l] = <<>> THEN waiting[l] ELSE Tail(waiting[l])
<1>1. CASE RouteStays(l)
  BY <1>1 DEF RouteStays
<1>2. ASSUME NEW u \in Conns, RouteEnter(l, u)
      PROVE  Cardinality(HoldersOf(l)) < MaxConcurrency /\ waiting[l] = <<>>
  BY <1>2, LimiterEnters DEF RouteEnter, Limited
<1>3. ASSUME NEW u \in Conns, RouteQueue(l, u)
      PROVE  /\ Cardinality(HoldersOf(l)) = MaxConcurrency
             /\ QueuedOf(l) = {waiting[l][k] : k \in 1 .. Len(waiting[l])}
  <2>1. Cardinality(HoldersOf(l)) = MaxConcurrency
    BY <1>3, LimiterQueues DEF RouteQueue, Limited
  <2> QED BY <2>1 DEF Limited, IsLimited
<1>4. ASSUME NEW u \in Conns, RoutePass(l, u) \/ RouteFree(l, u)
      PROVE  /\ u \in HoldersOf(l)
             /\ HoldersOf(l)' = (HoldersOf(l) \ {u}) \cup
                   (IF waiting[l] = <<>> THEN {} ELSE {Head(waiting[l])})
             /\ waiting'[l] = IF waiting[l] = <<>> THEN waiting[l] ELSE Tail(waiting[l])
  BY <1>4 DEF RoutePass, RouteFree
<1>5. CASE \E u \in Conns : RouteEnter(l, u)
  BY <1>2, <1>5 DEF RouteEnter
<1>6. CASE \E u \in Conns : RouteQueue(l, u)
  BY <1>3, <1>6 DEF RouteQueue
<1>7. CASE \E u \in Conns : RouteGiveUp(l, u)
  BY <1>7 DEF RouteGiveUp
<1>8. CASE \E u \in Conns : RoutePass(l, u) \/ RouteFree(l, u)
  BY <1>4, <1>8
<1> QED BY <1>1, <1>5, <1>6, <1>7, <1>8 DEF RouteStep

\* The concurrency limit of each API route implements Limiter: at most
\* MaxConcurrency of its requests are past it, none waits while there is room, and
\* a permit that comes free goes to the request that has waited longest.
THEOREM RoutesImplementLimiter == ServerSpec => RoutesAreLimited
<1>0. /\ "root" \in Api /\ "command" \in Api
      /\ "pipeline" \in Api /\ "multi_exec" \in Api
  BY DEF Api
<1>1. ServerInit => RootLimiter!LimiterInit
  BY <1>0 DEF ServerInit, RootLimiter!LimiterInit, HoldersOf
<1>2. ServerInv /\ [ServerNext]_serverVars =>
        [RootLimiter!LimiterNext]_(RootLimiter!limiterVars)
  <2> SUFFICES ASSUME ServerInv, [ServerNext]_serverVars
               PROVE  [RootLimiter!LimiterNext]_(RootLimiter!limiterVars)
    OBVIOUS
  <2>1. RouteStep("root") /\ Limited("root")
    BY <1>0, RouteSteps DEF ServerInv
  <2>2. /\ \A S : RootLimiter!Cardinality(S) = Cardinality(S)
        /\ \A s, k : RootLimiter!RemoveAt(s, k) = RemoveAt(s, k)
    BY DEF Cardinality, RootLimiter!Cardinality, RemoveAt, RootLimiter!RemoveAt
  <2> QED
    BY <1>0, <2>1, <2>2, LimiterSteps
    DEF RootLimiter!LimiterNext, RootLimiter!limiterVars, RootLimiter!Enter,
        RootLimiter!Wait, RootLimiter!GiveUp, RootLimiter!Leave,
        RootLimiter!Queueing
<1>3. ServerInit => CommandLimiter!LimiterInit
  BY <1>0 DEF ServerInit, CommandLimiter!LimiterInit, HoldersOf
<1>4. ServerInv /\ [ServerNext]_serverVars =>
        [CommandLimiter!LimiterNext]_(CommandLimiter!limiterVars)
  <2> SUFFICES ASSUME ServerInv, [ServerNext]_serverVars
               PROVE  [CommandLimiter!LimiterNext]_(CommandLimiter!limiterVars)
    OBVIOUS
  <2>1. RouteStep("command") /\ Limited("command")
    BY <1>0, RouteSteps DEF ServerInv
  <2>2. /\ \A S : CommandLimiter!Cardinality(S) = Cardinality(S)
        /\ \A s, k : CommandLimiter!RemoveAt(s, k) = RemoveAt(s, k)
    BY DEF Cardinality, CommandLimiter!Cardinality, RemoveAt, CommandLimiter!RemoveAt
  <2> QED
    BY <1>0, <2>1, <2>2, LimiterSteps
    DEF CommandLimiter!LimiterNext, CommandLimiter!limiterVars, CommandLimiter!Enter,
        CommandLimiter!Wait, CommandLimiter!GiveUp, CommandLimiter!Leave,
        CommandLimiter!Queueing
<1>5. ServerInit => PipelineLimiter!LimiterInit
  BY <1>0 DEF ServerInit, PipelineLimiter!LimiterInit, HoldersOf
<1>6. ServerInv /\ [ServerNext]_serverVars =>
        [PipelineLimiter!LimiterNext]_(PipelineLimiter!limiterVars)
  <2> SUFFICES ASSUME ServerInv, [ServerNext]_serverVars
               PROVE  [PipelineLimiter!LimiterNext]_(PipelineLimiter!limiterVars)
    OBVIOUS
  <2>1. RouteStep("pipeline") /\ Limited("pipeline")
    BY <1>0, RouteSteps DEF ServerInv
  <2>2. /\ \A S : PipelineLimiter!Cardinality(S) = Cardinality(S)
        /\ \A s, k : PipelineLimiter!RemoveAt(s, k) = RemoveAt(s, k)
    BY DEF Cardinality, PipelineLimiter!Cardinality, RemoveAt, PipelineLimiter!RemoveAt
  <2> QED
    BY <1>0, <2>1, <2>2, LimiterSteps
    DEF PipelineLimiter!LimiterNext, PipelineLimiter!limiterVars, PipelineLimiter!Enter,
        PipelineLimiter!Wait, PipelineLimiter!GiveUp, PipelineLimiter!Leave,
        PipelineLimiter!Queueing
<1>7. ServerInit => MultiExecLimiter!LimiterInit
  BY <1>0 DEF ServerInit, MultiExecLimiter!LimiterInit, HoldersOf
<1>8. ServerInv /\ [ServerNext]_serverVars =>
        [MultiExecLimiter!LimiterNext]_(MultiExecLimiter!limiterVars)
  <2> SUFFICES ASSUME ServerInv, [ServerNext]_serverVars
               PROVE  [MultiExecLimiter!LimiterNext]_(MultiExecLimiter!limiterVars)
    OBVIOUS
  <2>1. RouteStep("multi_exec") /\ Limited("multi_exec")
    BY <1>0, RouteSteps DEF ServerInv
  <2>2. /\ \A S : MultiExecLimiter!Cardinality(S) = Cardinality(S)
        /\ \A s, k : MultiExecLimiter!RemoveAt(s, k) = RemoveAt(s, k)
    BY DEF Cardinality, MultiExecLimiter!Cardinality, RemoveAt, MultiExecLimiter!RemoveAt
  <2> QED
    BY <1>0, <2>1, <2>2, LimiterSteps
    DEF MultiExecLimiter!LimiterNext, MultiExecLimiter!limiterVars, MultiExecLimiter!Enter,
        MultiExecLimiter!Wait, MultiExecLimiter!GiveUp, MultiExecLimiter!Leave,
        MultiExecLimiter!Queueing
<1> QED BY <1>1, <1>2, <1>3, <1>4, <1>5, <1>6, <1>7, <1>8, ServerInvariant, PTL
        DEF ServerSpec, RoutesAreLimited, RootLimiter!LimiterSpec, CommandLimiter!LimiterSpec,
            PipelineLimiter!LimiterSpec, MultiExecLimiter!LimiterSpec

\* Never more than the limit are past a route, and nobody queues below it.
EveryRouteFull ==
    \A l \in Api : /\ Cardinality(HoldersOf(l)) <= MaxConcurrency
                   /\ waiting[l] # <<>> => Cardinality(HoldersOf(l)) = MaxConcurrency

\* The permits of the four API routes are kept apart: no traffic on one of them
\* takes a permit of another, or leaves a permit unused while a request waits.
THEOREM EveryRouteIsLimited == ServerSpec => []EveryRouteFull
<1>1. ASSUME ServerInv, NEW l \in Api
      PROVE  /\ Cardinality(HoldersOf(l)) <= MaxConcurrency
             /\ waiting[l] # <<>> => Cardinality(HoldersOf(l)) = MaxConcurrency
  <2>1. Limited(l) /\ HoldersOf(l) \subseteq Conns
    BY <1>1 DEF ServerInv, HoldersOf
  <2>2. Cardinality(HoldersOf(l)) \in Nat
    BY <2>1, ServerAssumption, FS_Subset, FS_CardinalityType
  <2>3. /\ permits[l] \in Nat /\ permits[l] + Cardinality(HoldersOf(l)) = MaxConcurrency
        /\ waiting[l] # <<>> => permits[l] = 0
    BY <2>1 DEF Limited, IsLimited
  <2> QED BY <2>2, <2>3
<1>2. ServerInv => EveryRouteFull
  BY <1>1 DEF EveryRouteFull
<1> QED BY <1>2, ServerInvariant, PTL
=============================================================================
