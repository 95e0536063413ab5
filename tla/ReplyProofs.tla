---------------------------- MODULE ReplyProofs ----------------------------
(***************************************************************************)
(* Proofs about Response, and about the replies Handlers returns: for all  *)
(* values Redis may reply with, however deep, and for every limit.         *)
(***************************************************************************)
EXTENDS HandlersProofs, SecurityPolicyProofs

-----------------------------------------------------------------------------
(* Numbers up to some number, and functions defined along them.            *)

\* Induction up to n.
LEMMA UpTo ==
    ASSUME NEW n \in Nat, NEW S, 0 \in S, \A k \in 0 .. n - 1 : k \in S => k + 1 \in S
    PROVE  \A k \in 0 .. n : k \in S
<1> DEFINE bad == {k \in 0 .. n : k \notin S}
<1> SUFFICES ASSUME bad # {} PROVE FALSE
  OBVIOUS
<1>1. bad \in SUBSET Nat
  OBVIOUS
<1>2. PICK m \in bad : \A k \in bad : m <= k
  BY <1>1, LeastNatural
<1>3. m \in 0 .. n /\ m \notin S /\ m # 0
  BY <1>2
<1>4. m - 1 \in 0 .. n - 1 /\ m - 1 \in 0 .. n /\ m - 1 + 1 = m
  BY <1>3
<1>5. m - 1 \notin bad
  BY <1>2, <1>3, <1>4
<1>6. m - 1 \in S
  BY <1>4, <1>5
<1> QED BY <1>3, <1>4, <1>6

\* From b, n steps of g.
Steps(n, B, b, g) == n \in Nat /\ b \in B /\ g \in [1 .. n -> [B -> B]]
Follows(f, n, B, b, g) ==
    f \in [0 .. n -> B] /\ f[0] = b /\ \A k \in 1 .. n : f[k] = g[k][f[k - 1]]

\* A function defined from each number to the next exists.
LEMMA StepsExist ==
    ASSUME NEW n, NEW B, NEW b, NEW g, Steps(n, B, b, g)
    PROVE  \E f : Follows(f, n, B, b, g)
<1> USE DEF Steps
<1> DEFINE Good(m, f) == f[0] = b /\ \A k \in 1 .. m : f[k] = g[k][f[k - 1]]
           S == {m \in 0 .. n : \E f \in [0 .. m -> B] : Good(m, f)}
<1>1. 0 \in S
  <2> DEFINE h == [k \in 0 .. 0 |-> b]
  <2>1. h \in [0 .. 0 -> B] /\ h[0] = b /\ 0 \in 0 .. n
    OBVIOUS
  <2> HIDE DEF h
  <2>2. Good(0, h)
    BY <2>1
  <2> QED BY <2>1, <2>2
<1>2. ASSUME NEW m \in 0 .. n - 1, m \in S PROVE m + 1 \in S
  <2>1. PICK f \in [0 .. m -> B] : Good(m, f)
    BY <1>2
  <2> DEFINE h == [k \in 0 .. m + 1 |-> IF k = m + 1 THEN g[m + 1][f[m]] ELSE f[k]]
  <2>2. m \in Nat /\ m + 1 \in 1 .. n /\ m + 1 \in 0 .. n
    OBVIOUS
  <2>3. g[m + 1][f[m]] \in B
    <3>1. f[m] \in B
      BY <2>2
    <3>2. g[m + 1] \in [B -> B]
      BY <2>2
    <3> QED BY <3>1, <3>2
  <2>4. h \in [0 .. m + 1 -> B]
    BY <2>2, <2>3
  <2>5. ASSUME NEW k \in 1 .. m + 1 PROVE h[k] = g[k][h[k - 1]]
    <3>1. k - 1 \in 0 .. m /\ k \in 0 .. m + 1 /\ k - 1 # m + 1
      BY <2>2
    <3>2. h[k - 1] = f[k - 1]
      BY <3>1
    <3>3. CASE k = m + 1
      BY <3>2, <3>3, <2>2
    <3>4. CASE k # m + 1
      <4>1. k \in 1 .. m
        BY <3>4, <2>2
      <4>2. h[k] = f[k]
        BY <3>1, <3>4
      <4> QED BY <4>1, <4>2, <3>2, <2>1
    <3> QED BY <3>3, <3>4
  <2>6. h[0] = b
    BY <2>1, <2>2
  <2> HIDE DEF h
  <2>7. Good(m + 1, h)
    BY <2>5, <2>6
  <2> QED BY <2>2, <2>4, <2>7
<1> HIDE DEF S
<1>3. \A k \in 0 .. n : k \in S
  BY <1>1, <1>2, UpTo
<1>4. n \in S
  BY <1>3
<1> QED BY <1>4 DEF S, Follows

-----------------------------------------------------------------------------
(* Sums.                                                                   *)

\* The sums of the first sizes, one size at a time.
Sums(f, sizes) ==
    /\ f \in [0 .. Len(sizes) -> Nat]
    /\ f[0] = 0
    /\ \A k \in 1 .. Len(sizes) : f[k] = f[k - 1] + sizes[k]

LEMMA TotalIs ==
    ASSUME NEW s \in Seq(Nat)
    PROVE  \E f : Sums(f, s) /\ Total(s) = f[Len(s)]
<1> DEFINE n == Len(s)
           g == [k \in 1 .. n |-> [a \in Nat |-> a + s[k]]]
           Def(u) == [k \in 0 .. n |-> IF k = 0 THEN 0 ELSE u[k - 1] + s[k]]
           u == CHOOSE u : u = Def(u)
<1>1. n \in Nat /\ \A k \in 1 .. n : s[k] \in Nat
  OBVIOUS
<1>2. g \in [1 .. n -> [Nat -> Nat]]
  BY <1>1
<1>3. PICK f \in [0 .. n -> Nat] : f[0] = 0 /\ \A k \in 1 .. n : f[k] = g[k][f[k - 1]]
  <2> HIDE DEF g, n
  <2>1. Steps(n, Nat, 0, g)
    BY <1>1, <1>2 DEF Steps
  <2>2. PICK f : Follows(f, n, Nat, 0, g)
    BY <2>1, StepsExist
  <2> QED BY <2>2 DEF Follows
<1>4. \A k \in 1 .. n : f[k] = f[k - 1] + s[k]
  <2> SUFFICES ASSUME NEW k \in 1 .. n PROVE f[k] = f[k - 1] + s[k]
    OBVIOUS
  <2>1. k - 1 \in 0 .. n
    BY <1>1
  <2>2. f[k - 1] \in Nat
    BY <1>3, <2>1
  <2> QED BY <1>3, <2>2
<1> HIDE DEF g, n
<1>5. f = Def(f)
  <2>1. \A k \in 0 .. n : f[k] = Def(f)[k]
    BY <1>1, <1>3, <1>4
  <2> QED BY <2>1
<1>6. u = Def(u)
  <2> HIDE DEF Def
  <2> QED BY <1>5
<1> HIDE DEF u
<1>7. \A k \in 0 .. n : u[k] = IF k = 0 THEN 0 ELSE u[k - 1] + s[k]
  BY <1>6
<1>8. \A k \in 0 .. n : u[k] = f[k]
  <2> DEFINE S == {k \in 0 .. n : u[k] = f[k]}
  <2>1. 0 \in S
    BY <1>1, <1>3, <1>7
  <2>2. ASSUME NEW k \in 0 .. n - 1, k \in S PROVE k + 1 \in S
    <3>1. k + 1 \in 0 .. n /\ k + 1 \in 1 .. n /\ k + 1 # 0 /\ k + 1 - 1 = k
      BY <1>1
    <3> QED BY <2>2, <3>1, <1>4, <1>7
  <2> HIDE DEF S
  <2>3. \A k \in 0 .. n : k \in S
    BY <1>1, <2>1, <2>2, UpTo
  <2> QED BY <2>3 DEF S
<1>9. Total(s) = u[n]
  BY DEF Total, u, n
<1> QED BY <1>1, <1>3, <1>4, <1>8, <1>9 DEF Sums, n

\* The sum of a sequence does not depend on how it was found.
LEMMA SumsAgree ==
    ASSUME NEW s \in Seq(Nat), NEW f, Sums(f, s)
    PROVE  Total(s) = f[Len(s)]
<1>1. PICK h : Sums(h, s) /\ Total(s) = h[Len(s)]
  BY TotalIs
<1> DEFINE n == Len(s)
           S == {k \in 0 .. n : f[k] = h[k]}
<1>2. n \in Nat
  OBVIOUS
<1>3. 0 \in S
  BY <1>1, <1>2 DEF Sums
<1>4. ASSUME NEW k \in 0 .. n - 1, k \in S PROVE k + 1 \in S
  <2>1. k + 1 \in 0 .. n /\ k + 1 \in 1 .. n /\ k + 1 - 1 = k
    BY <1>2
  <2> QED BY <1>1, <1>4, <2>1 DEF Sums
<1> HIDE DEF S
<1>5. \A k \in 0 .. n : k \in S
  <2> HIDE DEF n
  <2> QED BY <1>2, <1>3, <1>4, UpTo
<1> QED BY <1>1, <1>2, <1>5 DEF S

LEMMA TotalNat == ASSUME NEW s \in Seq(Nat) PROVE Total(s) \in Nat
BY TotalIs DEF Sums

\* No element is more than the sum.
LEMMA TotalBounds ==
    ASSUME NEW s \in Seq(Nat), NEW k \in 1 .. Len(s)
    PROVE  s[k] <= Total(s)
<1>1. PICK f : Sums(f, s) /\ Total(s) = f[Len(s)]
  BY TotalIs
<1> DEFINE n == Len(s)
           S == {i \in 0 .. n : i >= k => f[i] >= s[k]}
<1>2. n \in Nat /\ k \in 1 .. n /\ \A i \in 1 .. n : s[i] \in Nat
  OBVIOUS
<1>3. f \in [0 .. n -> Nat] /\ \A i \in 1 .. n : f[i] = f[i - 1] + s[i]
  BY <1>1 DEF Sums
<1> HIDE DEF n
<1>4. 0 \in S
  BY <1>2
<1>5. ASSUME NEW i \in 0 .. n - 1, i \in S PROVE i + 1 \in S
  <2>1. i \in 0 .. n /\ i + 1 \in 0 .. n /\ i + 1 \in 1 .. n /\ i + 1 - 1 = i
    BY <1>2
  <2>2. f[i + 1] = f[i] + s[i + 1] /\ f[i] \in Nat /\ s[i + 1] \in Nat
    BY <1>2, <1>3, <2>1
  <2>3. i + 1 >= k => f[i + 1] >= s[k]
    <3>1. CASE i >= k
      BY <1>2, <1>5, <2>2, <3>1
    <3>2. CASE i + 1 = k
      BY <1>2, <2>2, <3>2
    <3> QED BY <1>2, <2>1, <3>1, <3>2
  <2> QED BY <2>1, <2>3
<1> HIDE DEF S
<1>6. \A i \in 0 .. n : i \in S
  BY <1>2, <1>4, <1>5, UpTo
<1>7. n \in S /\ n >= k
  BY <1>2, <1>6
<1> QED BY <1>1, <1>7 DEF S, n

\* The sum of two sequences, one after the other.
LEMMA TotalConcat ==
    ASSUME NEW s \in Seq(Nat), NEW t \in Seq(Nat)
    PROVE  s \o t \in Seq(Nat) /\ Total(s \o t) = Total(s) + Total(t)
<1> DEFINE m == Len(s)
           n == Len(t)
           c == s \o t
<1>1. PICK f : Sums(f, s) /\ Total(s) = f[m]
  BY TotalIs
<1>2. PICK g : Sums(g, t) /\ Total(t) = g[n]
  BY TotalIs
<1>3. /\ m \in Nat /\ n \in Nat
      /\ c \in Seq(Nat) /\ Len(c) = m + n
      /\ \A k \in 1 .. m : c[k] = s[k]
      /\ \A k \in 1 .. n : c[m + k] = t[k]
  <2>1. /\ c \in Seq(Nat) /\ Len(c) = m + n
        /\ \A k \in 1 .. m + n : c[k] = IF k <= m THEN s[k] ELSE t[k - m]
    BY ConcatProperties
  <2>2. m \in Nat /\ n \in Nat
    OBVIOUS
  <2> HIDE DEF m, n, c
  <2>3. \A k \in 1 .. m : k \in 1 .. m + n /\ k <= m
    BY <2>2
  <2>4. \A k \in 1 .. n : m + k \in 1 .. m + n /\ ~(m + k <= m) /\ m + k - m = k
    BY <2>2
  <2> QED BY <2>1, <2>2, <2>3, <2>4
<1>4. /\ f \in [0 .. m -> Nat] /\ f[0] = 0
      /\ \A k \in 1 .. m : f[k] = f[k - 1] + s[k]
      /\ g \in [0 .. n -> Nat] /\ g[0] = 0
      /\ \A k \in 1 .. n : g[k] = g[k - 1] + t[k]
  BY <1>1, <1>2 DEF Sums
<1>5. \A k \in 1 .. n : t[k] \in Nat
  OBVIOUS
<1> HIDE DEF m, n, c
<1> DEFINE h == [k \in 0 .. m + n |-> IF k <= m THEN f[k] ELSE f[m] + g[k - m]]
<1>6. f[m] \in Nat /\ \A k \in 0 .. n : g[k] \in Nat
  BY <1>3, <1>4
<1>7. h \in [0 .. m + n -> Nat]
  <2> SUFFICES ASSUME NEW k \in 0 .. m + n PROVE (IF k <= m THEN f[k] ELSE f[m] + g[k - m]) \in Nat
    OBVIOUS
  <2>1. CASE k <= m
    BY <1>3, <1>4, <2>1
  <2>2. CASE ~(k <= m)
    <3>1. k - m \in 0 .. n
      BY <1>3, <2>2
    <3> QED BY <1>6, <2>2, <3>1
  <2> QED BY <2>1, <2>2
<1>8. ASSUME NEW k \in 1 .. m + n PROVE h[k] = h[k - 1] + c[k]
  <2>1. CASE k <= m
    <3>1. k \in 1 .. m /\ k - 1 \in 0 .. m + n /\ k - 1 <= m /\ k \in 0 .. m + n
      BY <1>3, <2>1
    <3> QED BY <1>3, <1>4, <3>1
  <2>2. CASE k = m + 1
    <3>1. /\ k \in 0 .. m + n /\ ~(k <= m) /\ k - m = 1 /\ 1 \in 1 .. n
          /\ k - 1 = m /\ m \in 0 .. m + n /\ m <= m
      BY <1>3, <2>2
    <3>2. h[k] = f[m] + g[1] /\ h[k - 1] = f[m]
      BY <3>1
    <3>3. g[1] = t[1] /\ c[k] = t[1] /\ t[1] \in Nat
      <4>1. g[1] = g[1 - 1] + t[1] /\ t[1] \in Nat /\ 1 - 1 = 0
        BY <1>4, <1>5, <3>1
      <4>2. c[m + 1] = t[1]
        BY <1>3, <3>1
      <4> QED BY <1>4, <2>2, <4>1, <4>2
    <3> QED BY <1>6, <3>2, <3>3
  <2>3. CASE k > m + 1
    <3> DEFINE i == k - m
    <3>1. /\ k \in 0 .. m + n /\ ~(k <= m) /\ i \in 1 .. n
          /\ k - 1 \in 0 .. m + n /\ ~(k - 1 <= m) /\ k - 1 - m = i - 1
          /\ k = m + i /\ i - 1 \in 0 .. n
      BY <1>3, <2>3
    <3>2. h[k] = f[m] + g[i] /\ h[k - 1] = f[m] + g[i - 1]
      BY <3>1
    <3> HIDE DEF i, h
    <3>3. g[i] = g[i - 1] + t[i] /\ c[k] = t[i] /\ t[i] \in Nat /\ g[i - 1] \in Nat
      BY <1>3, <1>4, <1>5, <1>6, <3>1
    <3> DEFINE x == f[m]
               y == g[i - 1]
               z == t[i]
    <3>4. h[k] = x + g[i] /\ h[k - 1] = x + y /\ g[i] = y + z /\ c[k] = z
      BY <3>2, <3>3
    <3>5. x \in Nat /\ y \in Nat /\ z \in Nat
      BY <1>6, <3>3
    <3> HIDE DEF x, y, z
    <3>6. h[k] = x + (y + z) /\ h[k - 1] + c[k] = (x + y) + z
      BY <3>4
    <3> QED BY <3>5, <3>6
  <2> QED BY <1>3, <2>1, <2>2, <2>3
<1>9. h[0] = 0 /\ h[m + n] = f[m] + g[n]
  <2>1. 0 \in 0 .. m + n /\ 0 <= m /\ m + n \in 0 .. m + n
    BY <1>3
  <2>2. CASE n = 0
    BY <1>3, <1>4, <1>6, <2>1, <2>2
  <2>3. CASE n # 0
    <3>1. ~(m + n <= m) /\ m + n - m = n
      BY <1>3, <2>3
    <3>2. h[m + n] = f[m] + g[n]
      <4>1. PICK q \in 0 .. m + n : q = m + n
        BY <2>1
      <4>2. h[q] = f[m] + g[q - m]
        BY <3>1, <4>1
      <4>3. q - m = n
        BY <1>3, <4>1
      <4>4. h[q] = f[m] + g[n]
        BY <4>2, <4>3
      <4> QED BY <4>1, <4>4
    <3>3. h[0] = f[0]
      BY <2>1
    <3> QED BY <1>4, <3>2, <3>3
  <2> QED BY <2>2, <2>3
<1> HIDE DEF h
<1>10. Sums(h, c)
  BY <1>3, <1>7, <1>8, <1>9 DEF Sums
<1>11. Total(c) = h[m + n]
  BY <1>3, <1>10, SumsAgree
<1> QED BY <1>1, <1>2, <1>3, <1>9, <1>11 DEF c

\* Sums of a few sizes.
LEMMA TotalFew ==
    /\ Total(<<>>) = 0
    /\ \A a \in Nat : <<a>> \in Seq(Nat) /\ Total(<<a>>) = a
    /\ \A a, b, c \in Nat : <<a, b, c>> \in Seq(Nat) /\ Total(<<a, b, c>>) = a + b + c
    /\ \A a, b, c, d \in Nat :
          <<a, b, c, d>> \in Seq(Nat) /\ Total(<<a, b, c, d>>) = a + b + c + d
<1>1. Total(<<>>) = 0
  <2>1. <<>> \in Seq(Nat) /\ Len(<<>>) = 0
    OBVIOUS
  <2> QED BY <2>1, TotalIs DEF Sums
<1>2. ASSUME NEW a \in Nat PROVE <<a>> \in Seq(Nat) /\ Total(<<a>>) = a
  <2> DEFINE s == <<a>>
  <2>1. s \in Seq(Nat) /\ Len(s) = 1 /\ s[1] = a
    OBVIOUS
  <2> HIDE DEF s
  <2>2. PICK f : Sums(f, s) /\ Total(s) = f[1]
    BY <2>1, TotalIs
  <2>3. f[1] = f[1 - 1] + a /\ f[0] = 0
    BY <2>1, <2>2 DEF Sums
  <2> QED BY <2>1, <2>2, <2>3 DEF s
<1>3. ASSUME NEW a \in Nat, NEW b \in Nat, NEW c \in Nat
      PROVE  <<a, b, c>> \in Seq(Nat) /\ Total(<<a, b, c>>) = a + b + c
  <2> DEFINE s == <<a, b, c>>
  <2>1. s \in Seq(Nat) /\ Len(s) = 3 /\ s[1] = a /\ s[2] = b /\ s[3] = c
    OBVIOUS
  <2> HIDE DEF s
  <2>2. PICK f : Sums(f, s) /\ Total(s) = f[3]
    BY <2>1, TotalIs
  <2>3. f[0] = 0 /\ f[1] = f[0] + a /\ f[2] = f[1] + b /\ f[3] = f[2] + c
    BY <2>1, <2>2 DEF Sums
  <2> QED BY <2>1, <2>2, <2>3 DEF s
<1>4. ASSUME NEW a \in Nat, NEW b \in Nat, NEW c \in Nat, NEW d \in Nat
      PROVE  <<a, b, c, d>> \in Seq(Nat) /\ Total(<<a, b, c, d>>) = a + b + c + d
  <2> DEFINE s == <<a, b, c, d>>
  <2>1. s \in Seq(Nat) /\ Len(s) = 4 /\ s[1] = a /\ s[2] = b /\ s[3] = c /\ s[4] = d
    OBVIOUS
  <2> HIDE DEF s
  <2>2. PICK f : Sums(f, s) /\ Total(s) = f[4]
    BY <2>1, TotalIs
  <2>3. f[0] = 0 /\ f[1] = f[0] + a /\ f[2] = f[1] + b /\ f[3] = f[2] + c /\ f[4] = f[3] + d
    BY <2>1, <2>2 DEF Sums
  <2> QED BY <2>1, <2>2, <2>3 DEF s
<1> QED BY <1>1, <1>2, <1>3, <1>4

-----------------------------------------------------------------------------
(* The limit, and the separators.                                          *)

\* LimitBody::write after write: the limit is exceeded exactly when all the
\* writes together exceed it, however they are cut.
LEMMA LimitIsOnTheSum ==
    ASSUME NEW s \in Seq(Nat), NEW max \in Nat
    PROVE  LimitBody(s, max).exceeded <=> Total(s) > max
<1> DEFINE n == Len(s)
           B == [written : Nat, exceeded : BOOLEAN]
           g == [k \in 1 .. n |-> [a \in B |-> Write(a, s[k], max)]]
           Def(u) == [k \in 0 .. n |-> IF k = 0 THEN NewBody ELSE Write(u[k - 1], s[k], max)]
           u == CHOOSE u : u = Def(u)
<1>1. n \in Nat /\ \A k \in 1 .. n : s[k] \in Nat
  OBVIOUS
<1>2. PICK f : Sums(f, s) /\ Total(s) = f[n]
  BY TotalIs
<1>3. /\ f \in [0 .. n -> Nat] /\ f[0] = 0
      /\ \A k \in 1 .. n : f[k] = f[k - 1] + s[k]
  BY <1>2 DEF Sums
<1> HIDE DEF n
<1>4. ASSUME NEW a \in B, NEW i \in Nat
      PROVE  /\ Write(a, i, max) \in B
             /\ Write(a, i, max).exceeded <=> a.exceeded \/ a.written + i > max
             /\ ~Write(a, i, max).exceeded => Write(a, i, max).written = a.written + i
  <2> DEFINE x == a.written
             e == a.exceeded
  <2>1. a = [written |-> x, exceeded |-> e] /\ x \in Nat /\ e \in BOOLEAN
    OBVIOUS
  <2> HIDE DEF x, e
  <2>2. a.written = x /\ a.exceeded = e
    BY DEF x, e
  <2>3. CASE e \/ i > max - x
    <3>1. Write(a, i, max) = [a EXCEPT !.exceeded = TRUE]
      BY <2>2, <2>3 DEF Write
    <3>2. Write(a, i, max) = [written |-> x, exceeded |-> TRUE]
      BY <2>1, <3>1
    <3>3. e \/ x + i > max
      BY <2>1, <2>3
    <3>4. PICK w : w = [written |-> x, exceeded |-> TRUE]
      OBVIOUS
    <3>5. w \in B /\ w.exceeded
      BY <2>1, <3>4
    <3> QED BY <2>2, <3>2, <3>3, <3>4, <3>5
  <2>4. CASE ~(e \/ i > max - x)
    <3>1. Write(a, i, max) = [a EXCEPT !.written = a.written + i]
      BY <2>2, <2>4 DEF Write
    <3>2. Write(a, i, max) = [written |-> x + i, exceeded |-> e]
      BY <2>1, <2>2, <3>1
    <3>3. ~e /\ ~(x + i > max) /\ x + i \in Nat
      BY <2>1, <2>4
    <3> QED BY <2>1, <2>2, <3>2, <3>3
  <2> QED BY <2>3, <2>4
<1>5. NewBody \in B /\ NewBody.written = 0 /\ ~NewBody.exceeded
  BY DEF NewBody
<1> HIDE DEF B
<1>6. PICK w \in [0 .. n -> B] : w[0] = NewBody /\ \A k \in 1 .. n : w[k] = g[k][w[k - 1]]
  <2>1. g \in [1 .. n -> [B -> B]]
    BY <1>1, <1>4
  <2> HIDE DEF g
  <2>2. Steps(n, B, NewBody, g)
    BY <1>1, <1>5, <2>1 DEF Steps
  <2>3. PICK w : Follows(w, n, B, NewBody, g)
    BY <2>2, StepsExist
  <2> QED BY <2>3 DEF Follows
<1>7. \A k \in 1 .. n : w[k - 1] \in B /\ w[k] = Write(w[k - 1], s[k], max)
  <2> SUFFICES ASSUME NEW k \in 1 .. n
               PROVE  w[k - 1] \in B /\ w[k] = Write(w[k - 1], s[k], max)
    OBVIOUS
  <2>1. k - 1 \in 0 .. n
    BY <1>1
  <2>2. w[k - 1] \in B
    BY <1>6, <2>1
  <2> QED BY <1>6, <2>2
<1> HIDE DEF g
<1>8. u = Def(u)
  <2>1. w = Def(w)
    <3>1. \A k \in 0 .. n : w[k] = Def(w)[k]
      <4> SUFFICES ASSUME NEW k \in 0 .. n PROVE w[k] = Def(w)[k]
        OBVIOUS
      <4>1. CASE k = 0
        BY <1>6, <4>1
      <4>2. CASE k # 0
        <5>1. k \in 1 .. n
          BY <1>1, <4>2
        <5> QED BY <1>7, <4>2, <5>1
      <4> QED BY <4>1, <4>2
    <3> QED BY <3>1
  <2> HIDE DEF Def
  <2> QED BY <2>1
<1> HIDE DEF u
<1>9. \A k \in 0 .. n : u[k] = IF k = 0 THEN NewBody ELSE Write(u[k - 1], s[k], max)
  BY <1>8
<1> DEFINE Sofar(k) == /\ u[k] \in B
                       /\ u[k].written \in Nat
                       /\ u[k].exceeded <=> f[k] > max
                       /\ ~u[k].exceeded => u[k].written = f[k]
           S == {k \in 0 .. n : Sofar(k)}
<1>10. 0 \in S
  <2>1. u[0] = NewBody /\ 0 \in 0 .. n
    BY <1>1, <1>9
  <2> QED BY <1>3, <1>5, <2>1
<1>11. ASSUME NEW k \in 0 .. n - 1, k \in S PROVE k + 1 \in S
  <2>1. k + 1 \in 0 .. n /\ k \in 0 .. n /\ k + 1 \in 1 .. n /\ k + 1 # 0 /\ k + 1 - 1 = k
    BY <1>1
  <2> DEFINE i == s[k + 1]
             a == u[k]
             b == u[k + 1]
  <2>2. b = Write(a, i, max) /\ i \in Nat
    BY <1>1, <1>9, <2>1
  <2>3. f[k + 1] = f[k] + i /\ f[k] \in Nat
    BY <1>3, <2>1, SMTT(30)
  <2>4. /\ a \in B /\ a.written \in Nat
        /\ a.exceeded <=> f[k] > max
        /\ ~a.exceeded => a.written = f[k]
    BY <1>11
  <2> HIDE DEF i, a, b
  <2>5. /\ b \in B
        /\ b.exceeded <=> a.exceeded \/ a.written + i > max
        /\ ~b.exceeded => b.written = a.written + i
    BY <1>4, <2>2, <2>4
  <2>6. b.exceeded <=> f[k + 1] > max
    BY <2>2, <2>3, <2>4, <2>5
  <2>7. ~b.exceeded => b.written = f[k + 1]
    BY <2>2, <2>3, <2>4, <2>5
  <2>8. b.written \in Nat
    BY <2>5 DEF B
  <2> QED BY <2>1, <2>5, <2>6, <2>7, <2>8 DEF b
<1> HIDE DEF S
<1>12. n \in S
  <2>1. \A k \in 0 .. n : k \in S
    BY <1>1, <1>10, <1>11, UpTo
  <2> QED BY <1>1, <2>1
<1>13. u[n].exceeded <=> f[n] > max
  BY <1>12 DEF S
<1>14. LimitBody(s, max) = u[n]
  BY DEF LimitBody, u, n
<1> QED BY <1>2, <1>13, <1>14

\* Parts one after the other: their sizes, and a byte for each comma between.
LEMMA SeparatedIs ==
    ASSUME NEW parts \in Seq(Seq(Nat))
    PROVE  /\ Separated(parts) \in Seq(Nat)
           /\ [k \in 1 .. Len(parts) |-> Total(parts[k])] \in Seq(Nat)
           /\ Total(Separated(parts)) =
                 Commas(Len(parts)) + Total([k \in 1 .. Len(parts) |-> Total(parts[k])])
<1> DEFINE n == Len(parts)
           t == [k \in 1 .. n |-> Total(parts[k])]
           Comma(k) == IF k = 1 THEN <<>> ELSE <<1>>
           Def(u) == [k \in 0 .. n |-> IF k = 0 THEN <<>> ELSE u[k - 1] \o Comma(k) \o parts[k]]
           u == CHOOSE u : u = Def(u)
           g == [k \in 1 .. n |-> [a \in Seq(Nat) |-> a \o Comma(k) \o parts[k]]]
<1>1. n \in Nat /\ \A k \in 1 .. n : parts[k] \in Seq(Nat)
  OBVIOUS
<1>2. t \in Seq(Nat) /\ Len(t) = n /\ \A k \in 1 .. n : t[k] = Total(parts[k])
  <2>1. t \in [1 .. n -> Nat]
    BY <1>1, TotalNat
  <2> HIDE DEF n
  <2> QED BY <1>1, <2>1
<1>3. \A k : /\ Comma(k) \in Seq(Nat)
            /\ Total(Comma(k)) = IF k = 1 THEN 0 ELSE 1
  <2>1. <<>> \in Seq(Nat)
    OBVIOUS
  <2> QED BY <2>1, TotalFew
<1> HIDE DEF n, Comma
<1>4. ASSUME NEW a \in Seq(Nat), NEW k \in 1 .. n
      PROVE  /\ a \o Comma(k) \o parts[k] \in Seq(Nat)
             /\ Total(a \o Comma(k) \o parts[k]) = Total(a) + (IF k = 1 THEN 0 ELSE 1) + Total(parts[k])
  <2>1. a \o Comma(k) \in Seq(Nat) /\ Total(a \o Comma(k)) = Total(a) + (IF k = 1 THEN 0 ELSE 1)
    BY <1>3, TotalConcat
  <2> QED BY <1>1, <2>1, TotalConcat
<1>5. PICK w \in [0 .. n -> Seq(Nat)] : w[0] = <<>> /\ \A k \in 1 .. n : w[k] = g[k][w[k - 1]]
  <2>1. g \in [1 .. n -> [Seq(Nat) -> Seq(Nat)]]
    BY <1>4
  <2>2. <<>> \in Seq(Nat)
    OBVIOUS
  <2> HIDE DEF g
  <2>3. Steps(n, Seq(Nat), <<>>, g)
    BY <1>1, <2>1, <2>2 DEF Steps
  <2>4. PICK w : Follows(w, n, Seq(Nat), <<>>, g)
    BY <2>3, StepsExist
  <2> QED BY <2>4 DEF Follows
<1>6. \A k \in 1 .. n : w[k - 1] \in Seq(Nat) /\ w[k] = w[k - 1] \o Comma(k) \o parts[k]
  <2> SUFFICES ASSUME NEW k \in 1 .. n
               PROVE  w[k - 1] \in Seq(Nat) /\ w[k] = w[k - 1] \o Comma(k) \o parts[k]
    OBVIOUS
  <2>1. k - 1 \in 0 .. n
    BY <1>1
  <2>2. w[k - 1] \in Seq(Nat)
    BY <1>5, <2>1
  <2> QED BY <1>5, <2>2
<1> HIDE DEF g
<1>7. u = Def(u)
  <2>1. w = Def(w)
    <3>1. \A k \in 0 .. n : w[k] = Def(w)[k]
      <4> SUFFICES ASSUME NEW k \in 0 .. n PROVE w[k] = Def(w)[k]
        OBVIOUS
      <4>1. CASE k = 0
        BY <1>5, <4>1
      <4>2. CASE k # 0
        <5>1. k \in 1 .. n
          BY <1>1, <4>2
        <5> QED BY <1>6, <4>2, <5>1
      <4> QED BY <4>1, <4>2
    <3> QED BY <3>1
  <2> HIDE DEF Def
  <2> QED BY <2>1
<1> HIDE DEF u
<1>8. \A k \in 0 .. n : u[k] = IF k = 0 THEN <<>> ELSE u[k - 1] \o Comma(k) \o parts[k]
  BY <1>7
<1> HIDE DEF t
<1>9. PICK f : Sums(f, t) /\ Total(t) = f[n]
  BY <1>2, TotalIs
<1>10. /\ f \in [0 .. n -> Nat] /\ f[0] = 0
       /\ \A k \in 1 .. n : f[k] = f[k - 1] + Total(parts[k])
  BY <1>2, <1>9 DEF Sums
<1> DEFINE S == {k \in 0 .. n : u[k] \in Seq(Nat) /\ Total(u[k]) = Commas(k) + f[k]}
<1>11. 0 \in S
  <2>1. u[0] = <<>> /\ 0 \in 0 .. n
    BY <1>1, <1>8
  <2>2. u[0] \in Seq(Nat) /\ Total(u[0]) = 0
    BY <2>1, TotalFew
  <2>3. Commas(0) = 0
    BY DEF Commas
  <2>4. Total(u[0]) = Commas(0) + f[0]
    BY <1>10, <2>2, <2>3
  <2> QED BY <2>1, <2>2, <2>4
<1>12. ASSUME NEW k \in 0 .. n - 1, k \in S PROVE k + 1 \in S
  <2>1. k \in Nat /\ k \in 0 .. n /\ k + 1 \in 0 .. n /\ k + 1 \in 1 .. n /\ k + 1 # 0 /\ k + 1 - 1 = k
    BY <1>1
  <2> DEFINE a == u[k]
             b == u[k + 1]
             p == Total(parts[k + 1])
  <2>2. a \in Seq(Nat) /\ Total(a) = Commas(k) + f[k]
    BY <1>12
  <2>3. b = a \o Comma(k + 1) \o parts[k + 1]
    <3>1. PICK q \in 0 .. n : q = k + 1
      BY <2>1
    <3>2. q - 1 = k /\ q # 0
      BY <2>1, <3>1
    <3>3. u[q] = u[q - 1] \o Comma(q) \o parts[q]
      BY <1>8, <3>2, Zenon
    <3> QED BY <3>1, <3>2, <3>3
  <2>4. f[k + 1] = f[k] + p /\ f[k] \in Nat /\ p \in Nat
    <3>1. PICK q \in 1 .. n : q = k + 1
      BY <2>1
    <3>2. f[q] = f[q - 1] + Total(parts[q]) /\ q - 1 = k /\ f[k] \in Nat
      BY <1>10, <2>1, <3>1
    <3>3. parts[q] \in Seq(Nat)
      BY <1>1
    <3> QED BY <3>1, <3>2, <3>3, TotalNat
  <2> HIDE DEF a
  <2>5. b \in Seq(Nat) /\ Total(b) = Total(a) + (IF k + 1 = 1 THEN 0 ELSE 1) + p
    BY <1>4, <2>1, <2>2, <2>3
  <2> HIDE DEF b, p
  <2>6. Commas(k + 1) = Commas(k) + (IF k + 1 = 1 THEN 0 ELSE 1) /\ Commas(k) \in Nat
    BY <2>1 DEF Commas
  <2>7. Total(b) = Commas(k + 1) + f[k + 1]
    <3> DEFINE x == Commas(k)
               y == f[k]
               one == IF k + 1 = 1 THEN 0 ELSE 1
    <3>1. x \in Nat /\ y \in Nat /\ p \in Nat /\ one \in Nat
      BY <2>4, <2>6
    <3>2. Total(b) = (x + y) + one + p /\ Commas(k + 1) = x + one /\ f[k + 1] = y + p
      BY <2>2, <2>4, <2>5, <2>6
    <3> HIDE DEF x, y, one
    <3> QED BY <3>1, <3>2
  <2> QED BY <2>1, <2>5, <2>7 DEF b
<1> HIDE DEF S
<1>13. n \in S
  <2>1. \A k \in 0 .. n : k \in S
    BY <1>1, <1>11, <1>12, UpTo
  <2> QED BY <1>1, <2>1
<1>14. u[n] \in Seq(Nat) /\ Total(u[n]) = Commas(n) + Total(t)
  BY <1>9, <1>13 DEF S
<1>15. Separated(parts) = u[n]
  BY DEF Separated, u, n, Comma
<1> QED BY <1>2, <1>14, <1>15 DEF t, n

-----------------------------------------------------------------------------
(* JSON texts.                                                             *)

\* What is true of a text whenever it is of all smaller ones is true of all.
LEMMA JsonInduction ==
    ASSUME NEW S,
           \A j \in JsonTexts :
               (\A i \in JsonTexts : SizeOf(i) < SizeOf(j) => i \in S) => j \in S
    PROVE  \A j \in JsonTexts : j \in S
<1> DEFINE bad == {j \in JsonTexts : j \notin S}
           sizes == {SizeOf(j) : j \in bad}
<1> SUFFICES ASSUME bad # {} PROVE FALSE
  OBVIOUS
<1>1. \A j \in JsonTexts : SizeOf(j) \in Nat
  BY ResponseAssumption
<1>2. sizes \in SUBSET Nat /\ sizes # {}
  BY <1>1
<1>3. PICK n \in sizes : \A m \in sizes : n <= m
  BY <1>2, LeastNatural
<1>4. PICK j \in bad : SizeOf(j) = n
  BY <1>3
<1>5. ASSUME NEW i \in JsonTexts, SizeOf(i) < SizeOf(j) PROVE i \in S
  <2> SUFFICES ASSUME i \notin S PROVE FALSE
    OBVIOUS
  <2>1. SizeOf(i) \in sizes
    OBVIOUS
  <2>2. SizeOf(j) <= SizeOf(i)
    BY <1>3, <1>4, <2>1
  <2> QED BY <1>1, <1>5, <2>2
<1> QED BY <1>4, <1>5

\* The items of an array are texts, each smaller than the array.
LEMMA ArrayParts ==
    ASSUME NEW j \in JsonTexts, j.json = "array"
    PROVE  /\ Len(j.items) \in Nat
           /\ \A k \in 1 .. Len(j.items) :
                 j.items[k] \in JsonTexts /\ SizeOf(j.items[k]) < SizeOf(j)
           /\ [k \in 1 .. Len(j.items) |-> SizeOf(j.items[k])] \in Seq(Nat)
           /\ SizeOf(j) = 2 + Commas(Len(j.items))
                             + Total([k \in 1 .. Len(j.items) |-> SizeOf(j.items[k])])
<1> DEFINE items == j.items
           n == Len(items)
           sizes == [k \in 1 .. n |-> SizeOf(items[k])]
<1>1. items \in Seq(JsonTexts)
  BY ResponseAssumption DEF IsJson
<1>2. SizeOf(j) = SizeFrom(j) /\ \A i \in JsonTexts : SizeOf(i) \in Nat
  BY ResponseAssumption
<1>3. SizeOf(j) = 2 + Commas(n) + Total(sizes)
  BY <1>2 DEF SizeFrom
<1> HIDE DEF items
<1>4. n \in Nat /\ \A k \in 1 .. n : items[k] \in JsonTexts
  BY <1>1
<1> HIDE DEF n
<1>5. sizes \in Seq(Nat) /\ Len(sizes) = n /\ \A k \in 1 .. n : sizes[k] = SizeOf(items[k])
  <2>1. sizes \in [1 .. n -> Nat]
    BY <1>2, <1>4
  <2> QED BY <1>4, <2>1
<1> HIDE DEF sizes
<1>6. \A k \in 1 .. n : SizeOf(items[k]) < SizeOf(j)
  <2> SUFFICES ASSUME NEW k \in 1 .. n PROVE SizeOf(items[k]) < SizeOf(j)
    OBVIOUS
  <2>1. SizeOf(items[k]) <= Total(sizes)
    BY <1>5, TotalBounds
  <2>2. Total(sizes) \in Nat /\ Commas(n) \in Nat /\ SizeOf(items[k]) \in Nat
    BY <1>2, <1>4, <1>5, TotalNat DEF Commas
  <2> QED BY <1>3, <2>1, <2>2
<1> QED BY <1>3, <1>4, <1>5, <1>6 DEF items, n, sizes

\* So are the values of an object.
LEMMA ObjectParts ==
    ASSUME NEW j \in JsonTexts, j.json = "object"
    PROVE  /\ Len(j.fields) \in Nat
           /\ \A k \in 1 .. Len(j.fields) :
                 /\ Len(j.fields[k][1]) \in Nat
                 /\ j.fields[k][2] \in JsonTexts /\ SizeOf(j.fields[k][2]) < SizeOf(j)
           /\ [k \in 1 .. Len(j.fields) |-> Len(j.fields[k][1]) + 3 + SizeOf(j.fields[k][2])]
                 \in Seq(Nat)
           /\ SizeOf(j) = 2 + Commas(Len(j.fields))
                 + Total([k \in 1 .. Len(j.fields) |->
                             Len(j.fields[k][1]) + 3 + SizeOf(j.fields[k][2])])
<1> DEFINE fields == j.fields
           n == Len(fields)
           sizes == [k \in 1 .. n |-> Len(fields[k][1]) + 3 + SizeOf(fields[k][2])]
<1>1. fields \in Seq(STRING \X JsonTexts) /\ \A k \in 1 .. n : Len(fields[k][1]) \in Nat
  BY ResponseAssumption DEF IsJson
<1>2. SizeOf(j) = SizeFrom(j) /\ \A i \in JsonTexts : SizeOf(i) \in Nat
  BY ResponseAssumption
<1>3. SizeOf(j) = 2 + Commas(n) + Total(sizes)
  BY <1>2 DEF SizeFrom
<1> HIDE DEF fields
<1>4. n \in Nat /\ \A k \in 1 .. n : fields[k] \in STRING \X JsonTexts
  BY <1>1
<1>5. \A k \in 1 .. n : fields[k][2] \in JsonTexts
  BY <1>4
<1> HIDE DEF n
<1>6. \A k \in 1 .. n : Len(fields[k][1]) + 3 + SizeOf(fields[k][2]) \in Nat
  <2> SUFFICES ASSUME NEW k \in 1 .. n
               PROVE  Len(fields[k][1]) + 3 + SizeOf(fields[k][2]) \in Nat
    OBVIOUS
  <2>1. SizeOf(fields[k][2]) \in Nat
    BY <1>2, <1>5
  <2>2. Len(fields[k][1]) \in Nat
    BY <1>1
  <2> QED BY <2>1, <2>2
<1>7. /\ sizes \in Seq(Nat) /\ Len(sizes) = n
      /\ \A k \in 1 .. n : sizes[k] = Len(fields[k][1]) + 3 + SizeOf(fields[k][2])
  <2>1. sizes \in [1 .. n -> Nat]
    BY <1>6
  <2> QED BY <1>4, <2>1
<1> HIDE DEF sizes
<1>8. \A k \in 1 .. n : SizeOf(fields[k][2]) < SizeOf(j)
  <2> SUFFICES ASSUME NEW k \in 1 .. n PROVE SizeOf(fields[k][2]) < SizeOf(j)
    OBVIOUS
  <2> DEFINE x == SizeOf(fields[k][2])
             y == Len(fields[k][1])
  <2>1. y + 3 + x <= Total(sizes)
    BY <1>7, TotalBounds
  <2>2. Total(sizes) \in Nat /\ Commas(n) \in Nat /\ x \in Nat /\ y \in Nat
    BY <1>1, <1>2, <1>4, <1>5, <1>7, TotalNat DEF Commas
  <2> HIDE DEF x, y
  <2>3. x < 2 + Commas(n) + Total(sizes)
    BY <2>1, <2>2
  <2> QED BY <1>3, <2>3 DEF x
<1> QED BY <1>1, <1>3, <1>4, <1>5, <1>7, <1>8 DEF fields, n, sizes

\* The writes of a text add up to its size.
Adds(j) == Writes(j) \in Seq(Nat) /\ Total(Writes(j)) = SizeOf(j)

\* An opening and a closing bracket, and parts between them.
LEMMA Bracketed ==
    ASSUME NEW parts \in Seq(Seq(Nat))
    PROVE  /\ <<1>> \o Separated(parts) \o <<1>> \in Seq(Nat)
           /\ Total(<<1>> \o Separated(parts) \o <<1>>) =
                 2 + Commas(Len(parts)) + Total([k \in 1 .. Len(parts) |-> Total(parts[k])])
<1> DEFINE x == Commas(Len(parts))
           y == Total([k \in 1 .. Len(parts) |-> Total(parts[k])])
           sep == Separated(parts)
<1>1. sep \in Seq(Nat) /\ Total(sep) = x + y /\ y \in Nat
  BY SeparatedIs, TotalNat
<1>2. x \in Nat
  <2>1. Len(parts) \in Nat
    OBVIOUS
  <2> QED BY <2>1 DEF Commas
<1>3. <<1>> \in Seq(Nat) /\ Total(<<1>>) = 1
  BY TotalFew
<1> HIDE DEF x, y, sep
<1>4. <<1>> \o sep \in Seq(Nat) /\ Total(<<1>> \o sep) = 1 + (x + y)
  BY <1>1, <1>3, TotalConcat
<1>5. <<1>> \o sep \o <<1>> \in Seq(Nat) /\ Total(<<1>> \o sep \o <<1>>) = 1 + (x + y) + 1
  BY <1>3, <1>4, TotalConcat
<1>6. 1 + (x + y) + 1 = 2 + x + y
  BY <1>1, <1>2
<1> QED BY <1>5, <1>6 DEF x, y, sep

LEMMA ArrayAdds ==
    ASSUME NEW j \in JsonTexts, j.json = "array",
           \A k \in 1 .. Len(j.items) : Adds(j.items[k])
    PROVE  Adds(j)
<1> DEFINE items == j.items
           n == Len(items)
           parts == [k \in 1 .. n |-> Writes(items[k])]
<1>1. Writes(j) = <<1>> \o Separated(parts) \o <<1>>
  <2>1. Writes(j) = WritesOf(j)
    BY ResponseAssumption
  <2> QED BY <2>1 DEF WritesOf
<1>2. n \in Nat /\ SizeOf(j) = 2 + Commas(n) + Total([k \in 1 .. n |-> SizeOf(items[k])])
  BY ArrayParts
<1>3. \A k \in 1 .. n : Writes(items[k]) \in Seq(Nat) /\ Total(Writes(items[k])) = SizeOf(items[k])
  BY DEF Adds
<1> HIDE DEF items, n
<1>4. /\ parts \in Seq(Seq(Nat)) /\ Len(parts) = n
      /\ \A k \in 1 .. n : parts[k] = Writes(items[k])
  <2>1. parts \in [1 .. n -> Seq(Nat)]
    BY <1>3
  <2> QED BY <1>2, <2>1
<1> HIDE DEF parts
<1>5. [k \in 1 .. Len(parts) |-> Total(parts[k])] = [k \in 1 .. n |-> SizeOf(items[k])]
  <2>1. \A k \in 1 .. n : Total(parts[k]) = SizeOf(items[k])
    BY <1>3, <1>4
  <2> QED BY <1>4, <2>1
<1> QED BY <1>1, <1>2, <1>4, <1>5, Bracketed DEF Adds

LEMMA ObjectAdds ==
    ASSUME NEW j \in JsonTexts, j.json = "object",
           \A k \in 1 .. Len(j.fields) : Adds(j.fields[k][2])
    PROVE  Adds(j)
<1> DEFINE fields == j.fields
           n == Len(fields)
           Part(k) == <<1, Len(fields[k][1]), 1, 1>> \o Writes(fields[k][2])
           Size(k) == Len(fields[k][1]) + 3 + SizeOf(fields[k][2])
           parts == [k \in 1 .. n |-> Part(k)]
<1>1. Writes(j) = <<1>> \o Separated(parts) \o <<1>>
  <2>1. Writes(j) = WritesOf(j)
    BY ResponseAssumption
  <2> QED BY <2>1 DEF WritesOf
<1>2. /\ n \in Nat /\ SizeOf(j) = 2 + Commas(n) + Total([k \in 1 .. n |-> Size(k)])
      /\ \A k \in 1 .. n : Len(fields[k][1]) \in Nat /\ fields[k][2] \in JsonTexts
  BY ObjectParts
<1>3. \A k \in 1 .. n : Adds(fields[k][2])
  OBVIOUS
<1> HIDE DEF fields, n
<1>4. ASSUME NEW k \in 1 .. n PROVE Part(k) \in Seq(Nat) /\ Total(Part(k)) = Size(k)
  <2> DEFINE y == Len(fields[k][1])
             key == <<1, y, 1, 1>>
             w == Writes(fields[k][2])
             x == SizeOf(fields[k][2])
  <2>1. w \in Seq(Nat) /\ Total(w) = x
    BY <1>3 DEF Adds
  <2>2. y \in Nat /\ x \in Nat
    BY <1>2, ResponseAssumption
  <2> HIDE DEF y, w, x
  <2>3. key \in Seq(Nat) /\ Total(key) = 1 + y + 1 + 1
    BY <2>2, TotalFew
  <2> HIDE DEF key
  <2>4. key \o w \in Seq(Nat) /\ Total(key \o w) = (1 + y + 1 + 1) + x
    BY <2>1, <2>3, TotalConcat
  <2>5. (1 + y + 1 + 1) + x = y + 3 + x
    BY <2>2
  <2> QED BY <2>4, <2>5 DEF y, w, x, key
<1> HIDE DEF Part, Size
<1>5. /\ parts \in Seq(Seq(Nat)) /\ Len(parts) = n
      /\ \A k \in 1 .. n : parts[k] = Part(k)
  <2>1. parts \in [1 .. n -> Seq(Nat)]
    BY <1>4
  <2> QED BY <1>2, <2>1
<1> HIDE DEF parts
<1>6. [k \in 1 .. Len(parts) |-> Total(parts[k])] = [k \in 1 .. n |-> Size(k)]
  <2>1. \A k \in 1 .. n : Total(parts[k]) = Size(k)
    BY <1>4, <1>5
  <2> QED BY <1>5, <2>1
<1> QED BY <1>1, <1>2, <1>5, <1>6, Bracketed DEF Adds

LEMMA WritesAddUp == \A j \in JsonTexts : Adds(j)
<1> DEFINE S == {j \in JsonTexts : Adds(j)}
<1>1. ASSUME NEW j \in JsonTexts,
             \A i \in JsonTexts : SizeOf(i) < SizeOf(j) => i \in S
      PROVE  j \in S
  <2>0. /\ IsJson(j) /\ Writes(j) = WritesOf(j) /\ SizeOf(j) = SizeFrom(j)
    BY ResponseAssumption
  <2>1. CASE j.json = "bare"
    <3> DEFINE n == Len(j.text)
    <3>1. n \in Nat /\ Writes(j) = <<n>> /\ SizeOf(j) = n
      BY <2>0, <2>1 DEF IsJson, WritesOf, SizeFrom
    <3> HIDE DEF n
    <3> QED BY <3>1, TotalFew DEF Adds
  <2>2. CASE j.json = "string"
    <3> DEFINE n == Len(j.text)
    <3>1. n \in Nat /\ Writes(j) = <<1, n, 1>> /\ SizeOf(j) = n + 2
      BY <2>0, <2>2 DEF IsJson, WritesOf, SizeFrom
    <3> HIDE DEF n
    <3>2. Writes(j) \in Seq(Nat) /\ Total(Writes(j)) = 1 + n + 1
      BY <3>1, TotalFew
    <3>3. 1 + n + 1 = n + 2
      BY <3>1
    <3>4. Total(Writes(j)) = SizeOf(j)
      BY <3>1, <3>2, <3>3, Zenon
    <3> QED BY <3>2, <3>4 DEF Adds
  <2>3. CASE j.json = "array"
    BY <1>1, <2>3, ArrayParts, ArrayAdds
  <2>4. CASE j.json = "object"
    BY <1>1, <2>4, ObjectParts, ObjectAdds
  <2> QED BY <2>0, <2>1, <2>2, <2>3, <2>4 DEF IsJson
<1> HIDE DEF S
<1>2. \A j \in JsonTexts : j \in S
  BY <1>1, JsonInduction
<1> QED BY <1>2 DEF S

\* serialized_response gives up exactly on the texts above the limit.
LEMMA ExceedsIs ==
    ASSUME NEW j \in JsonTexts, NEW max \in Nat
    PROVE  Exceeds(j, max) <=> ~(SizeOf(j) <= max)
<1>1. Writes(j) \in Seq(Nat) /\ Total(Writes(j)) = SizeOf(j)
  BY WritesAddUp DEF Adds
<1>2. Exceeds(j, max) <=> SizeOf(j) > max
  BY <1>1, LimitIsOnTheSum DEF Exceeds
<1>3. SizeOf(j) \in Nat
  BY ResponseAssumption
<1> QED BY <1>2, <1>3

-----------------------------------------------------------------------------
(* Keys.                                                                   *)

\* An array of texts without repeated keys is one.
LEMMA ArrayOnce ==
    ASSUME NEW j \in JsonTexts, NEW items, j = Array(items),
           \A k \in 1 .. Len(items) : NoRepeatedKey(items[k])
    PROVE  NoRepeatedKey(j)
<1>1. j.json = "array" /\ j.items = items
  BY DEF Array
<1>2. NoRepeatedKey(j) = EachKeyOnce(j)
  BY ResponseAssumption
<1>3. EachKeyOnce(j)
  BY <1>1 DEF EachKeyOnce
<1> QED BY <1>2, <1>3

\* So is a string, or a bare word.
LEMMA WordOnce ==
    ASSUME NEW j \in JsonTexts, NEW text, j = String(text) \/ j = Bare(text)
    PROVE  NoRepeatedKey(j)
<1>1. j.json # "array" /\ j.json # "object"
  BY DEF String, Bare
<1>2. NoRepeatedKey(j) = EachKeyOnce(j)
  BY ResponseAssumption
<1>3. EachKeyOnce(j)
  BY <1>1 DEF EachKeyOnce
<1> QED BY <1>2, <1>3

\* So is an object whose keys differ.
LEMMA ObjectOnce ==
    ASSUME NEW j \in JsonTexts, NEW fields, j = Object(fields),
           \A i, k \in 1 .. Len(fields) : i < k => fields[i][1] # fields[k][1],
           \A k \in 1 .. Len(fields) : NoRepeatedKey(fields[k][2])
    PROVE  NoRepeatedKey(j)
<1>1. j.json = "object" /\ j.fields = fields
  BY DEF Object
<1>2. NoRepeatedKey(j) = EachKeyOnce(j)
  BY ResponseAssumption
<1>3. EachKeyOnce(j)
  BY <1>1 DEF EachKeyOnce
<1> QED BY <1>2, <1>3

\* Tagged objects: the tag, and n further fields out of a and b.
Further(rest, a, b, n) ==
    \/ rest = <<>> /\ n = 0
    \/ rest = <<a>> /\ n = 1
    \/ rest = <<a, b>> /\ n = 2
TaggedAs(j, fields, type, a, b, n) ==
    /\ j = Object(fields) /\ j.json = "object" /\ j.fields = fields
    /\ n \in 0 .. 2 /\ Len(fields) = n + 1
    /\ fields[1] = type
    /\ n >= 1 => fields[2] = a
    /\ n = 2 => fields[3] = b

LEMMA TaggedFields ==
    ASSUME NEW j, NEW tag, NEW a, NEW b, NEW rest, NEW n, Further(rest, a, b, n),
           j = Tagged(tag, rest)
    PROVE  \E fields : TaggedAs(j, fields, <<"type", String(tag)>>, a, b, n)
<1> DEFINE type == <<"type", String(tag)>>
           fields == <<type>> \o rest
           S == {type, a, b}
           s == <<type>>
<1>1. j = Object(fields) /\ j.json = "object" /\ j.fields = fields
  BY DEF Tagged, Object
<1> HIDE DEF type
<1>2. s \in Seq(S) /\ Len(s) = 1 /\ s[1] = type
  OBVIOUS
<1>3. /\ rest \in Seq(S) /\ Len(rest) = n /\ n \in 0 .. 2
      /\ n >= 1 => rest[1] = a
      /\ n = 2 => rest[2] = b
  <2>1. CASE rest = <<>> /\ n = 0
    BY <2>1
  <2>2. CASE rest = <<a>> /\ n = 1
    BY <2>2
  <2>3. CASE rest = <<a, b>> /\ n = 2
    <3>1. rest \in Seq(S) /\ Len(rest) = 2 /\ rest[1] = a /\ rest[2] = b
      BY <2>3
    <3> QED BY <2>3, <3>1
  <2> QED BY <2>1, <2>2, <2>3 DEF Further
<1> HIDE DEF S, s
<1>4. /\ Len(s \o rest) = Len(s) + Len(rest)
      /\ \A k \in 1 .. Len(s) + Len(rest) :
            (s \o rest)[k] = IF k <= Len(s) THEN s[k] ELSE rest[k - Len(s)]
  BY <1>2, <1>3, ConcatProperties
<1>5. fields = s \o rest
  BY DEF s
<1> HIDE DEF fields
<1>6. /\ Len(fields) = 1 + n
      /\ \A k \in 1 .. 1 + n : fields[k] = IF k <= 1 THEN s[k] ELSE rest[k - 1]
  BY <1>2, <1>3, <1>4, <1>5
<1>7. fields[1] = type
  <2>1. 1 \in 1 .. 1 + n
    BY <1>3
  <2> QED BY <1>2, <1>6, <2>1
<1>8. n >= 1 => fields[2] = a
  <2>1. n >= 1 => 2 \in 1 .. 1 + n /\ ~(2 <= 1) /\ 2 - 1 = 1
    BY <1>3
  <2> QED BY <1>3, <1>6, <2>1
<1>9. n = 2 => fields[3] = b
  <2>1. n = 2 => 3 \in 1 .. 1 + n /\ ~(3 <= 1) /\ 3 - 1 = 2
    OBVIOUS
  <2> QED BY <1>3, <1>6, <2>1
<1>10. Len(fields) = n + 1
  BY <1>3, <1>6
<1>11. TaggedAs(j, fields, type, a, b, n)
  BY <1>1, <1>3, <1>7, <1>8, <1>9, <1>10 DEF TaggedAs
<1> QED BY <1>11 DEF type

\* What is in the fields is smaller than the object,
LEMMA TaggedParts ==
    ASSUME NEW j \in JsonTexts, NEW tag, NEW f1, NEW f2, NEW p1, NEW p2, NEW rest, NEW n,
           Further(rest, <<f1, p1>>, <<f2, p2>>, n), j = Tagged(tag, rest)
    PROVE  /\ n >= 1 => p1 \in JsonTexts /\ SizeOf(p1) < SizeOf(j)
           /\ n = 2 => p2 \in JsonTexts /\ SizeOf(p2) < SizeOf(j)
<1> DEFINE a == <<f1, p1>>
           b == <<f2, p2>>
           type == <<"type", String(tag)>>
<1>1. a[2] = p1 /\ b[2] = p2
  OBVIOUS
<1>2. PICK fields : TaggedAs(j, fields, type, a, b, n)
  <2> HIDE DEF a, b
  <2>1. Further(rest, a, b, n)
    BY DEF a, b
  <2> QED BY <2>1, TaggedFields
<1> HIDE DEF a, b, type
<1>3. \A k \in 1 .. n + 1 : fields[k][2] \in JsonTexts /\ SizeOf(fields[k][2]) < SizeOf(j)
  BY <1>2, ObjectParts DEF TaggedAs
<1>4. n >= 1 => 2 \in 1 .. n + 1 /\ fields[2] = a
  BY <1>2 DEF TaggedAs
<1>5. n = 2 => 3 \in 1 .. n + 1 /\ fields[3] = b
  BY <1>2 DEF TaggedAs
<1> QED BY <1>1, <1>3, <1>4, <1>5

\* and no key is repeated when what is in the fields repeats none.
LEMMA TaggedOnce ==
    ASSUME NEW j \in JsonTexts, NEW tag, NEW f1, NEW f2, NEW p1, NEW p2, NEW rest, NEW n,
           Further(rest, <<f1, p1>>, <<f2, p2>>, n), j = Tagged(tag, rest),
           n >= 1 => f1 # "type" /\ NoRepeatedKey(p1),
           n = 2 => f2 # "type" /\ f1 # f2 /\ NoRepeatedKey(p2)
    PROVE  NoRepeatedKey(j)
<1> DEFINE a == <<f1, p1>>
           b == <<f2, p2>>
           type == <<"type", String(tag)>>
<1>1. type[1] = "type" /\ type[2] = String(tag) /\ a[1] = f1 /\ a[2] = p1 /\ b[1] = f2 /\ b[2] = p2
  OBVIOUS
<1>2. PICK fields : TaggedAs(j, fields, type, a, b, n)
  <2> HIDE DEF a, b
  <2>1. Further(rest, a, b, n)
    BY DEF a, b
  <2> QED BY <2>1, TaggedFields
<1> HIDE DEF a, b, type
<1>3. /\ j = Object(fields) /\ j.json = "object" /\ j.fields = fields
      /\ Len(fields) = n + 1 /\ n \in 0 .. 2
  BY <1>2 DEF TaggedAs
<1>4. fields[1] = type /\ (n >= 1 => fields[2] = a) /\ (n = 2 => fields[3] = b)
  BY <1>2 DEF TaggedAs
<1>5. \A k \in 1 .. n + 1 : fields[k][2] \in JsonTexts
  BY <1>3, ObjectParts
<1>6. \A k \in 1 .. n + 1 : NoRepeatedKey(fields[k][2])
  <2> SUFFICES ASSUME NEW k \in 1 .. n + 1 PROVE NoRepeatedKey(fields[k][2])
    OBVIOUS
  <2>1. CASE k = 1
    <3>1. fields[k][2] = String(tag) /\ fields[k][2] \in JsonTexts
      BY <1>1, <1>4, <1>5, <2>1
    <3> QED BY <3>1, WordOnce
  <2>2. CASE k = 2
    BY <1>1, <1>3, <1>4, <2>2
  <2>3. CASE k = 3
    BY <1>1, <1>3, <1>4, <2>3
  <2> QED BY <1>3, <2>1, <2>2, <2>3
<1>7. \A i, k \in 1 .. n + 1 : i < k => fields[i][1] # fields[k][1]
  <2> SUFFICES ASSUME NEW i \in 1 .. n + 1, NEW k \in 1 .. n + 1, i < k
               PROVE  fields[i][1] # fields[k][1]
    OBVIOUS
  <2>1. \/ i = 1 /\ k = 2 /\ n >= 1
        \/ i = 1 /\ k = 3 /\ n = 2 /\ n >= 1
        \/ i = 2 /\ k = 3 /\ n = 2 /\ n >= 1
    BY <1>3
  <2> QED BY <1>1, <1>4, <2>1
<1> QED BY <1>3, <1>6, <1>7, ObjectOnce

\* object_keys: the keys of the object differ.
LEMMA KeysDiffer ==
    ASSUME NEW entries, NEW base64, ObjectKeys(entries, base64),
           NEW i \in 1 .. Len(entries), NEW k \in 1 .. Len(entries), i < k
    PROVE  KeyOf(entries[i][1], base64) # KeyOf(entries[k][1], base64)
<1> DEFINE v == entries[i][1]
           w == entries[k][1]
           X == ObjectKey(v, base64)
           Y == ObjectKey(w, base64)
<1>1. X # {} /\ Y # {} /\ X # Y
  BY DEF ObjectKeys
<1>2. \A x : ObjectKey(x, base64) = {} \/ \E y : ObjectKey(x, base64) = {y}
  BY DEF ObjectKey
<1>3. PICK y : X = {y}
  BY <1>1, <1>2
<1>4. PICK z : Y = {z}
  BY <1>1, <1>2
<1> HIDE DEF X, Y
<1>5. (CHOOSE key \in X : TRUE) = y
  BY <1>3
<1>6. (CHOOSE key \in Y : TRUE) = z
  BY <1>4
<1>7. y # z
  BY <1>1, <1>3, <1>4
<1> QED BY <1>5, <1>6, <1>7 DEF KeyOf, X, Y

\* The texts of smaller values are right, as far as induction has come.
Smaller(j) ==
    \A v \in RedisValues, base64 \in BOOLEAN :
        SizeOf(RedisJson(v, base64)) < SizeOf(j) => NoRepeatedKey(RedisJson(v, base64))

\* serialize_array, of a text that is no larger than one whose smaller ones are right.
LEMMA RedisArrayOnce ==
    ASSUME NEW top \in JsonTexts, Smaller(top), NEW j \in JsonTexts, SizeOf(j) <= SizeOf(top),
           NEW items \in Seq(RedisValues), NEW base64 \in BOOLEAN, j = RedisArray(items, base64)
    PROVE  NoRepeatedKey(j)
<1> DEFINE texts == [k \in 1 .. Len(items) |-> RedisJson(items[k], base64)]
           n == Len(items)
<1>1. j = Array(texts)
  BY DEF RedisArray
<1>2. n \in Nat /\ \A k \in 1 .. n : items[k] \in RedisValues
  OBVIOUS
<1>3. Len(texts) = n
  <2>1. texts \in Seq({RedisJson(items[k], base64) : k \in 1 .. n})
    OBVIOUS
  <2> QED BY <1>2, <2>1
<1>4. j.json = "array" /\ j.items = texts
  BY <1>1 DEF Array
<1>5. ASSUME NEW k \in 1 .. n PROVE NoRepeatedKey(texts[k])
  <2>1. texts[k] = RedisJson(items[k], base64)
    OBVIOUS
  <2> HIDE DEF texts, n
  <2>2. texts[k] \in JsonTexts /\ SizeOf(texts[k]) < SizeOf(j)
    BY <1>3, <1>4, ArrayParts
  <2>3. SizeOf(texts[k]) \in Nat /\ SizeOf(j) \in Nat /\ SizeOf(top) \in Nat
    BY <2>2, ResponseAssumption
  <2>4. SizeOf(texts[k]) < SizeOf(top)
    BY <2>2, <2>3
  <2> QED BY <1>2, <2>1, <2>4 DEF Smaller
<1> HIDE DEF texts, n
<1> QED BY <1>1, <1>3, <1>5, ArrayOnce

\* serialize_map, the same.
LEMMA RedisMapOnce ==
    ASSUME NEW top \in JsonTexts, Smaller(top), NEW j \in JsonTexts, SizeOf(j) <= SizeOf(top),
           NEW entries \in Seq(RedisValues \X RedisValues), NEW base64 \in BOOLEAN,
           j = RedisMap(entries, base64)
    PROVE  NoRepeatedKey(j)
<1> DEFINE n == Len(entries)
<1>1. /\ n \in Nat
      /\ \A k \in 1 .. n : /\ entries[k] \in RedisValues \X RedisValues
                           /\ entries[k][2] \in RedisValues
  <2>1. n \in Nat /\ \A k \in 1 .. n : entries[k] \in RedisValues \X RedisValues
    OBVIOUS
  <2> HIDE DEF n
  <2> QED BY <2>1
<1>2. \A i \in JsonTexts : SizeOf(i) \in Nat
  BY ResponseAssumption
<1> HIDE DEF n
<1>3. CASE ObjectKeys(entries, base64)
  <2> DEFINE Field(k) == <<KeyOf(entries[k][1], base64), RedisJson(entries[k][2], base64)>>
             fields == [k \in 1 .. n |-> Field(k)]
  <2>1. j = Object(fields)
    BY <1>3 DEF RedisMap, n
  <2>2. Len(fields) = n
    <3>1. fields \in Seq({Field(k) : k \in 1 .. n})
      BY <1>1
    <3> QED BY <1>1, <3>1
  <2>3. j.json = "object" /\ j.fields = fields
    BY <2>1 DEF Object
  <2>4. \A k \in 1 .. n : /\ fields[k][1] = KeyOf(entries[k][1], base64)
                          /\ fields[k][2] = RedisJson(entries[k][2], base64)
    OBVIOUS
  <2> HIDE DEF fields
  <2>5. ASSUME NEW k \in 1 .. n PROVE NoRepeatedKey(fields[k][2])
    <3>1. fields[k][2] \in JsonTexts /\ SizeOf(fields[k][2]) < SizeOf(j)
      BY <2>2, <2>3, ObjectParts
    <3>2. SizeOf(fields[k][2]) < SizeOf(top)
      BY <1>2, <3>1
    <3> QED BY <1>1, <2>4, <3>2 DEF Smaller
  <2>6. \A i, k \in 1 .. n : i < k => fields[i][1] # fields[k][1]
    BY <1>3, <2>4, KeysDiffer DEF n
  <2> QED BY <2>1, <2>2, <2>5, <2>6, ObjectOnce
<1>4. CASE ~ObjectKeys(entries, base64)
  <2> DEFINE pairs == [k \in 1 .. n |-> RedisArray(entries[k], base64)]
             list == Array(pairs)
  <2>1. j = Tagged("map", <<<<"value", list>>>>)
    BY <1>4 DEF RedisMap, n
  <2>form. PICK rest, m : /\ Further(rest, <<"value", list>>, <<"value", list>>, m)
                       /\ j = Tagged("map", rest) /\ m >= 1 /\ m # 2
    <3>1. Further(<<<<"value", list>>>>, <<"value", list>>, <<"value", list>>, 1)
      BY DEF Further
    <3>2. 1 >= 1 /\ 1 # 2
      OBVIOUS
    <3> HIDE DEF list
    <3> QED BY <2>1, <3>1, <3>2
  <2>2. Len(pairs) = n /\ \A k \in 1 .. n : pairs[k] = RedisArray(entries[k], base64)
    <3>1. pairs \in Seq({RedisArray(entries[k], base64) : k \in 1 .. n})
      BY <1>1
    <3> QED BY <1>1, <3>1
  <2>3. list.json = "array" /\ list.items = pairs
    BY DEF Array
  <2>4. list \in JsonTexts /\ SizeOf(list) < SizeOf(j)
    BY <2>form, TaggedParts
  <2> HIDE DEF pairs
  <2>5. NoRepeatedKey(list)
    <3>1. ASSUME NEW k \in 1 .. n PROVE NoRepeatedKey(pairs[k])
      <4>1. pairs[k] \in JsonTexts /\ SizeOf(pairs[k]) < SizeOf(list)
        BY <2>2, <2>3, <2>4, ArrayParts
      <4>2. SizeOf(pairs[k]) <= SizeOf(top)
        BY <1>2, <2>4, <4>1
      <4>3. entries[k] \in Seq(RedisValues)
        <5>1. PICK x \in RedisValues, y \in RedisValues : entries[k] = <<x, y>>
          BY <1>1
        <5>2. <<x, y>> \in Seq(RedisValues)
          OBVIOUS
        <5> QED BY <5>1, <5>2
      <4>4. pairs[k] = RedisArray(entries[k], base64)
        BY <2>2
      <4> QED BY <4>1, <4>2, <4>3, <4>4, RedisArrayOnce
    <3> QED BY <2>2, <2>4, <3>1, ArrayOnce
  <2> HIDE DEF list
  <2> QED BY <2>form, <2>5, TaggedOnce
<1> QED BY <1>3, <1>4

\* serialize_redis of any value: no object in its text has a key twice.
LEMMA ValuesOnce ==
    \A v \in RedisValues, base64 \in BOOLEAN : NoRepeatedKey(RedisJson(v, base64))
<1> DEFINE S == {j \in JsonTexts : \A v \in RedisValues, base64 \in BOOLEAN :
                                      RedisJson(v, base64) = j => NoRepeatedKey(j)}
<1>1. ASSUME NEW j \in JsonTexts,
             \A i \in JsonTexts : SizeOf(i) < SizeOf(j) => i \in S,
             NEW v \in RedisValues, NEW base64 \in BOOLEAN, RedisJson(v, base64) = j
      PROVE  NoRepeatedKey(j)
  <2>1. j = JsonOf(v, base64) /\ IsValue(v) /\ SizeOf(j) \in Nat
    BY <1>1, ResponseAssumption
  <2>2. Smaller(j)
    BY <1>1, ResponseAssumption DEF Smaller
  <2>3. SizeOf(j) <= SizeOf(j)
    BY <2>1
  <2>4. ASSUME NEW tag, NEW f1, NEW p1, j = Tagged(tag, <<<<f1, p1>>>>), f1 # "type",
               \E text : p1 = String(text)
        PROVE  NoRepeatedKey(j)
    <3> DEFINE rest == <<<<f1, p1>>>>
               n == 1
    <3>1. Further(rest, <<f1, p1>>, <<f1, p1>>, n) /\ j = Tagged(tag, rest)
      BY <2>4 DEF Further
    <3>2. n >= 1 /\ n # 2
      OBVIOUS
    <3> HIDE DEF rest, n
    <3>3. p1 \in JsonTexts
      BY <3>1, <3>2, TaggedParts
    <3>4. NoRepeatedKey(p1)
      BY <2>4, <3>3, WordOnce
    <3> QED BY <2>4, <3>1, <3>2, <3>4, TaggedOnce
  <2>tagged. ASSUME NEW tag, NEW f1, NEW p1, NEW f2, NEW p2,
               j = Tagged(tag, <<<<f1, p1>>, <<f2, p2>>>>),
               f1 # "type", f2 # "type", f1 # f2,
               (\E text : p1 = String(text)) \/
                 (p1 \in JsonTexts /\ SizeOf(p1) < SizeOf(j) => NoRepeatedKey(p1)),
               (\E text : p2 = String(text)) \/
                 (p2 \in JsonTexts /\ SizeOf(p2) < SizeOf(j) => NoRepeatedKey(p2))
        PROVE  NoRepeatedKey(j)
    <3> DEFINE rest == <<<<f1, p1>>, <<f2, p2>>>>
    <3>1. Further(rest, <<f1, p1>>, <<f2, p2>>, 2) /\ j = Tagged(tag, rest)
      BY <2>tagged DEF Further
    <3> HIDE DEF rest
    <3>2. /\ p1 \in JsonTexts /\ SizeOf(p1) < SizeOf(j)
          /\ p2 \in JsonTexts /\ SizeOf(p2) < SizeOf(j)
      BY <3>1, TaggedParts, SMTT(30)
    <3>3. NoRepeatedKey(p1) /\ NoRepeatedKey(p2)
      <4>1. NoRepeatedKey(p1)
        BY <2>tagged, <3>2, WordOnce, SMTT(30)
      <4>2. NoRepeatedKey(p2)
        BY <2>tagged, <3>2, WordOnce, SMTT(30)
      <4> QED BY <4>1, <4>2
    <3> QED BY <2>tagged, <3>1, <3>3, TaggedOnce
  <2> DEFINE kind == v.kind
  <2>5. CASE kind \in {"nil", "int", "bool"}
    <3>1. \E text : j = Bare(text)
      BY <2>1, <2>5 DEF JsonOf
    <3> QED BY <3>1, WordOnce
  <2>6. CASE kind = "bulk"
    <3>1. j = BytesJson(v.bytes, base64)
      BY <2>1, <2>6 DEF JsonOf
    <3>2. CASE \E text : j = String(text)
      BY <3>2, WordOnce
    <3>3. CASE j = Tagged("binary", <<<<"encoding", String("base64")>>, <<"value", String(v.bytes.base64)>>>>)
      BY <2>tagged, <3>3
    <3> QED BY <3>1, <3>2, <3>3 DEF BytesJson
  <2>7. CASE kind \in {"simple", "okay", "big"}
    <3>1. \E text : j = String(text)
      BY <2>1, <2>7 DEF JsonOf
    <3> QED BY <3>1, WordOnce
  <2>8. CASE kind \in {"array", "set"}
    <3>1. j = RedisArray(v.items, base64) /\ v.items \in Seq(RedisValues)
      BY <2>1, <2>8 DEF JsonOf, IsValue
    <3> QED BY <2>2, <2>3, <3>1, RedisArrayOnce
  <2>9. CASE kind = "map"
    <3>1. j = RedisMap(v.entries, base64) /\ v.entries \in Seq(RedisValues \X RedisValues)
      BY <2>1, <2>9 DEF JsonOf, IsValue
    <3> QED BY <2>2, <2>3, <3>1, RedisMapOnce
  <2>10. CASE kind = "double"
    <3>1. j = DoubleJson(v)
      BY <2>1, <2>10 DEF JsonOf
    <3>2. CASE j = Bare(v.text)
      BY <3>2, WordOnce
    <3>3. CASE j = Tagged("double", <<<<"value", String(v.text)>>>>)
      BY <2>4, <3>3
    <3> QED BY <3>1, <3>2, <3>3 DEF DoubleJson
  <2>11. CASE kind = "attribute"
    <3> DEFINE data == RedisJson(v.data, base64)
               map == RedisMap(v.entries, base64)
    <3>1. /\ j = Tagged("attribute", <<<<"data", data>>, <<"attributes", map>>>>)
          /\ v.data \in RedisValues /\ v.entries \in Seq(RedisValues \X RedisValues)
      BY <2>1, <2>11 DEF JsonOf, IsValue
    <3>2. data \in JsonTexts /\ SizeOf(data) < SizeOf(j) => NoRepeatedKey(data)
      BY <2>2, <3>1 DEF Smaller
    <3>3. map \in JsonTexts /\ SizeOf(map) < SizeOf(j) => NoRepeatedKey(map)
      <4> SUFFICES ASSUME map \in JsonTexts, SizeOf(map) < SizeOf(j) PROVE NoRepeatedKey(map)
        OBVIOUS
      <4>1. SizeOf(map) <= SizeOf(j)
        BY <2>1, ResponseAssumption
      <4> QED BY <2>2, <3>1, <4>1, RedisMapOnce
    <3> HIDE DEF data, map
    <3> QED BY <2>tagged, <3>1, <3>2, <3>3
  <2>12. CASE kind = "verbatim"
    <3>1. j = Tagged("verbatim_string", <<<<"format", String(v.format)>>, <<"value", String(v.text)>>>>)
      BY <2>1, <2>12 DEF JsonOf
    <3> QED BY <2>tagged, <3>1
  <2>13. CASE kind = "push"
    <3> DEFINE data == RedisArray(v.items, base64)
    <3>1. /\ j = Tagged("push", <<<<"kind", String(v.name)>>, <<"data", data>>>>)
          /\ v.items \in Seq(RedisValues)
      BY <2>1, <2>13 DEF JsonOf, IsValue
    <3>2. data \in JsonTexts /\ SizeOf(data) < SizeOf(j) => NoRepeatedKey(data)
      <4> SUFFICES ASSUME data \in JsonTexts, SizeOf(data) < SizeOf(j) PROVE NoRepeatedKey(data)
        OBVIOUS
      <4>1. SizeOf(data) <= SizeOf(j)
        BY <2>1, ResponseAssumption
      <4> QED BY <2>2, <3>1, <4>1, RedisArrayOnce
    <3> HIDE DEF data
    <3> QED BY <2>tagged, <3>1, <3>2
  <2>14. CASE kind = "error"
    <3>1. j = Tagged("server_error", <<<<"error", String(v.text)>>>>)
      BY <2>1, <2>14 DEF JsonOf
    <3> QED BY <2>4, <3>1
  <2>15. CASE kind \notin {"nil", "int", "bool", "bulk", "simple", "okay", "big", "array", "set",
                          "map", "double", "attribute", "verbatim", "push", "error"}
    <3>1. j = Tagged("unsupported_redis_value", <<>>)
      BY <2>1, <2>15 DEF JsonOf
    <3>2. PICK n : Further(<<>>, <<"", "">>, <<"", "">>, n) /\ ~(n >= 1) /\ n # 2
      <4>1. Further(<<>>, <<"", "">>, <<"", "">>, 0)
        BY DEF Further
      <4>2. ~(0 >= 1) /\ 0 # 2
        OBVIOUS
      <4> QED BY <4>1, <4>2
    <3> QED BY <3>1, <3>2, TaggedOnce
  <2> HIDE DEF kind
  <2> QED BY <2>5, <2>6, <2>7, <2>8, <2>9, <2>10, <2>11, <2>12, <2>13, <2>14, <2>15
<1>2. \A j \in JsonTexts : j \in S
  <2>1. \A j \in JsonTexts :
            (\A i \in JsonTexts : SizeOf(i) < SizeOf(j) => i \in S) => j \in S
    BY <1>1
  <2> HIDE DEF S
  <2> QED BY <2>1, JsonInduction
<1> QED BY <1>2, ResponseAssumption

\* So for an item of a reply, a result or an error,
LEMMA ItemOnce ==
    ASSUME NEW item, item.ok => item.value \in RedisValues, NEW base64 \in BOOLEAN,
           NEW j \in JsonTexts, j = ItemJson(item, base64)
    PROVE  NoRepeatedKey(j)
<1>1. PICK key, part : /\ j = Object(<<<<key, part>>>>)
                       /\ \/ \E v \in RedisValues : part = RedisJson(v, base64)
                          \/ \E text : part = String(text)
  BY DEF ItemJson
<1> DEFINE field == <<key, part>>
           fields == <<field>>
<1>2. field[2] = part
  OBVIOUS
<1>3. j = Object(fields) /\ j.json = "object" /\ j.fields = fields
  BY <1>1 DEF Object
<1> HIDE DEF field
<1>4. Len(fields) = 1 /\ fields[1] = field
  OBVIOUS
<1> HIDE DEF fields
<1>5. fields[1][2] \in JsonTexts
  <2>1. 1 \in 1 .. Len(fields)
    BY <1>4
  <2>2. \A k \in 1 .. Len(fields) : fields[k][2] \in JsonTexts
    BY <1>3, ObjectParts
  <2> QED BY <2>1, <2>2
<1>6. part \in JsonTexts
  BY <1>2, <1>4, <1>5
<1>7. NoRepeatedKey(part)
  BY <1>1, <1>6, ValuesOnce, WordOnce
<1>8. \A k \in 1 .. Len(fields) : k = 1 /\ NoRepeatedKey(fields[k][2])
  <2>1. \A k \in 1 .. Len(fields) : k = 1
    BY <1>4
  <2> QED BY <1>2, <1>4, <1>7, <2>1
<1>9. \A i, k \in 1 .. Len(fields) : ~(i < k)
  BY <1>4
<1> QED BY <1>3, <1>8, <1>9, ObjectOnce

ItemsFor(r) == [k \in 1 .. Len(r.list) |-> r.redis[k]]

\* and for a reply.
LEMMA ReplyOnce ==
    ASSUME NEW r, IsBatch(r), NEW base64 \in BOOLEAN
    PROVE  /\ ResponseJson(r.route, ItemsFor(r), base64) \in JsonTexts
           /\ NoRepeatedKey(ResponseJson(r.route, ItemsFor(r), base64))
<1> DEFINE n == Len(r.list)
           items == ItemsFor(r)
           form == r.route
           j == ResponseJson(form, items, base64)
<1>1. /\ r.list \in Batches
      /\ form = "command" => n = 1
      /\ \A k \in 1 .. Len(items) : items[k].ok => items[k].value \in RedisValues
      /\ j \in JsonTexts
  BY DEF IsBatch, ItemsFor
<1>2. n \in Nat
  <2>1. r.list \in Seq(Seq(Arguments))
    BY <1>1, PolicyAssumption
  <2> QED BY <2>1
<1> HIDE DEF n
<1>3. Len(items) = n
  <2> DEFINE g == r.redis
  <2>1. items = [k \in 1 .. n |-> g[k]]
    BY DEF ItemsFor, n
  <2> HIDE DEF g, items
  <2>2. Len([k \in 1 .. n |-> g[k]]) = n
    BY <1>2, LengthOfFcn
  <2> QED BY <2>1, <2>2
<1> HIDE DEF items, form
<1>4. CASE form = "command"
  <2>1. 1 \in 1 .. Len(items)
    BY <1>1, <1>3, <1>4
  <2>2. j = ItemJson(items[1], base64)
    BY <1>4 DEF ResponseJson
  <2> DEFINE item == items[1]
  <2>3. item.ok => item.value \in RedisValues
    BY <1>1, <2>1
  <2> HIDE DEF item, j
  <2>4. j = ItemJson(item, base64) /\ j \in JsonTexts
    BY <1>1, <2>2 DEF item
  <2>5. NoRepeatedKey(j)
    BY <2>3, <2>4, ItemOnce
  <2> QED BY <2>4, <2>5 DEF j, items, form
<1>5. CASE form # "command"
  <2> DEFINE texts == [k \in 1 .. n |-> ItemJson(items[k], base64)]
  <2>1. j = Array(texts)
    BY <1>3, <1>5 DEF ResponseJson
  <2>2. Len(texts) = n /\ \A k \in 1 .. n : texts[k] = ItemJson(items[k], base64)
    <3>1. texts \in Seq({ItemJson(items[k], base64) : k \in 1 .. n})
      BY <1>2
    <3> QED BY <1>2, <3>1
  <2> HIDE DEF texts, j
  <2>3. j.json = "array" /\ j.items = texts /\ j \in JsonTexts
    BY <1>1, <2>1 DEF Array
  <2>4. ASSUME NEW k \in 1 .. n PROVE NoRepeatedKey(texts[k])
    <3> DEFINE item == items[k]
               t == texts[k]
    <3>1. t \in JsonTexts
      BY <2>2, <2>3, ArrayParts
    <3>2. item.ok => item.value \in RedisValues
      BY <1>1, <1>3
    <3>3. t = ItemJson(item, base64)
      BY <2>2
    <3> HIDE DEF item, t
    <3>4. NoRepeatedKey(t)
      BY <3>1, <3>2, <3>3, ItemOnce
    <3> QED BY <3>4 DEF t
  <2>5. NoRepeatedKey(j)
    BY <2>1, <2>2, <2>3, <2>4, ArrayOnce
  <2> QED BY <2>3, <2>5 DEF j, items, form
<1> QED BY <1>4, <1>5

-----------------------------------------------------------------------------
(* What a request answers with.                                            *)

Reply == ResponseJson(request.route, Items, Base64)

\* The items are those of the request.
Whole == request.route \in CommandRoutes /\ Len(sent) = Len(request.list)

\* Nothing is returned before the answer; the batch that is judged is that of the
\* request, and all of it is sent; the answer is the reply, if that is not too
\* large.
ReplyInv ==
    /\ stage # "answered" => body = NoBody
    /\ stage = "policy" => batch = request.list
    /\ stage \in {"execute", "reply"} => Whole
    /\ stage = "answered" /\ ~(ran # NoRun /\ status = 200) => body = NoBody
    /\ stage = "answered" /\ ran # NoRun /\ status \in {200, 502} =>
          /\ Whole
          /\ status = 200 <=> ~Exceeds(Reply, settings.max_response_bytes)
          /\ status = 200 => body = Reply

LEMMA ReplyInitially == HandlersInit => ReplyInv
BY DEF HandlersInit, StartupInit, ReplyInv

\* parse_command_list keeps all commands of a batch or none.
LEMMA JudgedWhole ==
    ASSUME HandlersInv, ReplyInv, stage = "policy", Judge, sent' # Denied
    PROVE  Len(sent') = Len(request.list)
<1>1. request.list \in Batches /\ batch = request.list
  BY DEF HandlersInv, RequestInv, RequestStages, IsRequest, IsBatch, ReplyInv
<1>2. batch \in Seq(Seq(Arguments))
  BY <1>1, PolicyAssumption
<1>3. sent' = [k \in 1 .. Len(batch) |-> CommandName(batch[k][1])]
  BY DEF Judge, ParseCommandList
<1>4. Len(batch) \in Nat
  BY <1>2
<1>5. sent' \in Seq({CommandName(batch[k][1]) : k \in 1 .. Len(batch)}) /\ Len(sent') = Len(batch)
  <2> DEFINE n == Len(batch)
             S == {CommandName(batch[k][1]) : k \in 1 .. n}
  <2>1. sent' \in [1 .. n -> S]
    BY <1>3
  <2> HIDE DEF n, S
  <2> QED BY <1>4, <2>1 DEF n, S
<1> QED BY <1>1, <1>5

LEMMA ReplyStep ==
    ASSUME HandlersInv, ReplyInv, [HandlersNext]_handlerVars
    PROVE  ReplyInv'
<1>1. CASE UNCHANGED handlerVars
  <2>1. /\ stage' = stage /\ settings' = settings /\ request' = request /\ status' = status
        /\ ran' = ran /\ body' = body /\ batch' = batch /\ sent' = sent
    BY <1>1 DEF handlerVars, policyVars, startupVars, requestVars
  <2>2. Whole' <=> Whole
    BY <2>1 DEF Whole, CommandRoutes
  <2>3. Reply' = Reply
    BY <2>1 DEF Reply, Items, Base64
  <2>4. NoBody' = NoBody /\ NoRun' = NoRun
    BY DEF NoBody, NoRun
  <2> QED BY <2>1, <2>2, <2>3, <2>4 DEF ReplyInv
<1>2. CASE StartupNext /\ UNCHANGED requestVars
  <2>1. stage' \notin {"answered", "policy", "execute", "reply"} /\ stage # "answered"
    BY <1>2 DEF StartupNext, CheckSettings, UnknownMode, LoadEnvTarget, OpenFile, TakeTarget, TakeToken,
                CloseTarget, BuildTarget, Listen, Refuse
  <2> QED BY <1>2, <2>1 DEF ReplyInv, requestVars, NoBody
<1>3. CASE Arrive
  BY <1>3 DEF Arrive, ReplyInv, NoBody
<1>4. CASE RejectPath \/ Authenticate \/ Metrics \/ InvalidJson \/ Subscribe
  <2>1. /\ stage \in {"auth", "body"} /\ stage' \in {"body", "answered"}
        /\ body' = body /\ ran' = ran
    <3>1. CASE Authenticate
      BY <3>1 DEF Authenticate, Unauthorized, GoOn, Answer
    <3>2. CASE Metrics
      BY <3>2 DEF Metrics, Unauthorized, Answer
    <3>3. CASE RejectPath \/ InvalidJson \/ Subscribe
      BY <3>3 DEF RejectPath, InvalidJson, Subscribe, Answer
    <3> QED BY <1>4, <3>1, <3>2, <3>3
  <2>2. ran = NoRun
    BY <2>1 DEF HandlersInv, RequestInv, Fresh
  <2>3. body' = NoBody' /\ ran' = NoRun'
    BY <2>1, <2>2 DEF ReplyInv, NoBody, NoRun
  <2> QED BY <2>1, <2>3 DEF ReplyInv
<1>5. CASE TakeBody
  BY <1>5 DEF TakeBody, GoOn, Receive, ReplyInv, NoBody
<1>6. CASE ApplyPolicy
  <2>1. stage = "policy" /\ Judge /\ body' = body /\ ran' = ran /\ request' = request
    BY <1>6 DEF ApplyPolicy, GoOn, Answer
  <2>2. ran' = NoRun' /\ body' = NoBody'
    BY <2>1 DEF HandlersInv, RequestInv, ReplyInv, NoRun, NoBody
  <2>3. CASE sent' = Denied /\ stage' = "answered"
    BY <2>2, <2>3 DEF ReplyInv
  <2>4. CASE sent' # Denied /\ stage' = "execute"
    <3>1. Len(sent') = Len(request.list)
      BY <2>1, <2>4, JudgedWhole
    <3>2. request.route \in CommandRoutes
      BY <2>1 DEF HandlersInv, RequestInv
    <3>3. Whole'
      BY <2>1, <3>1, <3>2 DEF Whole, CommandRoutes
    <3> QED BY <2>2, <2>4, <3>3 DEF ReplyInv
  <2> QED BY <1>6, <2>3, <2>4 DEF ApplyPolicy, Answer, GoOn
<1>7. CASE Execute
  <2>1. /\ stage = "execute" /\ body' = body /\ request' = request /\ sent' = sent
        /\ stage' = "reply" \/ (stage' = "answered" /\ status' \in {400, 429, 503, 504})
    BY <1>7 DEF Execute, GoOn, Answer, policyVars
  <2>2. Whole' /\ body' = NoBody'
    BY <2>1 DEF ReplyInv, Whole, CommandRoutes, NoBody
  <2>3. CASE stage' = "reply"
    BY <2>2, <2>3 DEF ReplyInv
  <2>4. CASE stage' = "answered" /\ status' \in {400, 429, 503, 504}
    <3>1. status' # 200 /\ status' \notin {200, 502}
      BY <2>4
    <3> QED BY <2>2, <2>4, <3>1 DEF ReplyInv
  <2> QED BY <2>1, <2>3, <2>4
<1>8. CASE Respond
  <2>1. /\ stage = "reply" /\ ran' = ran /\ request' = request /\ sent' = sent /\ settings' = settings
        /\ stage' = "answered"
        /\ \/ /\ ~Exceeds(Reply, settings.max_response_bytes)
              /\ status' = 200 /\ body' = Reply
           \/ /\ Exceeds(Reply, settings.max_response_bytes)
              /\ status' = 502 /\ body' = body
    BY <1>8 DEF Respond, Answer, policyVars, Reply
  <2>2. Whole' /\ Reply' = Reply
    BY <2>1 DEF ReplyInv, Whole, CommandRoutes, Reply, Items, Base64
  <2>3. ran # NoRun
    <3>1. stage \in RequestStages \ {"serving"} /\ Routed /\ ran = [target |-> route.target, commands |-> sent]
      BY <2>1 DEF HandlersInv, RequestInv, RequestStages
    <3>2. route.target # ""
      BY <3>1, RouteIs DEF Routed
    <3> QED BY <3>1, <3>2 DEF NoRun
  <2>4. body = NoBody
    BY <2>1 DEF ReplyInv
  <2>5. CASE ~Exceeds(Reply, settings.max_response_bytes) /\ status' = 200 /\ body' = Reply
    BY <2>1, <2>2, <2>3, <2>5 DEF ReplyInv, NoRun
  <2>6. CASE Exceeds(Reply, settings.max_response_bytes) /\ status' = 502 /\ body' = body
    <3>1. status' # 200 /\ status' \in {200, 502}
      BY <2>6
    <3>2. Exceeds(Reply, settings.max_response_bytes)'
      BY <2>1, <2>2, <2>6
    <3> QED BY <2>1, <2>2, <2>4, <2>6, <3>1, <3>2 DEF ReplyInv, NoBody
  <2> QED BY <2>1, <2>5, <2>6
<1> QED BY <1>1, <1>2, <1>3, <1>4, <1>5, <1>6, <1>7, <1>8 DEF HandlersNext

THEOREM ReplyInvariant == HandlersSpec => []ReplyInv
BY HandlersInvariant, ReplyInitially, ReplyStep, PTL DEF HandlersSpec

\* At the answer the items of the reply are those of the request.
LEMMA ReplyIs ==
    ASSUME HandlersInv, stage = "answered", Whole
    PROVE  /\ Reply \in JsonTexts
           /\ NoRepeatedKey(Reply)
<1>1. IsBatch(request)
  BY DEF HandlersInv, RequestInv, RequestStages, IsRequest, Whole
<1>2. Items = ItemsFor(request)
  BY DEF Whole, Items, ItemsFor
<1>3. Base64 \in BOOLEAN
  BY DEF Base64
<1> QED BY <1>1, <1>2, <1>3, ReplyOnce DEF Reply

\* response_or_denied and LimitBody::write: for every reply, of any depth, and every
\* limit, the writer gives up exactly when the whole text would not fit, however
\* serde_json cuts it into writes; and what is returned is the whole reply.
THEOREM RepliesAreWhole == HandlersSpec => []WithinLimit
<1>1. HandlersInv /\ ReplyInv => WithinLimit
  <2> SUFFICES ASSUME HandlersInv, ReplyInv,
                      stage = "answered", ran # NoRun, status \in {200, 502}
               PROVE  WithinLimit
    BY DEF WithinLimit
  <2> DEFINE max == settings.max_response_bytes
  <2>1. /\ Whole
        /\ status = 200 <=> ~Exceeds(Reply, max)
        /\ status = 200 => body = Reply
    BY DEF ReplyInv
  <2>2. Reply \in JsonTexts
    BY <2>1, ReplyIs
  <2>3. max \in Nat
    <3>1. IsSettings(settings) /\ SoundButBind
      BY Settled DEF HandlersInv, StartInv
    <3>2. max \in Int /\ max > 0
      BY <3>1 DEF IsSettings, Numbers, SoundButBind
    <3> HIDE DEF max
    <3> QED BY <3>2
  <2> HIDE DEF max
  <2>4. Exceeds(Reply, max) <=> ~(SizeOf(Reply) <= max)
    BY <2>2, <2>3, ExceedsIs
  <2>5. (status = 200) = (SizeOf(Reply) <= max)
    BY <2>1, <2>4
  <2> QED BY <2>1, <2>5 DEF WithinLimit, Reply, max
<1> QED BY <1>1, HandlersInvariant, ReplyInvariant, PTL

\* serialize_map and object_keys: whatever Redis answers, no object of the body has a key
\* twice, at any depth, in either encoding.
THEOREM NoEntriesAreLost == HandlersSpec => []NoEntryLost
<1>1. HandlersInv /\ ReplyInv => NoEntryLost
  <2> SUFFICES ASSUME HandlersInv, ReplyInv, stage = "answered", body # NoBody
               PROVE  NoRepeatedKey(body)
    BY DEF NoEntryLost
  <2>1. ran # NoRun /\ status = 200
    BY DEF ReplyInv
  <2>2. status \in {200, 502}
    BY <2>1
  <2>3. Whole /\ body = Reply
    BY <2>1, <2>2 DEF ReplyInv
  <2> QED BY <2>3, ReplyIs
<1> QED BY <1>1, HandlersInvariant, ReplyInvariant, PTL

-----------------------------------------------------------------------------
(* The policy, at the handlers.                                            *)

\* Whatever token, route and batch a request has, the handlers decide on it as
\* the documentation says, and nothing hard-denied is handed to Redis.
THEOREM HandlersDecideAsDocumented == HandlersSpec => [](DecidesAsDocumented /\ HardDenyHolds)
<1>1. HandlersSpec => PolicySpec
  BY HandlersImplementPolicy DEF ImplementsPolicy
<1> QED BY <1>1, BatchesAreDecided, HardDeniesHold, PTL

\* A hard-denied command runs for a request only on the operator's word: the one
\* enabled entry of its token has the capability that is made for the command.
RunsAsGranted ==
    stage = "answered" /\ ran # NoRun =>
        \E e \in EntriesOf(Presented) :
            /\ EntriesOf(Presented) = {e}
            /\ ran.target = e[1]
            /\ \A k \in 1 .. Len(ran.commands) : ran.commands[k] \in DeniedCommands =>
                  \/ ran.commands[k] \in {"EVAL", "EVALSHA", "SCRIPT"} /\ "ratelimit" \in e[2]
                  \/ ran.commands[k] = "PUBLISH" /\ "realtime" \in e[2]

\* From the token file to Redis: what a target gets for a token goes through
\* start-up, authentication and policy, and none of them widens what was granted.
THEOREM HardDeniedRunsAsGranted == HandlersSpec => []RunsAsGranted
<1>1. HandlersInv /\ RunsWhereConfigured /\ HardDenyHolds => RunsAsGranted
  <2> SUFFICES ASSUME HandlersInv, RunsWhereConfigured, HardDenyHolds,
                      stage = "answered", ran # NoRun
               PROVE  RunsAsGranted
    BY DEF RunsAsGranted
  <2>1. /\ request.route # "metrics"
        /\ phase = "judged" /\ sent # Denied /\ ran.commands = sent
    BY DEF HandlersInv, RequestInv, RanAsRouted
  <2> DEFINE entries == IF Presented = "" THEN {} ELSE EntriesOf(Presented)
  <2>2. PICK e \in entries : /\ entries = {e}
                             /\ ran.target = e[1]
                             /\ caps = IF e[2] = NoType THEN {"command"} ELSE e[2] \ {""}
    BY <2>1 DEF RunsWhereConfigured
  <2>3. EntriesOf(Presented) = {e}
    BY <2>2
  <2>4. \A c \in {"ratelimit", "realtime"} : c \in caps => c \in e[2]
    BY <2>2
  <2>5. \A k \in 1 .. Len(sent) : sent[k] \in DeniedCommands =>
           \/ sent[k] \in {"EVAL", "EVALSHA", "SCRIPT"} /\ "ratelimit" \in e[2]
           \/ sent[k] = "PUBLISH" /\ "realtime" \in e[2]
    BY <2>1, <2>4 DEF HardDenyHolds
  <2> QED BY <2>1, <2>2, <2>3, <2>5 DEF RunsAsGranted
<1> QED BY <1>1, HandlersInvariant, TokensAreRouted, HandlersDecideAsDocumented, PTL
=============================================================================
