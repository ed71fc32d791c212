------------------------- MODULE DeliveryLoopProofs -------------------------
(***************************************************************************)
(* Inbound delivery for any number of channels, agents, messages and       *)
(* restarts: nothing is lost, nothing takes effect twice unexcused, lanes  *)
(* keep the log's order and controls settle.                               *)
(***************************************************************************)
EXTENDS DeliveryLoop, FiniteSetTheorems, SequenceTheorems, WellFoundedInduction, TLAPS

----------------------------------------------------------------------------
(* Positions in order.                                                     *)

\* Every set of naturals has a least element: what inductions rest on.
LEMMA LeastNatural ==
  ASSUME NEW T \in SUBSET Nat, T # {}
  PROVE  \E m \in T : \A n \in T : m <= n
<1> DEFINE R == {ss \in Nat \X Nat : ss[1] < ss[2]}
<1>1. IsWellFoundedOn(R, Nat)
  BY NatLessThanWellFounded DEF OpToRel
<1>2. PICK m \in T : \A n \in T : ~ (<<n, m>> \in R)
  BY <1>1, WFMin
<1>3. ASSUME NEW n \in T PROVE m <= n
  <2>1. m \in Nat /\ n \in Nat /\ <<n, m>> \notin R
    BY <1>2
  <2>2. ~ (n < m)
    BY <2>1
  <2> QED BY <2>1, <2>2
<1> QED BY <1>2, <1>3

LEMMA InOrderExists ==
  \A n \in Nat : \A S \in SUBSET (1..n) :
     IsFiniteSet(S) /\ \E q \in Enumerations(S) : Ascending(q)
<1> DEFINE P(n) == \A S \in SUBSET (1..n) :
                     IsFiniteSet(S) /\ \E q \in Enumerations(S) : Ascending(q)
           Bad == {n \in Nat : ~ P(n)}
<1>1. P(0)
  <2> SUFFICES ASSUME NEW S \in SUBSET (1..0) PROVE IsFiniteSet(S) /\ \E q \in Enumerations(S) : Ascending(q)
    OBVIOUS
  <2>1. S = {} /\ IsFiniteSet(S) /\ Cardinality(S) = 0
    <3>1. S = {}
      OBVIOUS
    <3> QED BY <3>1, FS_EmptySet
  <2>2. <<>> \in Enumerations(S) /\ Ascending(<<>>)
    BY <2>1 DEF Enumerations, Ascending
  <2> QED BY <2>1, <2>2
<1>2. ASSUME NEW n \in Nat, P(n) PROVE P(n + 1)
  <2> SUFFICES ASSUME NEW S \in SUBSET (1..(n + 1))
               PROVE IsFiniteSet(S) /\ \E q \in Enumerations(S) : Ascending(q)
    OBVIOUS
  <2>1. CASE n + 1 \notin S
    <3>1. S \in SUBSET (1..n)
      BY <2>1
    <3> QED BY <1>2, <3>1
  <2>2. CASE n + 1 \in S
    <3> DEFINE B == S \ {n + 1}
    <3>1. B \in SUBSET (1..n) /\ S = B \cup {n + 1} /\ n + 1 \notin B
      BY <2>2
    <3>2. PICK q \in Enumerations(B) : Ascending(q)
      BY <1>2, <3>1
    <3>3. /\ IsFiniteSet(B) /\ IsFiniteSet(S) /\ Cardinality(B) \in Nat
          /\ Cardinality(S) = Cardinality(B) + 1
      <4>1. IsFiniteSet(B)
      BY <1>2, <3>1
    <4>2. IsFiniteSet(B \cup {n + 1}) /\ Cardinality(B \cup {n + 1}) = Cardinality(B) + 1
      BY <3>1, <4>1, FS_AddElement
    <4> QED BY <3>1, <4>1, <4>2, FS_CardinalityType
    <3> DEFINE m == Cardinality(B)
               p == [k \in 1..(m + 1) |-> IF k = m + 1 THEN n + 1 ELSE q[k]]
    <3>4. /\ q \in [1..m -> B] /\ \A i \in B : \E k \in 1..m : q[k] = i
          /\ \A j, k \in 1..m : j < k => q[j] < q[k]
      BY <3>2 DEF Enumerations, Ascending
    <3>5. /\ DOMAIN p = 1..(m + 1) /\ m \in Nat /\ m + 1 \in 1..(m + 1)
          /\ \A k \in 1..(m + 1) : k # m + 1 => k \in 1..m /\ p[k] = q[k] /\ q[k] \in B
          /\ p[m + 1] = n + 1
      <4>1. m \in Nat
        BY <3>3
      <4> HIDE DEF m
      <4>2. \A k \in 1..(m + 1) : k # m + 1 => k \in 1..m /\ q[k] \in B
        BY <3>4, <4>1
      <4> QED BY <4>1, <4>2
    <3>6. p \in [1..Cardinality(S) -> S]
      <4>1. \A k \in 1..(m + 1) : p[k] \in S
        BY <3>1, <3>5
      <4> QED BY <3>3, <4>1
    <3>7. \A i \in S : \E k \in DOMAIN p : p[k] = i
      BY SMTT(40), <3>1, <3>3, <3>4
    <3>8. \A j, k \in DOMAIN p : j < k => p[j] < p[k]
      <4> SUFFICES ASSUME NEW j \in 1..(m + 1), NEW k \in 1..(m + 1), j < k PROVE p[j] < p[k]
        BY <3>5
      <4>1. j \in 1..m /\ p[j] = q[j] /\ q[j] \in B /\ q[j] \in 1..n
        <5>1. j # m + 1
          BY <3>5
        <5> QED BY <3>1, <3>5, <5>1
      <4>2. CASE k = m + 1
        BY <3>5, <4>1, <4>2
      <4>3. CASE k # m + 1
        BY <3>4, <3>5, <4>1, <4>3
      <4> QED BY <4>2, <4>3
    <3> QED BY <3>3, <3>5, <3>6, <3>7, <3>8 DEF Enumerations, Ascending
  <2> QED BY <2>1, <2>2
<1>3. Bad = {}
  <2> SUFFICES ASSUME Bad # {} PROVE FALSE
    OBVIOUS
  <2>1. PICK m \in Bad : \A n \in Bad : m <= n
    BY LeastNatural
  <2>2. m \in Nat /\ ~ P(m) /\ m # 0
    BY <2>1, <1>1
  <2>3. m - 1 \in Nat /\ P(m - 1)
    BY SMTT(40), <2>1, <2>2
  <2>4. P((m - 1) + 1)
    BY <1>2, <2>3
  <2> HIDE DEF P
  <2>5. (m - 1) + 1 = m
    BY <2>2
  <2> QED BY <2>2, <2>4, <2>5
<1> QED BY <1>3

LEMMA InOrderIs ==
  ASSUME NEW S \in SUBSET Positions
  PROVE  /\ InOrder(S) \in Seq(S) /\ Len(InOrder(S)) \in Nat
         /\ \A k \in 1..Len(InOrder(S)) : InOrder(S)[k] \in S
         /\ \A i \in S : \E k \in 1..Len(InOrder(S)) : InOrder(S)[k] = i
         /\ \A j, k \in 1..Len(InOrder(S)) : j < k => InOrder(S)[j] < InOrder(S)[k]
<1>1. IsFiniteSet(S) /\ \E q \in Enumerations(S) : Ascending(q)
  BY InOrderExists, BoundsAssumption DEF Positions
<1>2. InOrder(S) \in Enumerations(S) /\ Ascending(InOrder(S))
  BY <1>1 DEF InOrder
<1>3. Cardinality(S) \in Nat
  BY <1>1, FS_CardinalityType
<1> DEFINE q == InOrder(S)
<1>4. /\ q \in [1..Cardinality(S) -> S] /\ DOMAIN q = 1..Cardinality(S)
      /\ \A i \in S : \E k \in DOMAIN q : q[k] = i
      /\ \A j, k \in DOMAIN q : j < k => q[j] < q[k]
  BY <1>2 DEF Enumerations, Ascending
<1>5. q \in Seq(S) /\ Len(q) = Cardinality(S)
  BY <1>3, <1>4
<1> QED BY <1>3, <1>4, <1>5

\* A ledger without i has all of its other positions, and no new ones.
LEMMA WithoutIs ==
  ASSUME NEW s \in Seq(Positions), NEW i
  PROVE  /\ Without(s, i) \in Seq(Positions) /\ Len(Without(s, i)) <= Len(s)
         /\ \A n \in 1..Len(Without(s, i)) : \E k \in 1..Len(s) : s[k] = Without(s, i)[n]
         /\ \A k \in 1..Len(s) :
              s[k] # i => \E n \in 1..Len(Without(s, i)) : Without(s, i)[n] = s[k]
<1>1. CASE ~ \E k \in DOMAIN s : s[k] = i
  BY <1>1 DEF Without
<1>2. CASE \E k \in DOMAIN s : s[k] = i
  <2> DEFINE m == CHOOSE n \in DOMAIN s : s[n] = i
             u == SubSeq(s, 1, m - 1)
             v == SubSeq(s, m + 1, Len(s))
  <2>1. m \in 1..Len(s) /\ s[m] = i /\ Len(s) \in Nat
    BY <1>2
  <2> HIDE DEF m
  <2>2. /\ u \in Seq(Positions) /\ Len(u) = m - 1
        /\ \A n \in 1..(m - 1) : u[n] = s[n]
    BY <2>1
  <2>3. /\ v \in Seq(Positions) /\ Len(v) = Len(s) - m
        /\ \A n \in 1..(Len(s) - m) : v[n] = s[m + n]
    BY <2>1
  <2>4. Without(s, i) = u \o v
    BY <1>2 DEF Without, m
  <2> HIDE DEF u, v
  <2>5. u \o v \in Seq(Positions) /\ Len(u \o v) = Len(s) - 1
    <3>1. Len(u) + Len(v) = Len(s) - 1
      BY <2>1, <2>2, <2>3
    <3> QED BY <2>2, <2>3, <3>1
  <2>6. ASSUME NEW n \in 1..(m - 1) PROVE (u \o v)[n] = s[n]
    <3>1. n \in 1..Len(u) /\ n \in 1..(Len(u) + Len(v))
      BY <2>1, <2>2, <2>3
    <3>2. (u \o v)[n] = u[n]
      BY <2>2, <2>3, <3>1
    <3> QED BY <2>2, <3>2
  <2>7. ASSUME NEW n \in 1..Len(s), n > m PROVE (u \o v)[n - 1] = s[n]
    <3>1. /\ n - 1 \in 1..(Len(u) + Len(v)) /\ ~ (n - 1 <= Len(u))
          /\ (n - 1) - Len(u) = n - m /\ n - m \in 1..(Len(s) - m) /\ m + (n - m) = n
      BY <2>1, <2>2, <2>3, <2>7
    <3>2. (u \o v)[n - 1] = v[(n - 1) - Len(u)]
      BY <2>2, <2>3, <3>1
    <3>3. v[n - m] = s[m + (n - m)]
      BY <2>3, <3>1
    <3> QED BY <3>1, <3>2, <3>3
  <2>8. ASSUME NEW n \in 1..Len(u \o v) PROVE \E k \in 1..Len(s) : s[k] = (u \o v)[n]
    <3>1. CASE n < m
      <4>1. n \in 1..(m - 1) /\ n \in 1..Len(s)
        BY <2>1, <2>5, <3>1
      <4> QED BY <2>6, <4>1
    <3>2. CASE ~ (n < m)
      <4>1. n + 1 \in 1..Len(s) /\ n + 1 > m /\ (n + 1) - 1 = n
        BY <2>1, <2>5, <3>2
      <4>2. (u \o v)[(n + 1) - 1] = s[n + 1]
        BY <2>7, <4>1
      <4> QED BY <4>1, <4>2
    <3> QED BY <3>1, <3>2
  <2>9. ASSUME NEW k \in 1..Len(s), s[k] # i PROVE \E n \in 1..Len(u \o v) : (u \o v)[n] = s[k]
    <3>1. CASE k < m
      <4>1. k \in 1..(m - 1) /\ k \in 1..Len(u \o v)
        BY <2>1, <2>5, <3>1
      <4> QED BY <2>6, <4>1
    <3>2. CASE k > m
      <4>1. k - 1 \in 1..Len(u \o v)
        BY <2>1, <2>5, <3>2
      <4> QED BY <2>7, <3>2, <4>1
    <3>3. k # m
      BY <2>1, <2>9
    <3> QED BY <2>1, <3>1, <3>2, <3>3
  <2>10. Len(u \o v) <= Len(s)
    BY <2>1, <2>5
  <2> QED BY <2>4, <2>5, <2>8, <2>9, <2>10
<1> QED BY <1>1, <1>2

----------------------------------------------------------------------------
(* What the sequences of a step hold.                                      *)

\* A log entry names agents it wakes, or the one target of a control.
LEMMA Entries ==
  ASSUME TypeOK, NEW c \in Channels, NEW i \in 1..Len(log[c])
  PROVE  /\ i \in Positions /\ log[c][i] \in Messages /\ Kind(c, i) \in Kinds
         /\ To(c, i) \subseteq Names
         /\ Kind(c, i) \in {"text", "watch"} => To(c, i) \subseteq Agents
         /\ IsControl(c, i) => \E a \in Names : To(c, i) = {a}
<1>1. log[c] \in Seq(Messages) /\ Len(log[c]) \in Nat /\ Len(log[c]) <= MaxLog /\ MaxLog \in Nat
  BY BoundsAssumption DEF TypeOK
<1>2. i \in Positions /\ log[c][i] \in Messages
  BY <1>1 DEF Positions
<1>3. log[c][i] \in [kind : Kinds, to : SUBSET Names]
  BY <1>2, MessagesAssumption
<1> QED BY <1>2, <1>3, MessagesAssumption DEF Kind, To, IsControl, Kinds

\* Taking the head off a lane with no position twice.
LEMMA Pop ==
  ASSUME NEW q \in Seq(Positions), q # <<>>,
         \A j, k \in 1..Len(q) : q[j] = q[k] => j = k
  PROVE  /\ Tail(q) \in Seq(Positions) /\ Head(q) = q[1] /\ Head(q) \in Positions
         /\ Len(q) \in Nat /\ 1 \in 1..Len(q)
         /\ Len(Tail(q)) = Len(q) - 1
         /\ \A k \in 1..Len(Tail(q)) :
              k + 1 \in 1..Len(q) /\ Tail(q)[k] = q[k + 1] /\ q[k + 1] # Head(q)
         /\ \A k \in 1..Len(q) : q[k] # Head(q) =>
              k - 1 \in 1..Len(Tail(q)) /\ Tail(q)[k - 1] = q[k]
         /\ \A j, k \in 1..Len(Tail(q)) : Tail(q)[j] = Tail(q)[k] => j = k
<1>1. /\ Tail(q) \in Seq(Positions) /\ Len(Tail(q)) = Len(q) - 1 /\ Head(q) = q[1]
      /\ Len(q) \in Nat /\ Len(q) >= 1 /\ Head(q) \in Positions
  OBVIOUS
<1>2. ASSUME NEW k \in 1..Len(Tail(q))
      PROVE  k + 1 \in 1..Len(q) /\ Tail(q)[k] = q[k + 1] /\ q[k + 1] # Head(q)
  <2>1. k + 1 \in 1..Len(q) /\ k + 1 # 1 /\ 1 \in 1..Len(q)
    BY <1>1
  <2>2. Tail(q)[k] = q[k + 1]
    BY <1>1
  <2>3. q[k + 1] # q[1]
    BY <2>1
  <2> QED BY <1>1, <2>1, <2>2, <2>3
<1>3. ASSUME NEW k \in 1..Len(q), q[k] # Head(q)
      PROVE  k - 1 \in 1..Len(Tail(q)) /\ Tail(q)[k - 1] = q[k]
  <2>1. k # 1
    BY <1>1, <1>3
  <2>2. k - 1 \in 1..Len(Tail(q)) /\ (k - 1) + 1 = k
    BY <1>1, <2>1
  <2> QED BY <1>2, <2>2
<1>4. ASSUME NEW j \in 1..Len(Tail(q)), NEW k \in 1..Len(Tail(q)), Tail(q)[j] = Tail(q)[k]
      PROVE  j = k
  <2>1. q[j + 1] = q[k + 1] /\ j + 1 \in 1..Len(q) /\ k + 1 \in 1..Len(q)
    BY <1>2, <1>4
  <2>2. j + 1 = k + 1
    BY <2>1
  <2> QED BY <1>1, <2>2
<1> QED BY <1>1, <1>2, <1>3, <1>4

\* t is s with the operations A and then the turns B behind it, each once, the turns in order.
Behind(s, A, B, t) ==
  /\ t \in Seq(Positions) /\ Len(s) \in Nat /\ Len(t) \in Nat /\ Len(s) <= Len(t)
  /\ \A k \in 1..Len(s) : t[k] = s[k]
  /\ \A k \in (Len(s) + 1)..Len(t) : t[k] \in A \cup B
  /\ \A i \in A \cup B : \E k \in (Len(s) + 1)..Len(t) : t[k] = i
  /\ \A j, k \in (Len(s) + 1)..Len(t) : t[j] = t[k] => j = k
  /\ \A k \in (Len(s) + 1)..Len(t) : t[k] \in B =>
       \A i \in B : i < t[k] => \E j \in (Len(s) + 1)..(k - 1) : t[j] = i

\* What a hand-over puts behind a lane s: the operations A, then the turns B.
LEMMA Queued ==
  ASSUME NEW s \in Seq(Positions), NEW A \in SUBSET Positions, NEW B \in SUBSET Positions,
         A \cap B = {}, NEW t, t = s \o InOrder(A) \o InOrder(B)
  PROVE  Behind(s, A, B, t)
<1> DEFINE u == InOrder(A)
           v == InOrder(B)
           x == Len(s)
           y == Len(u)
           z == Len(v)
<1>0. Positions \subseteq Nat
  BY BoundsAssumption DEF Positions
<1>1. /\ u \in Seq(A) /\ y \in Nat /\ \A k \in 1..y : u[k] \in A
      /\ \A i \in A : \E k \in 1..y : u[k] = i
      /\ \A j, k \in 1..y : j < k => u[j] < u[k]
  BY InOrderIs
<1>2. /\ v \in Seq(B) /\ z \in Nat /\ \A k \in 1..z : v[k] \in B
      /\ \A i \in B : \E k \in 1..z : v[k] = i
      /\ \A j, k \in 1..z : j < k => v[j] < v[k]
  BY InOrderIs
<1> HIDE DEF u, v
<1>3. t = s \o u \o v
  BY DEF u, v
<1>4. u \in Seq(Positions) /\ v \in Seq(Positions) /\ x \in Nat
  BY <1>1, <1>2
<1>5. /\ t \in Seq(Positions) /\ Len(t) = x + y + z
      /\ \A k \in 1..(x + y + z) :
           t[k] = IF k <= x THEN s[k] ELSE IF k <= x + y THEN u[k - x] ELSE v[k - (x + y)]
  <2>1. s \o u \in Seq(Positions) /\ Len(s \o u) = x + y
    BY <1>4, <1>1
  <2>2. \A k \in 1..(x + y) : (s \o u)[k] = IF k <= x THEN s[k] ELSE u[k - x]
    BY <1>4, <1>1
  <2>3. t \in Seq(Positions) /\ Len(t) = x + y + z
    BY <1>3, <1>4, <1>2, <2>1
  <2>4. \A k \in 1..(x + y + z) : t[k] = IF k <= x + y THEN (s \o u)[k] ELSE v[k - (x + y)]
    BY <1>3, <1>4, <1>2, <1>1, <2>1
  <2>5. ASSUME NEW k \in 1..(x + y + z)
        PROVE  t[k] = IF k <= x THEN s[k] ELSE IF k <= x + y THEN u[k - x] ELSE v[k - (x + y)]
    <3>1. CASE k <= x + y
      <4>1. k \in 1..(x + y)
        BY <1>1, <1>2, <1>4, <3>1
      <4> QED BY <2>2, <2>4, <3>1, <4>1
    <3>2. CASE ~ (k <= x + y)
      <4>1. ~ (k <= x)
        BY <1>1, <1>4, <3>2
      <4> QED BY <2>4, <3>2, <4>1
    <3> QED BY <3>1, <3>2
  <2> QED BY <2>3, <2>5
<1> HIDE DEF x, y, z
<1>6. \A k \in (x + 1)..(x + y) : k - x \in 1..y /\ t[k] = u[k - x] /\ t[k] \in A
  <2> SUFFICES ASSUME NEW k \in (x + 1)..(x + y)
               PROVE k - x \in 1..y /\ t[k] = u[k - x] /\ t[k] \in A
    OBVIOUS
  <2>1. k - x \in 1..y /\ k \in 1..(x + y + z) /\ ~ (k <= x) /\ k <= x + y
    BY <1>1, <1>2, <1>4
  <2>2. t[k] = u[k - x]
    BY <1>5, <2>1
  <2> QED BY <1>1, <2>1, <2>2
<1>7. \A k \in (x + y + 1)..(x + y + z) :
        k - (x + y) \in 1..z /\ t[k] = v[k - (x + y)] /\ t[k] \in B
  <2> SUFFICES ASSUME NEW k \in (x + y + 1)..(x + y + z)
               PROVE k - (x + y) \in 1..z /\ t[k] = v[k - (x + y)] /\ t[k] \in B
    OBVIOUS
  <2>1. k - (x + y) \in 1..z /\ k \in 1..(x + y + z) /\ ~ (k <= x) /\ ~ (k <= x + y)
    BY <1>1, <1>2, <1>4
  <2>2. t[k] = v[k - (x + y)]
    BY <1>5, <2>1
  <2> QED BY <1>2, <2>1, <2>2
<1>8. \A k \in 1..x : t[k] = s[k]
  <2>1. \A k \in 1..x : k \in 1..(x + y + z) /\ k <= x
    BY <1>1, <1>2, <1>4
  <2> QED BY <1>5, <2>1
<1>9. \A k \in (x + 1)..Len(t) : k \in (x + 1)..(x + y) \/ k \in (x + y + 1)..(x + y + z)
  BY <1>1, <1>2, <1>4, <1>5
<1>10. \A i \in A : \E k \in (x + 1)..Len(t) : t[k] = i
  <2> SUFFICES ASSUME NEW i \in A PROVE \E k \in (x + 1)..Len(t) : t[k] = i
    OBVIOUS
  <2>1. PICK k \in 1..y : u[k] = i
    BY <1>1
  <2>2. x + k \in (x + 1)..(x + y) /\ x + k \in (x + 1)..Len(t) /\ (x + k) - x = k
    BY <1>1, <1>2, <1>4, <1>5
  <2> QED BY <1>6, <2>1, <2>2
<1>11. \A i \in B : \E k \in (x + y + 1)..Len(t) : t[k] = i
  <2> SUFFICES ASSUME NEW i \in B PROVE \E k \in (x + y + 1)..Len(t) : t[k] = i
    OBVIOUS
  <2>1. PICK k \in 1..z : v[k] = i
    BY <1>2
  <2>2. /\ x + y + k \in (x + y + 1)..(x + y + z) /\ x + y + k \in (x + y + 1)..Len(t)
        /\ (x + y + k) - (x + y) = k
    BY <1>1, <1>2, <1>4, <1>5
  <2> QED BY <1>7, <2>1, <2>2
<1>12. ASSUME NEW j \in (x + 1)..Len(t), NEW k \in (x + 1)..Len(t), j < k PROVE t[j] # t[k]
  <2>1. CASE j \in (x + 1)..(x + y) /\ k \in (x + 1)..(x + y)
    <3>1. j - x \in 1..y /\ k - x \in 1..y /\ j - x < k - x
      BY <1>4, <1>6, <1>12, <2>1
    <3>2. u[j - x] < u[k - x] /\ u[j - x] \in Positions /\ u[k - x] \in Positions
      BY <1>1, <3>1
    <3>3. \A m, n \in Positions : m < n => m # n
      BY <1>0
    <3>4. u[j - x] # u[k - x]
      BY <3>2, <3>3
    <3> QED BY <1>6, <2>1, <3>4
  <2>2. CASE j \in (x + 1)..(x + y) /\ k \in (x + y + 1)..(x + y + z)
    BY <1>6, <1>7, <2>2
  <2>3. CASE j \in (x + y + 1)..(x + y + z) /\ k \in (x + y + 1)..(x + y + z)
    <3>1. j - (x + y) \in 1..z /\ k - (x + y) \in 1..z /\ j - (x + y) < k - (x + y)
      BY <1>1, <1>4, <1>7, <1>12, <2>3
    <3>2. v[j - (x + y)] < v[k - (x + y)] /\ v[j - (x + y)] \in Positions /\ v[k - (x + y)] \in Positions
      BY <1>2, <3>1
    <3>3. \A m, n \in Positions : m < n => m # n
      BY <1>0
    <3>4. v[j - (x + y)] # v[k - (x + y)]
      BY <3>2, <3>3
    <3> QED BY <1>7, <2>3, <3>4
  <2>4. CASE j \in (x + y + 1)..(x + y + z) /\ k \in (x + 1)..(x + y)
    BY <1>1, <1>2, <1>4, <1>12, <2>4
  <2> QED BY <1>9, <2>1, <2>2, <2>3, <2>4
<1>13. \A j, k \in (x + 1)..Len(t) : t[j] = t[k] => j = k
  <2> SUFFICES ASSUME NEW j \in (x + 1)..Len(t), NEW k \in (x + 1)..Len(t), j # k
               PROVE t[j] # t[k]
    OBVIOUS
  <2>1. j < k \/ k < j
    BY <1>4
  <2> QED BY <1>12, <2>1
<1>14. ASSUME NEW k \in (x + 1)..Len(t), t[k] \in B, NEW i \in B, i < t[k]
       PROVE  \E j \in (x + 1)..(k - 1) : t[j] = i
  <2>1. PICK j \in (x + y + 1)..Len(t) : t[j] = i
    BY <1>11
  <2>2. k \in (x + y + 1)..(x + y + z)
    BY <1>6, <1>9, <1>14
  <2>3. j \in (x + y + 1)..(x + y + z) /\ j \in (x + 1)..Len(t)
    BY <1>1, <1>2, <1>4, <1>5, <2>1
  <2>4. CASE j < k
    <3>1. j \in (x + 1)..(k - 1)
      BY <1>1, <1>4, <2>3, <2>4
    <3> QED BY <2>1, <3>1
  <2>5. CASE ~ (j < k)
    <3>1. j # k
      <4>1. \A m, n \in Positions : m < n => m # n
        BY <1>0
      <4>2. i # t[k]
        BY <1>14, <4>1
      <4> QED BY <2>1, <4>2
    <3>2. k - (x + y) \in 1..z /\ j - (x + y) \in 1..z /\ k - (x + y) < j - (x + y)
      BY <1>1, <1>4, <1>7, <2>2, <2>3, <2>5, <3>1
    <3>3. t[k] < t[j]
      BY <1>2, <1>7, <2>2, <2>3, <3>2
    <3>4. \A m, n \in Positions : m < n => ~ (n < m)
      BY <1>0
    <3>5. i \in Positions /\ t[k] \in Positions
      BY <1>14
    <3> QED BY <1>14, <2>1, <3>3, <3>4, <3>5
  <2> QED BY <2>4, <2>5
<1>15. \A i \in A \cup B : \E k \in (x + 1)..Len(t) : t[k] = i
  <2>1. (x + y + 1)..Len(t) \subseteq (x + 1)..Len(t)
    BY <1>1, <1>2, <1>4, <1>5
  <2> QED BY <1>10, <1>11, <2>1
<1>16. \A k \in (x + 1)..Len(t) : t[k] \in A \cup B
  BY <1>6, <1>7, <1>9
<1>17. x <= Len(t) /\ Len(t) \in Nat
  BY <1>1, <1>2, <1>4, <1>5
<1> QED BY <1>4, <1>5, <1>8, <1>13, <1>14, <1>15, <1>16, <1>17 DEF x, Behind

----------------------------------------------------------------------------
(* What the theorems rest on.                                              *)

\* i waits in a's lane of c, or is at work there.
InLane(a, c, i) == \E k \in 1..Len(lane[a][c]) : lane[a][c][k] = i
Atwork(a, c) == stage[a][c] \in {"prompted", "reviewing", "settling", "recording"}

\* The positions of the files and the gateway are positions of the log.
PositionsInLog ==
  /\ \A c \in Channels :
       /\ offset[c] <= Len(log[c]) /\ saved[c] <= Len(log[c]) /\ target[c] <= Len(log[c])
       /\ phase = "down" => offset[c] = 0
  /\ \A a \in Names, c \in Channels : \A i \in everHandled[a][c] : i <= Len(log[c])
  /\ \A a \in Agents, c \in Channels, i \in Positions : runs[a][c][i] > 0 => i <= Len(log[c])

\* What waits in a lane is dispatched, wanted, and in no other place of it.
LaneAwaited(a, c) ==
  /\ \A j, k \in 1..Len(lane[a][c]) : lane[a][c][j] = lane[a][c][k] => j = k
  /\ \A i \in Positions : a \in awaits[c][i] <=> InLane(a, c, i)
  /\ \A i \in Positions : InLane(a, c, i) =>
       /\ i <= offset[c] /\ i \in open[c]
       /\ a \in To(c, i) /\ ~ IsHandled(a, c, i)
       /\ IsControl(c, i) => reply[c][i] = "due"
  /\ stage[a][c] # "idle" => lane[a][c] # <<>> /\ HeadKind(a, c) \in {"text", "watch"}
LanesAwaited == \A a \in Agents, c \in Channels : LaneAwaited(a, c)

DispatchesOpen ==
  \A c \in Channels, i \in Positions :
    /\ i \in open[c] => i <= offset[c]
    /\ reply[c][i] # "none" => i \in open[c] /\ IsControl(c, i)
    /\ reply[c][i] = "sent" => awaits[c][i] = {} /\ acks[c][i] > 0

\* What took effect and is not recorded is at work, or waits to be answered.
Ongoing(a, c, i) ==
  /\ a \in Agents /\ i \in open[c] /\ a \in To(c, i)
  /\ \/ InLane(a, c, i) /\ i = Head1(a, c) /\ Atwork(a, c)
     \/ ~ InLane(a, c, i) /\ reply[c][i] # "none"
BegunOpen == \A a \in Names, c \in Channels, i \in Positions :
               <<a, c, i>> \in begun => Ongoing(a, c, i)

LedgerTrue == \A a \in Names, c \in Channels, i \in Positions :
                IsHandled(a, c, i) => i \in everHandled[a][c]

Shape == PositionsInLog /\ LanesAwaited /\ DispatchesOpen /\ BegunOpen /\ LedgerTrue

\* A message up to the offset is handled, or somebody will handle it.
Covered(a, c, i) ==
  i \in everHandled[a][c] \/ a \in awaits[c][i] \/ reply[c][i] # "none"
OffsetCovered ==
  \A c \in Channels : \A i \in 1..offset[c] :
    Kind(c, i) # "watch" => \A a \in To(c, i) : Covered(a, c, i)

\* Work that took effect once more than it was excused is on record or begun.
Account(a, c, i) ==
  /\ runs[a][c][i] <= 1 + excused[a][c][i] /\ reviews[a][c][i] <= 1 + excused[a][c][i]
  /\ runs[a][c][i] = 1 + excused[a][c][i] \/ reviews[a][c][i] = 1 + excused[a][c][i] =>
       IsHandled(a, c, i) \/ <<a, c, i>> \in begun
  /\ stage[a][c] = "prompted" /\ i = Head1(a, c) =>
       reviews[a][c][i] <= excused[a][c][i] /\ <<a, c, i>> \in begun
  /\ stage[a][c] = "reviewing" /\ i = Head1(a, c) => <<a, c, i>> \in begun
RunsAccounted == \A a \in Agents, c \in Channels, i \in Positions : Account(a, c, i)

\* A text that a was woken for was prompted, or is handled.
Passed(a, c, i) ==
  Kind(c, i) = "text" /\ a \in To(c, i) => runs[a][c][i] > 0 \/ i \in everHandled[a][c]
InTurn(a, c, k) ==
  Kind(c, lane[a][c][k]) \in {"text", "watch"} =>
    \A i \in 1..(lane[a][c][k] - 1) : Passed(a, c, i) \/ \E j \in 1..(k - 1) : lane[a][c][j] = i
LanesInOrder == \A a \in Agents, c \in Channels : \A k \in 1..Len(lane[a][c]) : InTurn(a, c, k)
TurnsInOrder ==
  \A a \in Agents, c \in Channels, j \in Positions :
    runs[a][c][j] > 0 /\ Kind(c, j) \in {"text", "watch"} => \A i \in 1..(j - 1) : Passed(a, c, i)

----------------------------------------------------------------------------
(* What the parts of a step change.                                        *)

Ledgers == /\ handled \in [Names -> [Channels -> Seq(Positions)]]
           /\ \A a \in Names, c \in Channels : Len(handled[a][c]) <= MaxHandled
           /\ everHandled \in [Names -> [Channels -> SUBSET Positions]]
           /\ excused \in [Names -> [Channels -> [Positions -> Nat]]]

\* markHandled: i is on record, and what the ledger forgets is excused.
LEMMA Marked ==
  ASSUME TypeOK, NEW a \in Names, NEW c \in Channels, NEW i \in Positions, MarkHandled(a, c, i)
  PROVE  /\ Ledgers'
         /\ begun' = begun \ {<<a, c, i>>}
         /\ \A b \in Names, d \in Channels : <<b, d>> # <<a, c>> =>
              /\ handled'[b][d] = handled[b][d] /\ everHandled'[b][d] = everHandled[b][d]
              /\ excused'[b][d] = excused[b][d]
         /\ everHandled'[a][c] = everHandled[a][c] \cup {i}
         /\ IsHandled(a, c, i)'
         /\ \A j \in Positions :
              /\ IsHandled(a, c, j)' => j = i \/ IsHandled(a, c, j)
              /\ excused'[a][c][j] >= excused[a][c][j]
              /\ IsHandled(a, c, j) /\ excused'[a][c][j] <= excused[a][c][j] => IsHandled(a, c, j)'
<1> DEFINE old == handled[a][c]
           rest == Without(old, i)
           ledger == Append(rest, i)
           full == LedgerFull(Len(ledger))
           new == IF full THEN Tail(ledger) ELSE ledger
<1>1. /\ old \in Seq(Positions) /\ Len(old) <= MaxHandled /\ Len(old) \in Nat
      /\ MaxHandled \in Nat /\ MaxHandled >= 1
  BY BoundsAssumption DEF TypeOK
<1>2. /\ rest \in Seq(Positions) /\ Len(rest) <= Len(old)
      /\ \A n \in 1..Len(rest) : \E k \in 1..Len(old) : old[k] = rest[n]
      /\ \A k \in 1..Len(old) : old[k] # i => \E n \in 1..Len(rest) : rest[n] = old[k]
  <2> HIDE DEF old
  <2> QED BY <1>1, WithoutIs
<1>3. /\ handled' = [handled EXCEPT ![a][c] = new]
      /\ everHandled' = [everHandled EXCEPT ![a][c] = @ \cup {i}]
      /\ begun' = begun \ {<<a, c, i>>}
      /\ excused' = IF full THEN [excused EXCEPT ![a][c][Head(ledger)] = @ + 1] ELSE excused
  BY DEF MarkHandled
<1> HIDE DEF old, rest
<1>4. /\ ledger \in Seq(Positions) /\ Len(ledger) = Len(rest) + 1 /\ Len(rest) \in Nat
      /\ \A n \in 1..Len(rest) : ledger[n] = rest[n]
      /\ ledger[Len(rest) + 1] = i
  BY <1>2
<1>5. full <=> Len(rest) + 1 > MaxHandled
  BY <1>4 DEF LedgerFull
<1> HIDE DEF ledger, full
<1>6. new \in Seq(Positions) /\ Len(new) <= MaxHandled
  <2>1. CASE full
    <3>1. Tail(ledger) \in Seq(Positions) /\ Len(Tail(ledger)) = Len(rest)
      BY <1>4
    <3> QED BY <1>1, <1>2, <1>4, <2>1, <3>1
  <2>2. CASE ~ full
    BY <1>1, <1>4, <1>5, <2>2
  <2> QED BY <2>1, <2>2
<1>7. full => Len(rest) >= 1
  BY <1>1, <1>4, <1>5
<1>8. full => Head(ledger) = ledger[1] /\ Head(ledger) \in Positions
  BY <1>4
<1>9. \A n \in 1..Len(new) : new[n] = i \/ \E k \in 1..Len(old) : old[k] = new[n]
  <2>1. \A n \in 1..Len(ledger) : ledger[n] = i \/ \E k \in 1..Len(old) : old[k] = ledger[n]
    BY <1>2, <1>4
  <2>2. CASE full
    <3>1. Len(Tail(ledger)) = Len(rest) /\ \A n \in 1..Len(rest) : Tail(ledger)[n] = ledger[n + 1]
      BY <1>4
    <3>2. \A n \in 1..Len(rest) : n + 1 \in 1..Len(ledger)
      BY <1>4
    <3> QED BY <2>1, <2>2, <3>1, <3>2
  <2>3. CASE ~ full
    BY <2>1, <2>3
  <2> QED BY <2>2, <2>3
<1>10. \E n \in 1..Len(new) : new[n] = i
  <2>1. CASE full
    <3>1. /\ Len(Tail(ledger)) = Len(rest) /\ Len(rest) \in 1..Len(rest)
          /\ Tail(ledger)[Len(rest)] = ledger[Len(rest) + 1]
      BY <1>4, <1>7, <2>1
    <3> QED BY <1>4, <2>1, <3>1
  <2>2. CASE ~ full
    <3>1. Len(rest) + 1 \in 1..Len(ledger)
      BY <1>4
    <3> QED BY <1>4, <2>2, <3>1
  <2> QED BY <2>1, <2>2
<1>11. ASSUME NEW k \in 1..Len(old), ~ \E n \in 1..Len(new) : new[n] = old[k]
       PROVE  full /\ old[k] = Head(ledger)
  <2>1. old[k] # i
    BY <1>10, <1>11
  <2>2. PICK n \in 1..Len(rest) : rest[n] = old[k]
    BY <1>2, <2>1
  <2>3. n \in 1..Len(ledger) /\ ledger[n] = old[k]
    BY <1>4, <2>2
  <2>4. full
    BY <1>11, <2>3
  <2>5. CASE n = 1
    BY <1>8, <2>3, <2>4, <2>5
  <2>6. CASE n # 1
    <3>1. n - 1 \in 1..Len(Tail(ledger)) /\ Tail(ledger)[n - 1] = ledger[n]
      BY <1>4, <2>2, <2>6
    <3> QED BY <1>11, <2>3, <2>4, <3>1
  <2> QED BY <2>4, <2>5, <2>6
<1>12. /\ handled \in [Names -> [Channels -> Seq(Positions)]]
       /\ everHandled \in [Names -> [Channels -> SUBSET Positions]]
       /\ excused \in [Names -> [Channels -> [Positions -> Nat]]]
       /\ \A b \in Names, d \in Channels : Len(handled[b][d]) <= MaxHandled
  BY DEF TypeOK
<1>13. /\ handled' \in [Names -> [Channels -> Seq(Positions)]]
       /\ handled'[a][c] = new
       /\ \A b \in Names, d \in Channels : <<b, d>> # <<a, c>> => handled'[b][d] = handled[b][d]
  <2> HIDE DEF new
  <2> QED BY <1>3, <1>6, <1>12
<1>14. \A b \in Names, d \in Channels : Len(handled'[b][d]) <= MaxHandled
  BY <1>6, <1>12, <1>13
<1>15. /\ everHandled' \in [Names -> [Channels -> SUBSET Positions]]
       /\ everHandled'[a][c] = everHandled[a][c] \cup {i}
       /\ \A b \in Names, d \in Channels :
            <<b, d>> # <<a, c>> => everHandled'[b][d] = everHandled[b][d]
  BY <1>3, <1>12
<1>16. /\ excused' \in [Names -> [Channels -> [Positions -> Nat]]]
       /\ \A b \in Names, d \in Channels : <<b, d>> # <<a, c>> => excused'[b][d] = excused[b][d]
       /\ \A j \in Positions :
            /\ excused'[a][c][j] >= excused[a][c][j]
            /\ full /\ j = Head(ledger) => excused'[a][c][j] = excused[a][c][j] + 1
  <2>1. CASE full
    <3>1. excused' = [excused EXCEPT ![a][c][Head(ledger)] = @ + 1] /\ Head(ledger) \in Positions
      BY <1>3, <1>8, <2>1
    <3> QED BY <1>12, <3>1
  <2>2. CASE ~ full
    <3>1. excused' = excused
      BY <1>3, <2>2
    <3>2. \A j \in Positions : excused[a][c][j] \in Nat
      BY <1>12
    <3> QED BY <1>12, <2>2, <3>1, <3>2
  <2> QED BY <2>1, <2>2
<1>17. IsHandled(a, c, i)'
  <2>1. DOMAIN new = 1..Len(new)
    BY <1>6
  <2> HIDE DEF new
  <2> QED BY <1>10, <1>13, <2>1 DEF IsHandled
<1>18. ASSUME NEW j \in Positions
       PROVE  /\ IsHandled(a, c, j)' => j = i \/ IsHandled(a, c, j)
              /\ IsHandled(a, c, j) /\ excused'[a][c][j] <= excused[a][c][j]
                   => IsHandled(a, c, j)'
  <2>1. DOMAIN new = 1..Len(new) /\ DOMAIN old = 1..Len(old)
    BY <1>1, <1>6
  <2>2. IsHandled(a, c, j)' <=> \E n \in 1..Len(new) : new[n] = j
    <3> HIDE DEF new
    <3> QED BY <1>13, <2>1 DEF IsHandled
  <2>3. IsHandled(a, c, j) <=> \E k \in 1..Len(old) : old[k] = j
    BY <2>1 DEF IsHandled, old
  <2>4. IsHandled(a, c, j)' => j = i \/ IsHandled(a, c, j)
    <3> HIDE DEF new
    <3> QED BY <1>9, <2>2, <2>3
  <2>5. ASSUME IsHandled(a, c, j), ~ IsHandled(a, c, j)' PROVE ~ (excused'[a][c][j] <= excused[a][c][j])
    <3>1. full /\ j = Head(ledger)
      BY <1>11, <2>2, <2>3, <2>5
    <3>2. excused'[a][c][j] = excused[a][c][j] + 1 /\ excused[a][c][j] \in Nat
      BY <1>12, <1>16, <3>1
    <3> QED BY <3>2
  <2> QED BY <2>4, <2>5
<1> HIDE DEF new
<1> QED BY <1>3, <1>13, <1>14, <1>15, <1>16, <1>17, <1>18 DEF Ledgers

\* What of a channel is handed over.
New(upTo, skipped, c) == ((offset[c] + 1)..upTo[c]) \ skipped

\* What is handed over to a lane is behind what waited there, each position once, the
\* turns in order.
LaneGets(N, a, c) ==
  /\ Len(lane[a][c]) \in Nat /\ Len(lane'[a][c]) \in Nat
  /\ Len(lane[a][c]) <= Len(lane'[a][c])
  /\ \A k \in 1..Len(lane[a][c]) : lane'[a][c][k] = lane[a][c][k]
  /\ \A k \in (Len(lane[a][c]) + 1)..Len(lane'[a][c]) :
       /\ lane'[a][c][k] \in N /\ Wants(a, c, lane'[a][c][k])
       /\ Kind(c, lane'[a][c][k]) # "stop"
  /\ \A i \in N : Wants(a, c, i) /\ Kind(c, i) # "stop" =>
       \E k \in (Len(lane[a][c]) + 1)..Len(lane'[a][c]) : lane'[a][c][k] = i
  /\ \A j, k \in (Len(lane[a][c]) + 1)..Len(lane'[a][c]) :
       lane'[a][c][j] = lane'[a][c][k] => j = k
  /\ \A k \in (Len(lane[a][c]) + 1)..Len(lane'[a][c]) :
       Kind(c, lane'[a][c][k]) \in {"text", "watch"} =>
         \A i \in N :
           Wants(a, c, i) /\ Kind(c, i) \in {"text", "watch"} /\ i < lane'[a][c][k] =>
             \E j \in (Len(lane[a][c]) + 1)..(k - 1) : lane'[a][c][j] = i
  /\ lane[a][c] # <<>> => lane'[a][c] # <<>> /\ Head1(a, c)' = Head1(a, c)

\* dispatchMessage: what is handed over is open, awaited by whoever wants it, and
\* behind everything that waited before: the operations first, the turns in order.
LEMMA Handed ==
  ASSUME TypeOK, Shape, NEW upTo \in [Channels -> 0..MaxLog], NEW skipped,
         \A c \in Channels : offset[c] <= upTo[c] /\ upTo[c] <= Len(log[c]),
         HandOver(upTo, skipped)
  PROVE  /\ offset' = upTo
         /\ open' \in [Channels -> SUBSET Positions]
         /\ awaits' \in [Channels -> [Positions -> SUBSET Agents]]
         /\ reply' \in [Channels -> [Positions -> {"none", "due", "sent"}]]
         /\ lane' \in [Agents -> [Channels -> Seq(Positions)]]
         /\ aborted' \in [Agents -> [Channels -> BOOLEAN]]
         /\ shown' \in [Agents -> [Channels -> 0..MaxLog]]
         /\ \A c \in Channels : open'[c] = open[c] \cup New(upTo, skipped, c)
         /\ \A c \in Channels : \A i \in New(upTo, skipped, c) :
              i \in 1..Len(log[c]) /\ i \in Positions /\ i > offset[c] /\ i <= upTo[c]
         /\ \A c \in Channels, i \in Positions :
              /\ awaits'[c][i] = IF i \in New(upTo, skipped, c) /\ Kind(c, i) # "stop"
                                   THEN {a \in Agents : Wants(a, c, i)} ELSE awaits[c][i]
              /\ reply'[c][i] = IF /\ i \in New(upTo, skipped, c) /\ IsControl(c, i)
                                   /\ \E a \in Names : Wants(a, c, i)
                                  THEN "due" ELSE reply[c][i]
         /\ \A a \in Agents, c \in Channels :
              /\ LaneGets(New(upTo, skipped, c), a, c)
              /\ aborted'[a][c] <=>
                   \/ aborted[a][c]
                   \/ /\ Running(a, c)
                      /\ \E i \in New(upTo, skipped, c) : Kind(c, i) = "stop" /\ Wants(a, c, i)
<1> DEFINE N(c) == New(upTo, skipped, c)
<1>1. /\ offset \in [Channels -> 0..MaxLog] /\ MaxLog \in Nat
      /\ \A c \in Channels : Len(log[c]) \in Nat /\ Len(log[c]) <= MaxLog
      /\ lane \in [Agents -> [Channels -> Seq(Positions)]]
  BY BoundsAssumption DEF TypeOK
<1>2. \A c \in Channels : \A i \in N(c) :
        i \in 1..Len(log[c]) /\ i \in Positions /\ i > offset[c] /\ i <= upTo[c]
  BY <1>1 DEF New, Positions
<1> HIDE DEF N
<1>3. /\ offset' = upTo
      /\ open' = [c \in Channels |-> open[c] \cup N(c)]
      /\ awaits' = [c \in Channels |-> [i \in Positions |->
           IF i \in N(c) /\ Kind(c, i) # "stop" THEN {a \in Agents : Wants(a, c, i)}
                                                ELSE awaits[c][i]]]
      /\ reply' = [c \in Channels |-> [i \in Positions |->
           IF i \in N(c) /\ IsControl(c, i) /\ \E a \in Names : Wants(a, c, i)
             THEN "due" ELSE reply[c][i]]]
      /\ lane' = [a \in Agents |-> [c \in Channels |->
           lane[a][c] \o InOrder(Wanted(N(c), a, c, {"reset", "set"}))
                      \o InOrder(Wanted(N(c), a, c, {"text", "watch"}))]]
      /\ aborted' = [a \in Agents |-> [c \in Channels |->
           \/ aborted[a][c]
           \/ Running(a, c) /\ \E i \in N(c) : Kind(c, i) = "stop" /\ Wants(a, c, i)]]
      /\ shown' = [a \in Agents |-> [c \in Channels |->
           IF \E i \in N(c) : Wants(a, c, i)
             THEN IF Running(a, c) THEN Head1(a, c) ELSE 0
             ELSE shown[a][c]]]
  BY DEF HandOver, N, New
<1>4. open' \in [Channels -> SUBSET Positions] /\ \A c \in Channels : open'[c] = open[c] \cup N(c)
  <2>1. \A c \in Channels : open[c] \cup N(c) \in SUBSET Positions
    BY <1>2 DEF TypeOK
  <2> QED BY <1>3, <2>1
<1>5. /\ awaits' \in [Channels -> [Positions -> SUBSET Agents]]
      /\ \A c \in Channels, i \in Positions :
           awaits'[c][i] = IF i \in N(c) /\ Kind(c, i) # "stop"
                             THEN {a \in Agents : Wants(a, c, i)} ELSE awaits[c][i]
  <2>1. awaits \in [Channels -> [Positions -> SUBSET Agents]]
    BY DEF TypeOK
  <2>2. awaits' = [c \in Channels |-> [i \in Positions |->
           IF i \in N(c) /\ Kind(c, i) # "stop" THEN {a \in Agents : Wants(a, c, i)}
                                                ELSE awaits[c][i]]]
    BY <1>3
  <2>3. \A c \in Channels, i \in Positions :
           awaits'[c][i] = IF i \in N(c) /\ Kind(c, i) # "stop"
                             THEN {a \in Agents : Wants(a, c, i)} ELSE awaits[c][i]
    BY <2>2
  <2>4. ASSUME NEW c \in Channels, NEW i \in Positions
        PROVE (IF i \in N(c) /\ Kind(c, i) # "stop" THEN {a \in Agents : Wants(a, c, i)}
                                                    ELSE awaits[c][i]) \in SUBSET Agents
    BY <2>1
  <2>5. awaits' \in [Channels -> [Positions -> SUBSET Agents]]
    BY <2>2, <2>4
  <2> QED BY <2>3, <2>5
<1>6. /\ reply' \in [Channels -> [Positions -> {"none", "due", "sent"}]]
      /\ \A c \in Channels, i \in Positions :
           reply'[c][i] = IF i \in N(c) /\ IsControl(c, i) /\ \E a \in Names : Wants(a, c, i)
                            THEN "due" ELSE reply[c][i]
  <2>1. reply \in [Channels -> [Positions -> {"none", "due", "sent"}]]
    BY DEF TypeOK
  <2>2. reply' = [c \in Channels |-> [i \in Positions |->
           IF i \in N(c) /\ IsControl(c, i) /\ \E a \in Names : Wants(a, c, i)
             THEN "due" ELSE reply[c][i]]]
    BY <1>3
  <2> QED BY <2>1, <2>2
<1>7. /\ aborted' \in [Agents -> [Channels -> BOOLEAN]]
      /\ \A a \in Agents, c \in Channels : aborted'[a][c] <=>
           \/ aborted[a][c]
           \/ Running(a, c) /\ \E i \in N(c) : Kind(c, i) = "stop" /\ Wants(a, c, i)
  <2>1. aborted' = [a \in Agents |-> [c \in Channels |->
           \/ aborted[a][c]
           \/ Running(a, c) /\ \E i \in N(c) : Kind(c, i) = "stop" /\ Wants(a, c, i)]]
    BY <1>3
  <2> QED BY <2>1
<1>8. shown' \in [Agents -> [Channels -> 0..MaxLog]]
  <2>1. ASSUME NEW a \in Agents, NEW c \in Channels, Running(a, c) PROVE Head1(a, c) \in 0..MaxLog
    <3>1. lane[a][c] # <<>> /\ lane[a][c] \in Seq(Positions)
      BY <1>1, <2>1 DEF Shape, LanesAwaited, LaneAwaited, Running
    <3>2. Head1(a, c) \in Positions
      BY <3>1 DEF Head1
    <3> QED BY <1>1, <3>2 DEF Positions
  <2>2. shown \in [Agents -> [Channels -> 0..MaxLog]] /\ 0 \in 0..MaxLog
    BY <1>1 DEF TypeOK
  <2> QED BY <1>3, <2>1, <2>2
<1>9. ASSUME NEW a \in Agents, NEW c \in Channels
      PROVE  lane'[a][c] \in Seq(Positions) /\ LaneGets(N(c), a, c)
  <2> DEFINE A == Wanted(N(c), a, c, {"reset", "set"})
             B == Wanted(N(c), a, c, {"text", "watch"})
             s == lane[a][c]
             t == lane'[a][c]
  <2>1. A \in SUBSET Positions /\ B \in SUBSET Positions /\ A \cap B = {}
    BY <1>2 DEF Wanted
  <2>2. \A i \in N(c) : i \in A \cup B <=> Wants(a, c, i) /\ Kind(c, i) # "stop"
    <3>1. \A i \in N(c) : Kind(c, i) \in Kinds
      BY <1>2, Entries
    <3> QED BY <3>1 DEF Wanted, Kinds
  <2>3. \A i \in A \cup B : i \in N(c)
    BY DEF Wanted
  <2>4. \A i \in N(c) : i \in B <=> Wants(a, c, i) /\ Kind(c, i) \in {"text", "watch"}
    BY DEF Wanted
  <2> HIDE DEF A, B
  <2>5. s \in Seq(Positions) /\ t = s \o InOrder(A) \o InOrder(B)
    BY <1>1, <1>3 DEF A, B
  <2> HIDE DEF s, t
  <2>6. /\ t \in Seq(Positions) /\ Len(s) \in Nat /\ Len(t) \in Nat /\ Len(s) <= Len(t)
        /\ \A k \in 1..Len(s) : t[k] = s[k]
        /\ \A k \in (Len(s) + 1)..Len(t) : t[k] \in A \cup B
        /\ \A i \in A \cup B : \E k \in (Len(s) + 1)..Len(t) : t[k] = i
        /\ \A j, k \in (Len(s) + 1)..Len(t) : t[j] = t[k] => j = k
        /\ \A k \in (Len(s) + 1)..Len(t) : t[k] \in B =>
             \A i \in B : i < t[k] => \E j \in (Len(s) + 1)..(k - 1) : t[j] = i
    <3>1. Behind(s, A, B, t)
      BY <2>1, <2>5, Queued
    <3> QED BY <3>1 DEF Behind
  <2>7. \A k \in (Len(s) + 1)..Len(t) : t[k] \in N(c) /\ Wants(a, c, t[k]) /\ Kind(c, t[k]) # "stop"
    BY <2>2, <2>3, <2>6
  <2>8. \A i \in N(c) : Wants(a, c, i) /\ Kind(c, i) # "stop" =>
          \E k \in (Len(s) + 1)..Len(t) : t[k] = i
    BY <2>2, <2>6
  <2>9. \A k \in (Len(s) + 1)..Len(t) : Kind(c, t[k]) \in {"text", "watch"} =>
          \A i \in N(c) : Wants(a, c, i) /\ Kind(c, i) \in {"text", "watch"} /\ i < t[k] =>
            \E j \in (Len(s) + 1)..(k - 1) : t[j] = i
    BY <2>4, <2>6, <2>7
  <2>10. s # <<>> => t # <<>> /\ Head(t) = Head(s)
    <3> SUFFICES ASSUME s # <<>> PROVE t # <<>> /\ Head(t) = Head(s)
      OBVIOUS
    <3>1. Len(s) >= 1 /\ Len(t) >= 1 /\ 1 \in 1..Len(s) /\ Head(s) = s[1]
      BY <2>5, <2>6
    <3>2. t # <<>> /\ Head(t) = t[1]
      BY <2>6, <3>1
    <3> QED BY <2>6, <3>1, <3>2
  <2> QED BY <2>6, <2>7, <2>8, <2>9, <2>10 DEF s, t, Head1, LaneGets
<1>10. lane' \in [Agents -> [Channels -> Seq(Positions)]]
  <2> DEFINE F(a, c) == lane[a][c] \o InOrder(Wanted(N(c), a, c, {"reset", "set"}))
                                   \o InOrder(Wanted(N(c), a, c, {"text", "watch"}))
  <2>1. lane' = [a \in Agents |-> [c \in Channels |-> F(a, c)]]
    BY <1>3
  <2> HIDE DEF F
  <2>2. ASSUME NEW a \in Agents, NEW c \in Channels PROVE F(a, c) \in Seq(Positions)
    <3>1. lane'[a][c] = F(a, c)
      BY <2>1
    <3> QED BY <1>9, <3>1
  <2> DEFINE G(a) == [c \in Channels |-> F(a, c)]
  <2>3. \A a \in Agents : G(a) \in [Channels -> Seq(Positions)]
    BY <2>2
  <2>4. lane' = [a \in Agents |-> G(a)]
    BY <2>1
  <2> HIDE DEF G
  <2> QED BY <2>3, <2>4
<1> QED BY <1>2, <1>3, <1>4, <1>5, <1>6, <1>7, <1>8, <1>9, <1>10 DEF N

\* Who awaits what is handed over, and what is due.
LEMMA HandedAwaits ==
  ASSUME TypeOK, Shape, NEW upTo \in [Channels -> 0..MaxLog], NEW skipped,
         \A c \in Channels : offset[c] <= upTo[c] /\ upTo[c] <= Len(log[c]),
         HandOver(upTo, skipped), NEW c \in Channels, NEW i \in Positions
  PROVE  /\ awaits'[c][i] = IF i \in New(upTo, skipped, c) /\ Kind(c, i) # "stop"
                              THEN {a \in Agents : Wants(a, c, i)} ELSE awaits[c][i]
         /\ reply'[c][i] = IF /\ i \in New(upTo, skipped, c) /\ IsControl(c, i)
                              /\ \E a \in Names : Wants(a, c, i)
                             THEN "due" ELSE reply[c][i]
BY ZenonT(40), Handed

----------------------------------------------------------------------------
(* The kinds of step.                                                      *)

\* drainBacklog and the watcher hand over what came in.
HandsOver ==
  \E upTo \in [Channels -> 0..MaxLog], skipped \in SUBSET Positions :
    /\ \A c \in Channels : offset[c] <= upTo[c] /\ upTo[c] <= Len(log[c])
    /\ \A c \in Channels : \A i \in (offset[c] + 1)..upTo[c] :
         i \in skipped => Kind(c, i) = "watch"
    /\ HandOver(upTo, skipped)
    /\ phase' \in {"draining", "serving"}
    /\ UNCHANGED <<log, saved, handled, target, stage, session, history>>

\* The cursors are saved while nothing is open.
Saves ==
  /\ NothingOpen
  /\ saved' = offset
  /\ phase' \in {"drained", "stopped"}
  /\ session' \in [Agents -> [Channels -> BOOLEAN]]
  /\ UNCHANGED <<log, handled, shown, target, offset, open, awaits, reply, lane, stage, aborted,
                 history>>

\* A turn goes on without an effect but a review, a drop or an opening of its session.
GoesOn(a, c) ==
  /\ lane[a][c] # <<>> /\ HeadKind(a, c) \in {"text", "watch"}
  /\ \E s \in {"opening", "reviewing", "settling", "recording"} :
       /\ stage' = [stage EXCEPT ![a][c] = s]
       /\ Atwork(a, c) => s # "opening"
       /\ s = "reviewing" => stage[a][c] = "prompted"
       /\ \/ reviews' = reviews
          \/ /\ s = "reviewing"
             /\ reviews' = [reviews EXCEPT ![a][c][Head1(a, c)] = @ + 1]
  /\ \E x \in BOOLEAN :
       /\ aborted' = [aborted EXCEPT ![a][c] = x]
       /\ x => aborted[a][c]
       /\ Running(a, c)' /\ x => Running(a, c)
  /\ session' \in [Agents -> [Channels -> BOOLEAN]]
  /\ shown' \in [Agents -> [Channels -> 0..MaxLog]]
  /\ UNCHANGED <<log, saved, handled, gateway, lane, begun, runs, acks, everHandled, excused,
                 restarts>>

\* A session operation takes effect.
Operates(a, c) ==
  /\ stage[a][c] = "idle" /\ lane[a][c] # <<>> /\ HeadKind(a, c) \in {"reset", "set"}
  /\ session' \in [Agents -> [Channels -> BOOLEAN]]
  /\ Took(a, c) /\ Leave(a, c)
  /\ UNCHANGED <<durable, phase, target, offset, open, reply, stage, aborted, reviews, acks,
                 everHandled, excused, restarts>>

\* Memory is lost.
Restarts == Vanish /\ restarts' \in 0..MaxRestarts

AStep ==
  \/ UNCHANGED vars
  \/ \E c \in Channels, m \in Messages : Publish(c, m)
  \/ DrainBegin
  \/ HandsOver
  \/ Saves
  \/ \E c \in Channels, i \in Positions : DispatchEnd(c, i) \/ Answer(c, i) \/ RecordControl(c, i)
  \/ \E a \in Agents, c \in Channels :
       GoesOn(a, c) \/ Prompt(a, c) \/ RecordTurn(a, c) \/ Operates(a, c)
  \/ Stop
  \/ Restarts

\* The head of a lane that is at work.
LEMMA HeadOf ==
  ASSUME TypeOK, Shape, NEW a \in Agents, NEW c \in Channels, lane[a][c] # <<>>
  PROVE  /\ Head1(a, c) \in Positions /\ 1 \in 1..Len(lane[a][c])
         /\ Head1(a, c) = lane[a][c][1] /\ InLane(a, c, Head1(a, c))
         /\ lane[a][c] \in Seq(Positions) /\ Len(lane[a][c]) \in Nat
<1>1. lane[a][c] \in Seq(Positions)
  BY DEF TypeOK
<1>2. /\ Head1(a, c) \in Positions /\ Head1(a, c) = lane[a][c][1] /\ 1 \in 1..Len(lane[a][c])
      /\ Len(lane[a][c]) \in Nat
  BY <1>1 DEF Head1
<1> QED BY <1>1, <1>2 DEF InLane

LEMMA Steps ==
  ASSUME TypeOK, Shape, [Next]_vars
  PROVE  AStep
<1>0. MaxLog \in Nat /\ MaxRestarts \in Nat
  BY BoundsAssumption
<1>1. CASE UNCHANGED vars
  BY <1>1 DEF AStep
<1>2. ASSUME NEW c \in Channels, NEW m \in Messages, Publish(c, m) PROVE AStep
  BY <1>2 DEF AStep
<1>3. CASE DrainBegin
  BY <1>3 DEF AStep
<1>4. ASSUME NEW c \in Channels, DrainNext(c) PROVE AStep
  <2> DEFINE i == offset[c] + 1
             upTo == [offset EXCEPT ![c] = i]
             skipped == IF Kind(c, i) = "watch" THEN {i} ELSE {}
  <2>1. /\ offset \in [Channels -> 0..MaxLog] /\ target \in [Channels -> 0..MaxLog]
        /\ offset[c] < target[c]
        /\ \A d \in Channels : target[d] <= Len(log[d]) /\ offset[d] <= Len(log[d]) /\ Len(log[d]) \in Nat
    BY <1>4 DEF DrainNext, TypeOK, Shape, PositionsInLog
  <2>2. i \in Positions /\ i \in 0..MaxLog /\ i <= Len(log[c]) /\ i = offset[c] + 1 /\ offset[c] <= i
    BY <1>0, <2>1 DEF Positions
  <2> HIDE DEF i
  <2>3. /\ upTo \in [Channels -> 0..MaxLog] /\ upTo[c] = i
        /\ \A d \in Channels : d # c => upTo[d] = offset[d]
    BY <2>1, <2>2
  <2>4. \A d \in Channels : offset[d] <= upTo[d] /\ upTo[d] <= Len(log[d])
    <3> SUFFICES ASSUME NEW d \in Channels PROVE offset[d] <= upTo[d] /\ upTo[d] <= Len(log[d])
      OBVIOUS
    <3>1. CASE d = c
      BY <2>2, <2>3, <3>1
    <3>2. CASE d # c
      <4>1. upTo[d] = offset[d]
        BY <2>3, <3>2
      <4>2. offset[d] \in Nat /\ offset[d] <= Len(log[d])
        BY <2>1
      <4> HIDE DEF upTo
      <4> QED BY <4>1, <4>2
    <3> QED BY <3>1, <3>2
  <2>5. ASSUME NEW d \in Channels, NEW j \in (offset[d] + 1)..upTo[d], j \in skipped
        PROVE  Kind(d, j) = "watch"
    <3>1. j = i /\ Kind(c, i) = "watch"
      BY <2>5
    <3>2. CASE d = c
      BY <3>1, <3>2
    <3>3. CASE d # c
      <4>1. upTo[d] = offset[d] /\ offset[d] \in Nat
        BY <2>1, <2>3, <3>3
      <4> HIDE DEF upTo
      <4>2. FALSE
        BY <2>5, <4>1
      <4> QED BY <4>2
    <3> QED BY <3>2, <3>3
  <2>6. /\ HandOver(upTo, skipped) /\ phase' = "draining"
        /\ UNCHANGED <<log, saved, handled, target, stage, session, history>>
    BY <1>4 DEF DrainNext, i
  <2>7. skipped \in SUBSET Positions
    BY <2>2
  <2> HIDE DEF upTo, skipped
  <2>8. HandsOver
    BY <2>3, <2>4, <2>5, <2>6, <2>7 DEF HandsOver
  <2> QED BY <2>8 DEF AStep
<1>5. CASE DrainEnd
  BY <1>5 DEF DrainEnd, AStep, Saves, TypeOK, durable, gateway, pool
<1>6. CASE Start
  <2> DEFINE upTo == [c \in Channels |-> Len(log[c])]
  <2>1. upTo \in [Channels -> 0..MaxLog]
    BY <1>0 DEF TypeOK
  <2>2. \A c \in Channels : offset[c] <= upTo[c] /\ upTo[c] <= Len(log[c])
    BY DEF TypeOK, Shape, PositionsInLog
  <2>3. /\ HandOver(upTo, {}) /\ phase' = "serving"
        /\ UNCHANGED <<log, saved, handled, target, stage, session, history>>
    BY <1>6 DEF Start
  <2>4. \A c \in Channels : \A i \in (offset[c] + 1)..upTo[c] : i \in {} => Kind(c, i) = "watch"
    OBVIOUS
  <2> HIDE DEF upTo
  <2>5. HandsOver
    BY <2>1, <2>2, <2>3, <2>4 DEF HandsOver
  <2> QED BY <2>5 DEF AStep
<1>7. ASSUME NEW c \in Channels, WatchEvent(c) PROVE AStep
  <2> DEFINE upTo == [offset EXCEPT ![c] = Len(log[c])]
  <2>1. upTo \in [Channels -> 0..MaxLog]
    BY <1>0 DEF TypeOK
  <2>2. \A d \in Channels : offset[d] <= upTo[d] /\ upTo[d] <= Len(log[d])
    BY DEF TypeOK, Shape, PositionsInLog
  <2>3. /\ HandOver(upTo, {}) /\ phase' = "serving"
        /\ UNCHANGED <<log, saved, handled, target, stage, session, history>>
    BY <1>7 DEF WatchEvent
  <2>4. \A d \in Channels : \A i \in (offset[d] + 1)..upTo[d] : i \in {} => Kind(d, i) = "watch"
    OBVIOUS
  <2> HIDE DEF upTo
  <2>5. HandsOver
    BY <2>1, <2>2, <2>3, <2>4 DEF HandsOver
  <2> QED BY <2>5 DEF AStep
<1>8. ASSUME NEW c \in Channels, NEW i \in Positions,
             DispatchEnd(c, i) \/ Answer(c, i) \/ RecordControl(c, i)
      PROVE  AStep
  BY <1>8 DEF AStep
<1>9. ASSUME NEW a \in Agents, NEW c \in Channels, Lane(a, c) PROVE AStep
  <2>0. /\ session \in [Agents -> [Channels -> BOOLEAN]]
        /\ aborted \in [Agents -> [Channels -> BOOLEAN]]
        /\ stage \in [Agents -> [Channels ->
             {"idle", "opening", "prompted", "reviewing", "settling", "recording"}]]
        /\ shown \in [Agents -> [Channels -> 0..MaxLog]]
    BY DEF TypeOK
  <2>1. stage[a][c] # "idle" => lane[a][c] # <<>> /\ HeadKind(a, c) \in {"text", "watch"}
    BY DEF Shape, LanesAwaited, LaneAwaited
  <2>2. lane[a][c] # <<>> => Head1(a, c) \in 0..MaxLog
    BY HeadOf, <1>0 DEF Positions
  <2>3. CASE TurnStart(a, c)
    <3>1. stage' = [stage EXCEPT ![a][c] = "opening"] /\ ~ Atwork(a, c)
      BY <2>3 DEF TurnStart, Step, Atwork
    <3>2. aborted' = [aborted EXCEPT ![a][c] = FALSE]
      BY <2>3 DEF TurnStart
    <3>3. shown' \in [Agents -> [Channels -> 0..MaxLog]] /\ session' = session
      BY <2>0, <2>2, <2>3 DEF TurnStart
    <3>4. /\ lane[a][c] # <<>> /\ HeadKind(a, c) \in {"text", "watch"} /\ reviews' = reviews
          /\ UNCHANGED <<log, saved, handled, gateway, lane, begun, runs, acks, everHandled,
                         excused, restarts>>
      BY <2>3 DEF TurnStart, history
    <3>5. GoesOn(a, c)
      BY <2>0, <3>1, <3>2, <3>3, <3>4 DEF GoesOn
    <3> QED BY <3>5 DEF AStep
  <2>4. CASE Prompt(a, c)
    BY <2>4 DEF AStep
  <2>5. CASE OpenFails(a, c)
    <3>1. /\ stage' = [stage EXCEPT ![a][c] = "settling"] /\ stage[a][c] = "opening"
          /\ reviews' = reviews /\ shown' = shown
          /\ UNCHANGED <<log, saved, handled, gateway, lane, begun, runs, acks, everHandled,
                         excused, restarts>>
      BY <2>5 DEF OpenFails, Step, durable, history
    <3>2. aborted' = [aborted EXCEPT ![a][c] = aborted[a][c]] /\ aborted[a][c] \in BOOLEAN
      BY <2>0, <2>5 DEF OpenFails
    <3>3. session' \in [Agents -> [Channels -> BOOLEAN]]
      BY <2>0, <2>5 DEF OpenFails
    <3>4. Running(a, c)
      BY <3>1 DEF Running
    <3>5. GoesOn(a, c)
      BY <2>0, <2>1, <3>1, <3>2, <3>3, <3>4 DEF GoesOn
    <3> QED BY <3>5 DEF AStep
  <2>6. CASE TurnEnds(a, c)
    <3>1. /\ stage[a][c] = "prompted" /\ shown' = shown /\ session' = session
          /\ UNCHANGED <<log, saved, handled, gateway, lane, begun, runs, acks, everHandled,
                         excused, restarts>>
      BY <2>6 DEF TurnEnds, durable
    <3>2. aborted' = [aborted EXCEPT ![a][c] = aborted[a][c]] /\ aborted[a][c] \in BOOLEAN
      BY <2>0, <2>6 DEF TurnEnds
    <3>3. \/ stage' = [stage EXCEPT ![a][c] = "settling"] /\ reviews' = reviews
          \/ /\ stage' = [stage EXCEPT ![a][c] = "reviewing"]
             /\ reviews' = [reviews EXCEPT ![a][c][Head1(a, c)] = @ + 1]
      BY <2>6 DEF TurnEnds, Step
    <3>4. Running(a, c)
      BY <3>1 DEF Running
    <3>5. GoesOn(a, c)
      BY <2>0, <2>1, <3>1, <3>2, <3>3, <3>4 DEF GoesOn
    <3> QED BY <3>5 DEF AStep
  <2>7. CASE ReviewEnds(a, c)
    <3>1. /\ stage' = [stage EXCEPT ![a][c] = "settling"] /\ stage[a][c] = "reviewing"
          /\ reviews' = reviews /\ shown' = shown /\ session' = session
          /\ UNCHANGED <<log, saved, handled, gateway, lane, begun, runs, acks, everHandled,
                         excused, restarts>>
      BY <2>7 DEF ReviewEnds, Step, durable, history
    <3>2. aborted' = [aborted EXCEPT ![a][c] = aborted[a][c]] /\ aborted[a][c] \in BOOLEAN
      BY <2>0, <2>7 DEF ReviewEnds
    <3>4. Running(a, c)
      BY <3>1 DEF Running
    <3>5. GoesOn(a, c)
      BY <2>0, <2>1, <3>1, <3>2, <3>4 DEF GoesOn
    <3> QED BY <3>5 DEF AStep
  <2>8. CASE Abort(a, c)
    <3>1. /\ stage' = [stage EXCEPT ![a][c] = "settling"]
          /\ stage[a][c] \in {"opening", "prompted", "reviewing"}
          /\ reviews' = reviews /\ shown' = shown
          /\ UNCHANGED <<log, saved, handled, gateway, lane, begun, runs, acks, everHandled,
                         excused, restarts>>
      BY <2>8 DEF Abort, Step, durable, history
    <3>2. aborted' = [aborted EXCEPT ![a][c] = aborted[a][c]] /\ aborted[a][c] \in BOOLEAN
      BY <2>0, <2>8 DEF Abort
    <3>3. session' \in [Agents -> [Channels -> BOOLEAN]]
      BY <2>0, <2>8 DEF Abort
    <3>4. Running(a, c)
      BY <3>1 DEF Running
    <3>5. GoesOn(a, c)
      BY <2>0, <2>1, <3>1, <3>2, <3>3, <3>4 DEF GoesOn
    <3> QED BY <3>5 DEF AStep
  <2>9. CASE Settle(a, c)
    <3>1. /\ stage' = [stage EXCEPT ![a][c] = "recording"] /\ stage[a][c] = "settling"
          /\ reviews' = reviews /\ session' = session
          /\ UNCHANGED <<log, saved, handled, gateway, lane, begun, runs, acks, everHandled,
                         excused, restarts>>
      BY <2>9 DEF Settle, Step, history
    <3>2. aborted' = [aborted EXCEPT ![a][c] = aborted[a][c]] /\ aborted[a][c] \in BOOLEAN
      BY <2>0, <2>9 DEF Settle
    <3>3. shown' \in [Agents -> [Channels -> 0..MaxLog]]
      BY <1>0, <2>0, <2>9 DEF Settle
    <3>4. Running(a, c)
      BY <3>1 DEF Running
    <3>5. GoesOn(a, c)
      BY <2>0, <2>1, <3>1, <3>2, <3>3, <3>4 DEF GoesOn
    <3> QED BY <3>5 DEF AStep
  <2>10. CASE RecordTurn(a, c)
    BY <2>10 DEF AStep
  <2>11. CASE ResetSession(a, c)
    <3>1. Operates(a, c)
      BY <2>0, <2>11 DEF ResetSession, Operates
    <3> QED BY <3>1 DEF AStep
  <2>12. CASE SetSession(a, c)
    <3>1. session' \in [Agents -> [Channels -> BOOLEAN]]
      BY <2>0, <2>12 DEF SetSession
    <3>2. Operates(a, c)
      BY <2>12, <3>1 DEF SetSession, Operates
    <3> QED BY <3>2 DEF AStep
  <2> QED BY <1>9, <2>3, <2>4, <2>5, <2>6, <2>7, <2>8, <2>9, <2>10, <2>11, <2>12 DEF Lane, Turn
<1>10. CASE Stop
  BY <1>10 DEF AStep
<1>11. CASE StopSave
  <2>1. session' \in [Agents -> [Channels -> BOOLEAN]]
    BY <1>11 DEF StopSave
  <2> QED BY <1>11, <2>1 DEF StopSave, Saves, AStep
<1>12. CASE Exit \/ Crash
  <2>1. restarts' \in 0..MaxRestarts
    BY <1>0, <1>12 DEF Exit, Crash, TypeOK
  <2> QED BY <1>12, <2>1 DEF Exit, Crash, Restarts, AStep
<1> QED BY <1>1, <1>2, <1>3, <1>4, <1>5, <1>6, <1>7, <1>8, <1>9, <1>10, <1>11, <1>12
     DEF Next, Startup, Dispatch

----------------------------------------------------------------------------
(* Types.                                                                  *)

LEMMA TypesInit == Init => TypeOK
<1> SUFFICES ASSUME Init PROVE TypeOK
  OBVIOUS
<1>1. 0 \in 0..MaxLog /\ 0 \in 0..MaxRestarts /\ 0 <= MaxLog /\ 0 <= MaxHandled /\ 0 \in Nat
  BY BoundsAssumption
<1>2. <<>> \in Seq(Messages) /\ <<>> \in Seq(Positions) /\ Len(<<>>) = 0
  OBVIOUS
<1>3. log \in [Channels -> Seq(Messages)] /\ \A c \in Channels : Len(log[c]) <= MaxLog
  BY <1>1, <1>2 DEF Init
<1>4. /\ handled \in [Names -> [Channels -> Seq(Positions)]]
      /\ \A a \in Names, c \in Channels : Len(handled[a][c]) <= MaxHandled
  BY <1>1, <1>2 DEF Init
<1>5. lane \in [Agents -> [Channels -> Seq(Positions)]]
  BY <1>2 DEF Init
<1> QED BY <1>1, <1>3, <1>4, <1>5 DEF Init, TypeOK

\* What a control is marked handled for is its one target.
LEMMA TargetOf ==
  ASSUME TypeOK, Shape, NEW c \in Channels, NEW i \in Positions, reply[c][i] # "none"
  PROVE  /\ i \in open[c] /\ IsControl(c, i) /\ i <= offset[c] /\ i \in 1..Len(log[c])
         /\ (CHOOSE n \in Names : n \in To(c, i)) \in Names
         /\ To(c, i) = {CHOOSE n \in Names : n \in To(c, i)}
<1>1. i \in open[c] /\ IsControl(c, i) /\ i <= offset[c] /\ offset[c] <= Len(log[c])
  BY DEF Shape, DispatchesOpen, PositionsInLog
<1>2. i \in 1..Len(log[c])
  BY <1>1, BoundsAssumption DEF TypeOK, Positions
<1>3. PICK a \in Names : To(c, i) = {a}
  BY <1>1, <1>2, Entries
<1> QED BY <1>1, <1>2, <1>3

\* A lane that loses its head, and the dispatch that no longer waits for it.
LEMMA LeaveTyped ==
  ASSUME TypeOK, Shape, NEW a \in Agents, NEW c \in Channels, lane[a][c] # <<>>, Leave(a, c)
  PROVE  /\ lane' \in [Agents -> [Channels -> Seq(Positions)]]
         /\ lane'[a][c] = Tail(lane[a][c])
         /\ \A b \in Agents, d \in Channels : <<b, d>> # <<a, c>> => lane'[b][d] = lane[b][d]
         /\ awaits' \in [Channels -> [Positions -> SUBSET Agents]]
         /\ \A b \in Agents, d \in Channels, i \in Positions :
              b \in awaits'[d][i] <=> b \in awaits[d][i] /\ <<b, d, i>> # <<a, c, Head1(a, c)>>
<1>1. /\ lane \in [Agents -> [Channels -> Seq(Positions)]]
      /\ awaits \in [Channels -> [Positions -> SUBSET Agents]]
      /\ Head1(a, c) \in Positions
  BY HeadOf DEF TypeOK
<1>2. /\ lane' = [lane EXCEPT ![a][c] = Tail(@)]
      /\ awaits' = [awaits EXCEPT ![c][Head1(a, c)] = @ \ {a}]
  BY DEF Leave
<1>3. Tail(lane[a][c]) \in Seq(Positions)
  BY <1>1
<1>4. /\ lane' \in [Agents -> [Channels -> Seq(Positions)]]
      /\ lane'[a][c] = Tail(lane[a][c])
      /\ \A b \in Agents, d \in Channels : <<b, d>> # <<a, c>> => lane'[b][d] = lane[b][d]
  BY <1>1, <1>2, <1>3
<1>5. awaits' \in [Channels -> [Positions -> SUBSET Agents]]
  BY <1>1, <1>2
<1>6. \A d \in Channels, i \in Positions :
        awaits'[d][i] = IF d = c /\ i = Head1(a, c) THEN awaits[d][i] \ {a} ELSE awaits[d][i]
  BY <1>1, <1>2
<1> QED BY <1>4, <1>5, <1>6

\* Counting one time more.
LEMMA Counted ==
  ASSUME NEW S, NEW f \in [S -> [Channels -> [Positions -> Nat]]],
         NEW a \in S, NEW c \in Channels, NEW i \in Positions,
         NEW g, g = [f EXCEPT ![a][c][i] = @ + 1]
  PROVE  /\ g \in [S -> [Channels -> [Positions -> Nat]]]
         /\ g[a][c][i] = f[a][c][i] + 1
         /\ \A b \in S, d \in Channels, j \in Positions :
              <<b, d, j>> # <<a, c, i>> => g[b][d][j] = f[b][d][j]
<1>1. f[a] \in [Channels -> [Positions -> Nat]] /\ f[a][c] \in [Positions -> Nat] /\ f[a][c][i] \in Nat
  OBVIOUS
<1>2. [f[a][c] EXCEPT ![i] = @ + 1] \in [Positions -> Nat]
  BY <1>1
<1>3. [f[a] EXCEPT ![c] = [f[a][c] EXCEPT ![i] = @ + 1]] \in [Channels -> [Positions -> Nat]]
  BY <1>1, <1>2
<1>4. g \in [S -> [Channels -> [Positions -> Nat]]]
  BY <1>3
<1> QED BY <1>1, <1>4

LEMMA TypesStep ==
  ASSUME TypeOK, Shape, AStep
  PROVE  TypeOK'
<1>0. MaxLog \in Nat /\ MaxRestarts \in Nat /\ 0 \in 0..MaxLog
  BY BoundsAssumption
<1>1. CASE UNCHANGED vars
  BY <1>1 DEF vars, durable, gateway, pool, history, TypeOK
<1>2. ASSUME NEW c \in Channels, NEW m \in Messages, Publish(c, m) PROVE TypeOK'
  <2>1. /\ log' \in [Channels -> Seq(Messages)] /\ \A d \in Channels : Len(log'[d]) <= MaxLog
    <3>1. log[c] \in Seq(Messages) /\ Len(log[c]) < MaxLog /\ Len(log[c]) \in Nat
      BY <1>2 DEF Publish, TypeOK
    <3>2. Append(log[c], m) \in Seq(Messages) /\ Len(Append(log[c], m)) <= MaxLog
      BY <1>0, <3>1
    <3> QED BY <1>2, <3>2 DEF Publish, TypeOK
  <2> QED BY <1>2, <2>1 DEF Publish, durable, gateway, pool, history, TypeOK
<1>3. CASE DrainBegin
  <2>1. target' \in [Channels -> 0..MaxLog]
    BY <1>0, <1>3 DEF DrainBegin, TypeOK
  <2> QED BY <1>3, <2>1 DEF DrainBegin, durable, pool, history, TypeOK
<1>4. CASE HandsOver
  <2>1. PICK upTo \in [Channels -> 0..MaxLog], skipped \in SUBSET Positions :
          /\ \A c \in Channels : offset[c] <= upTo[c] /\ upTo[c] <= Len(log[c])
          /\ HandOver(upTo, skipped)
    BY <1>4 DEF HandsOver
  <2>2. /\ offset' = upTo
        /\ open' \in [Channels -> SUBSET Positions]
        /\ awaits' \in [Channels -> [Positions -> SUBSET Agents]]
        /\ reply' \in [Channels -> [Positions -> {"none", "due", "sent"}]]
        /\ lane' \in [Agents -> [Channels -> Seq(Positions)]]
        /\ aborted' \in [Agents -> [Channels -> BOOLEAN]]
        /\ shown' \in [Agents -> [Channels -> 0..MaxLog]]
    BY <2>1, Handed
  <2> QED BY <1>4, <2>2 DEF HandsOver, history, TypeOK
<1>5. CASE Saves
  BY <1>5 DEF Saves, history, TypeOK
<1>6. ASSUME NEW c \in Channels, NEW i \in Positions, DispatchEnd(c, i) PROVE TypeOK'
  BY <1>6 DEF DispatchEnd, pool, history, TypeOK
<1>7. ASSUME NEW c \in Channels, NEW i \in Positions, Answer(c, i) PROVE TypeOK'
  BY SMTT(40), <1>7 DEF Answer, durable, pool, TypeOK
<1>8. ASSUME NEW c \in Channels, NEW i \in Positions, RecordControl(c, i) PROVE TypeOK'
  <2> DEFINE a == CHOOSE n \in Names : n \in To(c, i)
  <2>1. a \in Names
    BY <1>8, TargetOf DEF RecordControl
  <2>2. MarkHandled(a, c, i)
    BY <1>8 DEF RecordControl
  <2> HIDE DEF a
  <2>3. Ledgers' /\ begun' \subseteq begun
    BY <2>1, <2>2, Marked
  <2> QED BY <1>8, <2>3 DEF RecordControl, Ledgers, pool, TypeOK
<1>9. ASSUME NEW a \in Agents, NEW c \in Channels, GoesOn(a, c) PROVE TypeOK'
  <2>1. stage' \in [Agents -> [Channels ->
          {"idle", "opening", "prompted", "reviewing", "settling", "recording"}]]
    BY <1>9 DEF GoesOn, TypeOK
  <2>2. aborted' \in [Agents -> [Channels -> BOOLEAN]]
    BY <1>9 DEF GoesOn, TypeOK
  <2>3. reviews' \in [Agents -> [Channels -> [Positions -> Nat]]]
    <3>1. Head1(a, c) \in Positions
      BY <1>9, HeadOf DEF GoesOn
    <3>2. reviews' = reviews \/ reviews' = [reviews EXCEPT ![a][c][Head1(a, c)] = @ + 1]
      BY <1>9 DEF GoesOn
    <3>3. reviews \in [Agents -> [Channels -> [Positions -> Nat]]]
      BY DEF TypeOK
    <3>4. CASE reviews' = [reviews EXCEPT ![a][c][Head1(a, c)] = @ + 1]
      BY <3>1, <3>3, <3>4, Counted
    <3> QED BY <3>2, <3>3, <3>4
  <2> QED BY <1>9, <2>1, <2>2, <2>3 DEF GoesOn, gateway, TypeOK
<1>10. ASSUME NEW a \in Agents, NEW c \in Channels, Prompt(a, c) PROVE TypeOK'
  <2>1. Head1(a, c) \in Positions /\ a \in Names
    BY <1>10, HeadOf DEF Prompt, Shape, LanesAwaited, LaneAwaited, Names
  <2>2. /\ runs' \in [Names -> [Channels -> [Positions -> Nat]]]
        /\ begun' \subseteq Names \X Channels \X Positions
    BY SMTT(40), <1>10, <2>1 DEF Prompt, Took, TypeOK
  <2>3. session' \in [Agents -> [Channels -> BOOLEAN]]
    BY <1>10 DEF Prompt, TypeOK
  <2>4. stage' \in [Agents -> [Channels ->
          {"idle", "opening", "prompted", "reviewing", "settling", "recording"}]]
    BY <1>10 DEF Prompt, Step, TypeOK
  <2> QED BY <1>10, <2>2, <2>3, <2>4 DEF Prompt, durable, gateway, TypeOK
<1>11. ASSUME NEW a \in Agents, NEW c \in Channels, RecordTurn(a, c) PROVE TypeOK'
  <2>1. Head1(a, c) \in Positions /\ a \in Names /\ lane[a][c] # <<>>
    BY <1>11, HeadOf DEF RecordTurn, Shape, LanesAwaited, LaneAwaited, Names
  <2>2. MarkHandled(a, c, Head1(a, c))
    BY <1>11 DEF RecordTurn
  <2>3. Ledgers' /\ begun' \subseteq begun
    BY <2>1, <2>2, Marked
  <2>4. /\ lane' \in [Agents -> [Channels -> Seq(Positions)]]
        /\ awaits' \in [Channels -> [Positions -> SUBSET Agents]]
    <3>1. Leave(a, c)
      BY <1>11 DEF RecordTurn
    <3> QED BY <2>1, <3>1, LeaveTyped
  <2>5. stage' \in [Agents -> [Channels ->
          {"idle", "opening", "prompted", "reviewing", "settling", "recording"}]]
    BY <1>11 DEF RecordTurn, Step, TypeOK
  <2> QED BY <1>11, <2>3, <2>4, <2>5 DEF RecordTurn, Ledgers, TypeOK
<1>12. ASSUME NEW a \in Agents, NEW c \in Channels, Operates(a, c) PROVE TypeOK'
  <2>1. Head1(a, c) \in Positions /\ a \in Names /\ lane[a][c] # <<>>
    BY <1>12, HeadOf DEF Operates, Names
  <2>2. /\ lane' \in [Agents -> [Channels -> Seq(Positions)]]
        /\ awaits' \in [Channels -> [Positions -> SUBSET Agents]]
    <3>1. Leave(a, c)
      BY <1>12 DEF Operates
    <3> QED BY <2>1, <3>1, LeaveTyped
  <2>3. /\ runs' \in [Names -> [Channels -> [Positions -> Nat]]]
        /\ begun' \subseteq Names \X Channels \X Positions
    <3>1. Took(a, c)
      BY <1>12 DEF Operates
    <3>2. runs \in [Names -> [Channels -> [Positions -> Nat]]]
      BY DEF TypeOK
    <3>3. runs' \in [Names -> [Channels -> [Positions -> Nat]]]
      BY <2>1, <3>1, <3>2, Counted DEF Took
    <3>4. begun' = begun \cup {<<a, c, Head1(a, c)>>} /\ begun \subseteq Names \X Channels \X Positions
      BY <3>1 DEF Took, TypeOK
    <3> QED BY <2>1, <3>3, <3>4
  <2> QED BY <1>12, <2>2, <2>3 DEF Operates, durable, TypeOK
<1>13. CASE Stop
  <2>1. restarts' \in 0..MaxRestarts
    BY <1>0, <1>13 DEF Stop, TypeOK
  <2> QED BY <1>13, <2>1 DEF Stop, durable, pool, TypeOK
<1>14. CASE Restarts
  <2>1. excused' \in [Names -> [Channels -> [Positions -> Nat]]]
    BY <1>14 DEF Restarts, Vanish, TypeOK
  <2>2. lane' \in [Agents -> [Channels -> Seq(Positions)]]
    <3>1. <<>> \in Seq(Positions)
      OBVIOUS
    <3> QED BY <1>14, <3>1 DEF Restarts, Vanish
  <2> QED BY <1>0, <1>14, <2>1, <2>2 DEF Restarts, Vanish, durable, TypeOK
<1> QED BY <1>1, <1>2, <1>3, <1>4, <1>5, <1>6, <1>7, <1>8, <1>9, <1>10, <1>11, <1>12, <1>13,
           <1>14 DEF AStep

----------------------------------------------------------------------------
(* Positions, ledgers and dispatches.                                      *)

\* The log grows at its end.
LEMMA Published ==
  ASSUME TypeOK, NEW c \in Channels, NEW m \in Messages, Publish(c, m)
  PROVE  \A d \in Channels :
           /\ Len(log[d]) \in Nat /\ Len(log'[d]) \in Nat /\ Len(log[d]) <= Len(log'[d])
           /\ \A i \in 1..Len(log[d]) :
                /\ Kind(d, i)' = Kind(d, i) /\ To(d, i)' = To(d, i)
                /\ IsControl(d, i)' <=> IsControl(d, i)
<1>1. log \in [Channels -> Seq(Messages)] /\ log' = [log EXCEPT ![c] = Append(@, m)]
  BY DEF Publish, TypeOK
<1> SUFFICES ASSUME NEW d \in Channels
             PROVE  /\ Len(log[d]) \in Nat /\ Len(log'[d]) \in Nat /\ Len(log[d]) <= Len(log'[d])
                    /\ \A i \in 1..Len(log[d]) : log'[d][i] = log[d][i]
  BY DEF Kind, To, IsControl
<1>2. log[d] \in Seq(Messages)
  BY <1>1
<1>3. CASE d = c
  <2>1. log'[d] = Append(log[d], m)
    BY <1>1, <1>3
  <2> QED BY <1>2, <2>1
<1>4. CASE d # c
  <2>1. log'[d] = log[d]
    BY <1>1, <1>4
  <2> QED BY <1>2, <2>1
<1> QED BY <1>3, <1>4

\* What markHandled puts on record.
LEMMA MarkedEver ==
  ASSUME TypeOK, NEW a \in Names, NEW c \in Channels, NEW i \in Positions, MarkHandled(a, c, i)
  PROVE  /\ \A b \in Names, d \in Channels, j \in Positions :
              j \in everHandled'[b][d] <=> j \in everHandled[b][d] \/ (b = a /\ d = c /\ j = i)
         /\ \A b \in Names, d \in Channels : \A j \in everHandled'[b][d] :
              j \in Positions /\ (j \in everHandled[b][d] \/ (b = a /\ d = c /\ j = i))
<1>1. Ledgers' /\ everHandled'[a][c] = everHandled[a][c] \cup {i}
  BY Marked
<1>2. \A b \in Names, d \in Channels :
        <<b, d>> # <<a, c>> => everHandled'[b][d] = everHandled[b][d]
  BY Marked
<1>3. \A b \in Names, d \in Channels : everHandled'[b][d] \subseteq Positions
  BY <1>1 DEF Ledgers
<1>4. ASSUME NEW b \in Names, NEW d \in Channels, NEW j \in Positions
      PROVE  j \in everHandled'[b][d] <=> j \in everHandled[b][d] \/ (b = a /\ d = c /\ j = i)
  <2>1. CASE b = a /\ d = c
    BY <1>1, <2>1
  <2>2. CASE ~ (b = a /\ d = c)
    BY <1>2, <2>2
  <2> QED BY <2>1, <2>2
<1>5. ASSUME NEW b \in Names, NEW d \in Channels, NEW j \in everHandled'[b][d]
      PROVE  j \in Positions /\ (j \in everHandled[b][d] \/ (b = a /\ d = c /\ j = i))
  <2>1. j \in Positions
    BY <1>3
  <2> QED BY <1>4, <2>1
<1> QED BY <1>4, <1>5

\* What the ledgers then hold.
LEMMA MarkedLedger ==
  ASSUME TypeOK, NEW a \in Names, NEW c \in Channels, NEW i \in Positions, MarkHandled(a, c, i)
  PROVE  \A b \in Names, d \in Channels, j \in Positions :
           IsHandled(b, d, j)' => IsHandled(b, d, j) \/ (b = a /\ d = c /\ j = i)
<1> SUFFICES ASSUME NEW b \in Names, NEW d \in Channels, NEW j \in Positions, IsHandled(b, d, j)'
             PROVE  IsHandled(b, d, j) \/ (b = a /\ d = c /\ j = i)
  OBVIOUS
<1>1. CASE b = a /\ d = c
  <2>1. \A k \in Positions : IsHandled(a, c, k)' => k = i \/ IsHandled(a, c, k)
    BY Marked
  <2>2. IsHandled(a, c, j)'
    BY <1>1
  <2> QED BY <1>1, <2>1, <2>2
<1>2. CASE ~ (b = a /\ d = c)
  <2>1. handled'[b][d] = handled[b][d]
    BY <1>2, Marked
  <2> QED BY <2>1 DEF IsHandled
<1> QED BY <1>1, <1>2

\* A lane's stage is its own.
LEMMA StagesOf ==
  ASSUME TypeOK, NEW a \in Agents, NEW c \in Channels, NEW s, stage' = [stage EXCEPT ![a][c] = s]
  PROVE  /\ stage'[a][c] = s
         /\ \A b \in Agents, d \in Channels : ~ (b = a /\ d = c) => stage'[b][d] = stage[b][d]
BY DEF TypeOK

\* The head of a lane is a position of the log.
LEMMA HeadInLog ==
  ASSUME TypeOK, Shape, NEW a \in Agents, NEW c \in Channels, lane[a][c] # <<>>
  PROVE  /\ Head1(a, c) \in Positions /\ Head1(a, c) <= offset[c]
         /\ Head1(a, c) <= Len(log[c]) /\ Head1(a, c) \in 1..Len(log[c])
         /\ a \in Names /\ a \in To(c, Head1(a, c)) /\ ~ IsHandled(a, c, Head1(a, c))
         /\ Head1(a, c) \in open[c]
<1>1. Head1(a, c) \in Positions /\ InLane(a, c, Head1(a, c))
  BY HeadOf
<1>2. /\ Head1(a, c) <= offset[c] /\ a \in To(c, Head1(a, c)) /\ ~ IsHandled(a, c, Head1(a, c))
      /\ Head1(a, c) \in open[c]
  BY <1>1 DEF Shape, LanesAwaited, LaneAwaited
<1>3. offset[c] <= Len(log[c]) /\ offset[c] \in Nat /\ Len(log[c]) \in Nat /\ Head1(a, c) \in 1..MaxLog
  BY <1>1, BoundsAssumption DEF Shape, PositionsInLog, TypeOK, Positions
<1>4. Head1(a, c) \in Nat /\ Head1(a, c) >= 1
  BY <1>3, BoundsAssumption
<1>5. Head1(a, c) <= Len(log[c]) /\ Head1(a, c) \in 1..Len(log[c])
  BY <1>2, <1>3, <1>4
<1> QED BY <1>1, <1>2, <1>5 DEF Names

\* The work of the head has taken effect once more.
LEMMA TookRuns ==
  ASSUME TypeOK, NEW a \in Agents, NEW c \in Channels, Head1(a, c) \in Positions, Took(a, c)
  PROVE  /\ runs' \in [Names -> [Channels -> [Positions -> Nat]]]
         /\ runs'[a][c][Head1(a, c)] = runs[a][c][Head1(a, c)] + 1
         /\ \A b \in Names, d \in Channels, j \in Positions :
              <<b, d, j>> # <<a, c, Head1(a, c)>> => runs'[b][d][j] = runs[b][d][j]
         /\ begun' = begun \cup {<<a, c, Head1(a, c)>>}
<1>1. runs \in [Names -> [Channels -> [Positions -> Nat]]] /\ a \in Names
  BY DEF TypeOK, Names
<1>2. runs' = [runs EXCEPT ![a][c][Head1(a, c)] = @ + 1] /\ begun' = begun \cup {<<a, c, Head1(a, c)>>}
  BY DEF Took
<1> QED BY <1>1, <1>2, Counted

LEMMA PositionsStep ==
  ASSUME TypeOK, Shape, TypeOK', AStep
  PROVE  PositionsInLog'
<1>0. /\ \A c \in Channels : /\ offset[c] \in Nat /\ saved[c] \in Nat /\ target[c] \in Nat
                             /\ Len(log[c]) \in Nat
      /\ Positions \subseteq Nat
      /\ everHandled \in [Names -> [Channels -> SUBSET Positions]]
      /\ PositionsInLog
  BY BoundsAssumption DEF TypeOK, Positions, Shape
<1>1. CASE UNCHANGED vars
  BY <1>0, <1>1 DEF vars, durable, gateway, pool, history, PositionsInLog
<1>2. ASSUME NEW c \in Channels, NEW m \in Messages, Publish(c, m) PROVE PositionsInLog'
  <2>1. \A d \in Channels : Len(log'[d]) \in Nat /\ Len(log[d]) <= Len(log'[d])
    BY <1>2, Published
  <2>2. UNCHANGED <<saved, offset, target, phase, everHandled, runs>>
    BY <1>2 DEF Publish, gateway, history
  <2>3. \A d \in Channels :
          /\ offset[d] <= Len(log'[d]) /\ saved[d] <= Len(log'[d]) /\ target[d] <= Len(log'[d])
          /\ \A j \in Nat : j <= Len(log[d]) => j <= Len(log'[d])
    BY <1>0, <2>1 DEF PositionsInLog
  <2>4. \A b \in Names, d \in Channels : \A j \in everHandled[b][d] : j <= Len(log'[d])
    <3>1. \A b \in Names, d \in Channels : \A j \in everHandled[b][d] : j \in Nat /\ j <= Len(log[d])
      BY <1>0 DEF PositionsInLog
    <3> QED BY <2>3, <3>1
  <2>5. \A b \in Agents, d \in Channels, j \in Positions : runs[b][d][j] > 0 => j <= Len(log'[d])
    <3>1. \A b \in Agents, d \in Channels, j \in Positions :
            runs[b][d][j] > 0 => j \in Nat /\ j <= Len(log[d])
      BY <1>0 DEF PositionsInLog
    <3> QED BY <2>3, <3>1
  <2>6. \A d \in Channels : phase = "down" => offset[d] = 0
    BY <1>0 DEF PositionsInLog
  <2> QED BY <2>2, <2>3, <2>4, <2>5, <2>6 DEF PositionsInLog
<1>3. CASE DrainBegin
  BY <1>0, <1>3 DEF DrainBegin, durable, history, PositionsInLog
<1>4. CASE HandsOver
  <2>1. PICK upTo \in [Channels -> 0..MaxLog], skipped \in SUBSET Positions :
          /\ \A c \in Channels : offset[c] <= upTo[c] /\ upTo[c] <= Len(log[c])
          /\ HandOver(upTo, skipped)
    BY <1>4 DEF HandsOver
  <2>2. offset' = upTo
    BY <2>1 DEF HandOver
  <2> QED BY <1>0, <1>4, <2>1, <2>2 DEF HandsOver, history, PositionsInLog
<1>5. CASE Saves
  BY <1>0, <1>5 DEF Saves, history, PositionsInLog
<1>6. ASSUME NEW c \in Channels, NEW i \in Positions, DispatchEnd(c, i) PROVE PositionsInLog'
  BY <1>0, <1>6 DEF DispatchEnd, history, PositionsInLog
<1>7. ASSUME NEW c \in Channels, NEW i \in Positions, Answer(c, i) PROVE PositionsInLog'
  BY <1>0, <1>7 DEF Answer, durable, PositionsInLog
<1>8. ASSUME NEW c \in Channels, NEW i \in Positions, RecordControl(c, i) PROVE PositionsInLog'
  <2> DEFINE a == CHOOSE n \in Names : n \in To(c, i)
  <2>1. a \in Names /\ i \in 1..Len(log[c])
    <3>1. reply[c][i] # "none"
      BY <1>8 DEF RecordControl
    <3> QED BY <3>1, TargetOf
  <2>2. MarkHandled(a, c, i)
    BY <1>8 DEF RecordControl
  <2> HIDE DEF a
  <2>3. \A b \in Names, d \in Channels : \A j \in everHandled'[b][d] :
          j \in everHandled[b][d] \/ (d = c /\ j = i)
    BY <2>1, <2>2, MarkedEver
  <2>4. i <= Len(log[c])
    BY <1>0, <2>1
  <2> QED BY <1>0, <1>8, <2>3, <2>4 DEF RecordControl, PositionsInLog
<1>9. ASSUME NEW a \in Agents, NEW c \in Channels, GoesOn(a, c) PROVE PositionsInLog'
  BY <1>0, <1>9 DEF GoesOn, gateway, PositionsInLog
<1>11. ASSUME NEW a \in Agents, NEW c \in Channels, lane[a][c] # <<>>, Took(a, c),
              UNCHANGED <<log, offset, saved, target, phase, everHandled>>
       PROVE  PositionsInLog'
  <2>1. Head1(a, c) \in Positions /\ Head1(a, c) <= Len(log[c])
    BY <1>11, HeadInLog
  <2>2. \A b \in Names, d \in Channels, j \in Positions :
          <<b, d, j>> # <<a, c, Head1(a, c)>> => runs'[b][d][j] = runs[b][d][j]
    BY <1>11, <2>1, TookRuns
  <2>3. \A b \in Agents, d \in Channels, j \in Positions : runs'[b][d][j] > 0 => j <= Len(log[d])
    <3> SUFFICES ASSUME NEW b \in Agents, NEW d \in Channels, NEW j \in Positions,
                        runs'[b][d][j] > 0
                 PROVE  j <= Len(log[d])
      OBVIOUS
    <3>1. CASE <<b, d, j>> = <<a, c, Head1(a, c)>>
      BY <2>1, <3>1
    <3>2. CASE <<b, d, j>> # <<a, c, Head1(a, c)>>
      <4>1. b \in Names
        BY DEF Names
      <4>2. runs[b][d][j] > 0
        BY <2>2, <3>2, <4>1
      <4> QED BY <1>0, <4>2 DEF PositionsInLog
    <3> QED BY <3>1, <3>2
  <2> QED BY <1>0, <1>11, <2>3 DEF PositionsInLog
<1>12. ASSUME NEW a \in Agents, NEW c \in Channels, Prompt(a, c) PROVE PositionsInLog'
  <2>1. lane[a][c] # <<>>
    BY <1>12 DEF Prompt, Shape, LanesAwaited, LaneAwaited
  <2> QED BY <1>11, <1>12, <2>1 DEF Prompt, durable, gateway
<1>13. ASSUME NEW a \in Agents, NEW c \in Channels, RecordTurn(a, c) PROVE PositionsInLog'
  <2>1. lane[a][c] # <<>>
    BY <1>13 DEF RecordTurn, Shape, LanesAwaited, LaneAwaited
  <2>2. Head1(a, c) \in Positions /\ Head1(a, c) <= Len(log[c]) /\ a \in Names
    BY <2>1, HeadInLog
  <2>3. MarkHandled(a, c, Head1(a, c))
    BY <1>13 DEF RecordTurn
  <2>4. \A b \in Names, d \in Channels : \A j \in everHandled'[b][d] :
          j \in everHandled[b][d] \/ (d = c /\ j = Head1(a, c))
    BY <2>2, <2>3, MarkedEver
  <2> QED BY <1>0, <1>13, <2>2, <2>4 DEF RecordTurn, PositionsInLog
<1>14. ASSUME NEW a \in Agents, NEW c \in Channels, Operates(a, c) PROVE PositionsInLog'
  BY <1>11, <1>14 DEF Operates, durable
<1>15. CASE Stop
  BY <1>0, <1>15 DEF Stop, durable, PositionsInLog
<1>16. CASE Restarts
  BY <1>0, <1>16 DEF Restarts, Vanish, durable, PositionsInLog
<1> QED BY <1>1, <1>2, <1>3, <1>4, <1>5, <1>6, <1>7, <1>8, <1>9, <1>12, <1>13, <1>14, <1>15,
           <1>16 DEF AStep

LEMMA LedgerStep ==
  ASSUME TypeOK, Shape, TypeOK', AStep
  PROVE  LedgerTrue'
<1>1. ASSUME UNCHANGED <<handled, everHandled>> PROVE LedgerTrue'
  BY <1>1 DEF Shape, LedgerTrue, IsHandled
<1>2. ASSUME NEW a \in Names, NEW c \in Channels, NEW i \in Positions, MarkHandled(a, c, i)
      PROVE  LedgerTrue'
  <2> SUFFICES ASSUME NEW b \in Names, NEW d \in Channels, NEW j \in Positions, IsHandled(b, d, j)'
               PROVE  j \in everHandled'[b][d]
    BY DEF LedgerTrue
  <2>1. CASE b = a /\ d = c
    <3>1. j = i \/ IsHandled(a, c, j)
      BY <1>2, <2>1, Marked
    <3>2. everHandled'[a][c] = everHandled[a][c] \cup {i}
      BY <1>2, Marked
    <3> QED BY <2>1, <3>1, <3>2 DEF Shape, LedgerTrue
  <2>2. CASE <<b, d>> # <<a, c>>
    <3>1. handled'[b][d] = handled[b][d] /\ everHandled'[b][d] = everHandled[b][d]
      BY <1>2, <2>2, Marked
    <3> QED BY <3>1 DEF Shape, LedgerTrue, IsHandled
  <2> QED BY <2>1, <2>2
<1>3. ASSUME NEW c \in Channels, NEW i \in Positions, RecordControl(c, i) PROVE LedgerTrue'
  <2> DEFINE a == CHOOSE n \in Names : n \in To(c, i)
  <2>1. a \in Names
    BY <1>3, TargetOf DEF RecordControl
  <2>2. MarkHandled(a, c, i)
    BY <1>3 DEF RecordControl
  <2> HIDE DEF a
  <2> QED BY <1>2, <2>1, <2>2
<1>4. ASSUME NEW a \in Agents, NEW c \in Channels, RecordTurn(a, c) PROVE LedgerTrue'
  <2>1. Head1(a, c) \in Positions /\ a \in Names
    BY <1>4, HeadOf DEF RecordTurn, Shape, LanesAwaited, LaneAwaited, Names
  <2>2. MarkHandled(a, c, Head1(a, c))
    BY <1>4 DEF RecordTurn
  <2> QED BY <1>2, <2>1, <2>2
<1>5. CASE \E c \in Channels, i \in Positions : RecordControl(c, i)
  BY <1>3, <1>5
<1>6. CASE \E a \in Agents, c \in Channels : RecordTurn(a, c)
  BY <1>4, <1>6
<1>7. CASE /\ ~ \E c \in Channels, i \in Positions : RecordControl(c, i)
           /\ ~ \E a \in Agents, c \in Channels : RecordTurn(a, c)
  <2>1. UNCHANGED <<handled, everHandled>>
    BY <1>7 DEF AStep, vars, Publish, DrainBegin, HandsOver, Saves, DispatchEnd, Answer, GoesOn,
                Prompt, Operates, Stop, Restarts, Vanish, durable, history
  <2> QED BY <1>1, <2>1
<1> QED BY <1>5, <1>6, <1>7

\* Dispatches whose variables a step leaves alone.
DispatchesKept == UNCHANGED <<log, open, offset, awaits, reply, acks>>

LEMMA DispatchesStep ==
  ASSUME TypeOK, Shape, TypeOK', AStep
  PROVE  DispatchesOpen'
<1>0. /\ DispatchesOpen /\ Positions \subseteq Nat /\ 0 \notin Positions
      /\ \A c \in Channels : offset[c] \in Nat /\ Len(log[c]) \in Nat /\ offset[c] <= Len(log[c])
      /\ \A c \in Channels, i \in Positions : acks[c][i] \in Nat
      /\ \A c \in Channels : open[c] \subseteq Positions
  BY BoundsAssumption DEF TypeOK, Positions, Shape, PositionsInLog
<1>1. ASSUME DispatchesKept PROVE DispatchesOpen'
  BY <1>0, <1>1 DEF DispatchesKept, DispatchesOpen, IsControl, Kind
<1>2. CASE UNCHANGED vars
  BY <1>1, <1>2 DEF vars, durable, gateway, history, DispatchesKept
<1>3. ASSUME NEW c \in Channels, NEW m \in Messages, Publish(c, m) PROVE DispatchesOpen'
  <2>1. UNCHANGED <<open, offset, awaits, reply, acks>>
    BY <1>3 DEF Publish, gateway, history
  <2>2. ASSUME NEW d \in Channels, NEW i \in Positions, i \in open[d]
        PROVE  IsControl(d, i)' <=> IsControl(d, i)
    <3>1. i <= offset[d]
      BY <1>0, <2>2 DEF DispatchesOpen
    <3>2. i \in Nat /\ i # 0
      BY <1>0
    <3>3. offset[d] <= Len(log[d]) /\ offset[d] \in Nat /\ Len(log[d]) \in Nat
      BY <1>0
    <3>4. i \in 1..Len(log[d])
      BY <3>1, <3>2, <3>3
    <3> QED BY <1>3, <3>4, Published
  <2> QED BY <1>0, <2>1, <2>2 DEF DispatchesOpen
<1>4. CASE DrainBegin
  <2>1. \A c \in Channels : offset[c] = 0
    BY <1>4 DEF DrainBegin, Shape, PositionsInLog
  <2>2. \A c \in Channels : open[c] = {}
    <3> SUFFICES ASSUME NEW c \in Channels, NEW i \in open[c] PROVE FALSE
      OBVIOUS
    <3>1. i \in Positions /\ i \in Nat /\ i # 0
      BY <1>0
    <3>2. i <= 0
      BY <1>0, <2>1, <3>1 DEF DispatchesOpen
    <3> QED BY <3>1, <3>2
  <2> QED BY <1>0, <1>4, <2>2 DEF DrainBegin, DispatchesOpen
<1>5. CASE HandsOver
  <2>1. PICK upTo \in [Channels -> 0..MaxLog], skipped \in SUBSET Positions :
          /\ \A c \in Channels : offset[c] <= upTo[c] /\ upTo[c] <= Len(log[c])
          /\ HandOver(upTo, skipped)
    BY <1>5 DEF HandsOver
  <2>2. log' = log /\ acks' = acks
    BY <1>5 DEF HandsOver, history
  <2> SUFFICES ASSUME NEW c \in Channels, NEW i \in Positions
               PROVE  /\ i \in open'[c] => i <= offset'[c]
                      /\ reply'[c][i] # "none" => i \in open'[c] /\ IsControl(c, i)
                      /\ reply'[c][i] = "sent" => awaits'[c][i] = {} /\ acks[c][i] > 0
    BY <2>2 DEF DispatchesOpen, IsControl, Kind
  <2> DEFINE N == New(upTo, skipped, c)
  <2>3. offset' = upTo /\ open'[c] = open[c] \cup N
    BY <2>1, Handed
  <2>4. \A j \in N : j > offset[c] /\ j <= upTo[c]
    BY <2>1, Handed
  <2>5. /\ awaits'[c][i] = IF i \in N /\ Kind(c, i) # "stop"
                             THEN {a \in Agents : Wants(a, c, i)} ELSE awaits[c][i]
        /\ reply'[c][i] = IF i \in N /\ IsControl(c, i) /\ \E a \in Names : Wants(a, c, i)
                            THEN "due" ELSE reply[c][i]
    BY ZenonT(40), <2>1, Handed
  <2> HIDE DEF N
  <2>6. /\ i \in open[c] => i <= offset[c]
        /\ reply[c][i] # "none" => i \in open[c] /\ IsControl(c, i)
        /\ reply[c][i] = "sent" => awaits[c][i] = {} /\ acks[c][i] > 0
    BY <1>0 DEF DispatchesOpen
  <2>7. i \in Nat /\ offset[c] \in Nat /\ upTo[c] \in Nat /\ offset[c] <= upTo[c]
    BY <1>0, <2>1, BoundsAssumption
  <2>8. i \in open[c] => i \notin N
    BY <2>4, <2>6, <2>7
  <2>9. i \in open'[c] => i <= offset'[c]
    BY <2>3, <2>4, <2>6, <2>7
  <2>10. reply'[c][i] # "none" => i \in open'[c] /\ IsControl(c, i)
    BY <2>3, <2>5, <2>6
  <2>11. reply'[c][i] = "sent" => awaits'[c][i] = {} /\ acks[c][i] > 0
    BY <2>5, <2>6, <2>8
  <2> QED BY <2>9, <2>10, <2>11
<1>6. CASE Saves
  BY <1>1, <1>6 DEF Saves, history, DispatchesKept
<1>7. ASSUME NEW c \in Channels, NEW i \in Positions, DispatchEnd(c, i) PROVE DispatchesOpen'
  <2>1. UNCHANGED <<log, offset, awaits, reply, acks>> /\ reply[c][i] = "none"
    BY <1>7 DEF DispatchEnd, history
  <2>2. \A d \in Channels : open'[d] = IF d = c THEN open[c] \ {i} ELSE open[d]
    BY <1>7 DEF DispatchEnd, TypeOK
  <2> QED BY <1>0, <2>1, <2>2 DEF DispatchesOpen, IsControl, Kind
<1>8. ASSUME NEW c \in Channels, NEW i \in Positions, Answer(c, i) PROVE DispatchesOpen'
  <2>1. UNCHANGED <<log, offset, awaits, open>> /\ reply[c][i] = "due" /\ awaits[c][i] = {}
    BY <1>8 DEF Answer, durable
  <2>2. \A d \in Channels, j \in Positions :
          /\ reply'[d][j] = IF d = c /\ j = i THEN "sent" ELSE reply[d][j]
          /\ acks'[d][j] = IF d = c /\ j = i THEN acks[d][j] + 1 ELSE acks[d][j]
    BY SMTT(40), <1>8 DEF Answer, TypeOK
  <2>3. acks[c][i] + 1 > 0
    BY <1>0
  <2> QED BY <1>0, <2>1, <2>2, <2>3 DEF DispatchesOpen, IsControl, Kind
<1>9. ASSUME NEW c \in Channels, NEW i \in Positions, RecordControl(c, i) PROVE DispatchesOpen'
  <2>1. UNCHANGED <<log, offset, awaits, open, acks>>
    BY <1>9 DEF RecordControl
  <2>2. \A d \in Channels, j \in Positions :
          reply'[d][j] = IF d = c /\ j = i THEN "none" ELSE reply[d][j]
    BY <1>9 DEF RecordControl, TypeOK
  <2> QED BY <1>0, <2>1, <2>2 DEF DispatchesOpen, IsControl, Kind
<1>10. ASSUME NEW a \in Agents, NEW c \in Channels, GoesOn(a, c) \/ Prompt(a, c)
       PROVE  DispatchesOpen'
  BY <1>1, <1>10 DEF GoesOn, Prompt, durable, gateway, DispatchesKept
<1>11. ASSUME NEW a \in Agents, NEW c \in Channels, RecordTurn(a, c) \/ Operates(a, c)
       PROVE  DispatchesOpen'
  <2>1. UNCHANGED <<log, offset, open, reply, acks>> /\ Leave(a, c)
    BY <1>11 DEF RecordTurn, Operates, durable
  <2>2. lane[a][c] # <<>>
    BY <1>11 DEF RecordTurn, Operates, Shape, LanesAwaited, LaneAwaited
  <2>3. awaits' \in [Channels -> [Positions -> SUBSET Agents]]
    BY DEF TypeOK
  <2>4. \A b \in Agents, d \in Channels, j \in Positions : b \in awaits'[d][j] => b \in awaits[d][j]
    BY <2>1, <2>2, LeaveTyped
  <2>5. \A d \in Channels, j \in Positions : awaits[d][j] = {} => awaits'[d][j] = {}
    BY <2>3, <2>4
  <2> QED BY <1>0, <2>1, <2>5 DEF DispatchesOpen, IsControl, Kind
<1>12. CASE Stop
  BY <1>1, <1>12 DEF Stop, durable, DispatchesKept
<1>13. CASE Restarts
  BY <1>13 DEF Restarts, Vanish, DispatchesOpen
<1> QED BY <1>2, <1>3, <1>4, <1>5, <1>6, <1>7, <1>8, <1>9, <1>10, <1>11, <1>12, <1>13 DEF AStep

----------------------------------------------------------------------------
(* Lanes.                                                                  *)

\* A lane that a step leaves alone.
LEMMA LaneKept ==
  ASSUME TypeOK, Shape, NEW a \in Agents, NEW c \in Channels,
         lane'[a][c] = lane[a][c],
         \A i \in Positions : a \in awaits'[c][i] <=> a \in awaits[c][i],
         offset'[c] \in Nat, offset[c] <= offset'[c],
         \A i \in Positions : InLane(a, c, i) =>
           /\ i \in open'[c] /\ To(c, i)' = To(c, i) /\ Kind(c, i)' = Kind(c, i)
           /\ IsHandled(a, c, i)' => IsHandled(a, c, i)
           /\ IsControl(c, i) /\ reply[c][i] = "due" => reply'[c][i] = "due",
         stage'[a][c] # "idle" => /\ lane[a][c] # <<>>
                                  /\ HeadKind(a, c) \in {"text", "watch"}
  PROVE  LaneAwaited(a, c)'
<1>0. LaneAwaited(a, c) /\ offset[c] \in Nat /\ Positions \subseteq Nat
  BY BoundsAssumption DEF Shape, LanesAwaited, TypeOK, Positions
<1>1. \A i \in Positions : InLane(a, c, i)' <=> InLane(a, c, i)
  BY DEF InLane
<1>2. ASSUME NEW i \in Positions, InLane(a, c, i)
      PROVE  /\ i <= offset'[c] /\ i \in open'[c]
             /\ a \in To(c, i)' /\ ~ IsHandled(a, c, i)'
             /\ IsControl(c, i)' => reply'[c][i] = "due"
  <2>1. /\ i <= offset[c] /\ a \in To(c, i) /\ ~ IsHandled(a, c, i)
        /\ IsControl(c, i) => reply[c][i] = "due"
    BY <1>0, <1>2 DEF LaneAwaited
  <2>2. i <= offset'[c]
    BY <1>0, <2>1
  <2>3. IsControl(c, i)' <=> IsControl(c, i)
    BY <1>2 DEF IsControl
  <2> QED BY <1>2, <2>1, <2>2, <2>3
<1>3. stage'[a][c] # "idle" => lane'[a][c] # <<>> /\ HeadKind(a, c)' \in {"text", "watch"}
  <2> SUFFICES ASSUME stage'[a][c] # "idle"
               PROVE lane'[a][c] # <<>> /\ HeadKind(a, c)' \in {"text", "watch"}
    OBVIOUS
  <2>1. Head1(a, c) \in Positions /\ InLane(a, c, Head1(a, c))
    BY HeadOf
  <2>2. Head1(a, c)' = Head1(a, c) /\ Kind(c, Head1(a, c))' = Kind(c, Head1(a, c))
    BY <2>1 DEF Head1, Kind
  <2> QED BY <2>2 DEF HeadKind
<1>4. \A j, k \in 1..Len(lane'[a][c]) : lane'[a][c][j] = lane'[a][c][k] => j = k
  BY <1>0 DEF LaneAwaited
<1>5. \A i \in Positions : a \in awaits'[c][i] <=> InLane(a, c, i)'
  BY <1>0, <1>1 DEF LaneAwaited
<1> QED BY <1>1, <1>2, <1>3, <1>4, <1>5 DEF LaneAwaited

\* A lane that loses its head.
LEMMA LanePopped ==
  ASSUME TypeOK, Shape, NEW a \in Agents, NEW c \in Channels, lane[a][c] # <<>>,
         Leave(a, c)
  PROVE  /\ \A i \in Positions : InLane(a, c, i)' <=> InLane(a, c, i) /\ i # Head1(a, c)
         /\ \A j, k \in 1..Len(lane'[a][c]) : lane'[a][c][j] = lane'[a][c][k] => j = k
         /\ \A i \in Positions : a \in awaits'[c][i] <=> InLane(a, c, i)'
<1> DEFINE q == lane[a][c]
<1>1. /\ q \in Seq(Positions) /\ \A j, k \in 1..Len(q) : q[j] = q[k] => j = k
      /\ lane'[a][c] = Tail(q) /\ Head1(a, c) = Head(q)
      /\ \A i \in Positions : a \in awaits[c][i] <=> InLane(a, c, i)
  <2>1. lane[a][c] \in Seq(Positions)
    BY DEF TypeOK
  <2>2. LaneAwaited(a, c)
    BY DEF Shape, LanesAwaited
  <2>3. lane'[a][c] = Tail(lane[a][c])
    BY LeaveTyped
  <2> QED BY <2>1, <2>2, <2>3 DEF LaneAwaited, Head1
<1>2. \A i \in Positions : a \in awaits'[c][i] <=> a \in awaits[c][i] /\ i # Head1(a, c)
  BY LeaveTyped
<1> HIDE DEF q
<1>3. /\ \A k \in 1..Len(Tail(q)) :
           k + 1 \in 1..Len(q) /\ Tail(q)[k] = q[k + 1] /\ q[k + 1] # Head(q)
      /\ \A k \in 1..Len(q) : q[k] # Head(q) =>
           k - 1 \in 1..Len(Tail(q)) /\ Tail(q)[k - 1] = q[k]
      /\ \A j, k \in 1..Len(Tail(q)) : Tail(q)[j] = Tail(q)[k] => j = k
  <2>1. q # <<>>
    BY DEF q
  <2> QED BY <1>1, <2>1, Pop
<1>4. \A i \in Positions : InLane(a, c, i) <=> \E k \in 1..Len(q) : q[k] = i
  BY DEF InLane, q
<1>5. \A i \in Positions : InLane(a, c, i)' <=> \E k \in 1..Len(Tail(q)) : Tail(q)[k] = i
  BY <1>1 DEF InLane
<1>6. \A i \in Positions : InLane(a, c, i)' <=> InLane(a, c, i) /\ i # Head1(a, c)
  <2> SUFFICES ASSUME NEW i \in Positions
               PROVE (\E k \in 1..Len(Tail(q)) : Tail(q)[k] = i) <=>
                       (\E k \in 1..Len(q) : q[k] = i) /\ i # Head(q)
    BY <1>1, <1>4, <1>5
  <2>1. ASSUME NEW k \in 1..Len(Tail(q)), Tail(q)[k] = i
        PROVE  (\E j \in 1..Len(q) : q[j] = i) /\ i # Head(q)
    BY <1>3, <2>1
  <2>2. ASSUME NEW k \in 1..Len(q), q[k] = i, i # Head(q)
        PROVE  \E j \in 1..Len(Tail(q)) : Tail(q)[j] = i
    BY <1>3, <2>2
  <2> QED BY <2>1, <2>2
<1>7. \A i \in Positions : a \in awaits'[c][i] <=> InLane(a, c, i)'
  BY <1>1, <1>2, <1>6
<1>8. \A j, k \in 1..Len(lane'[a][c]) : lane'[a][c][j] = lane'[a][c][k] => j = k
  BY <1>1, <1>3
<1> QED BY <1>6, <1>7, <1>8

\* A lane that is handed over to.
LEMMA LaneFilled ==
  ASSUME TypeOK, Shape, HandsOver, NEW a \in Agents, NEW c \in Channels
  PROVE  LaneAwaited(a, c)'
<1>1. PICK upTo \in [Channels -> 0..MaxLog], skipped \in SUBSET Positions :
        /\ \A d \in Channels : offset[d] <= upTo[d] /\ upTo[d] <= Len(log[d])
        /\ HandOver(upTo, skipped)
  BY DEF HandsOver
<1>2. UNCHANGED <<log, handled, stage>>
  BY DEF HandsOver
<1> DEFINE N == New(upTo, skipped, c)
           s == lane[a][c]
           t == lane'[a][c]
<1>3. /\ offset' = upTo /\ open'[c] = open[c] \cup N
      /\ \A i \in N : i \in Positions /\ i > offset[c] /\ i <= upTo[c]
      /\ LaneGets(N, a, c)
      /\ \A i \in Positions :
           /\ awaits'[c][i] = IF i \in N /\ Kind(c, i) # "stop"
                                THEN {b \in Agents : Wants(b, c, i)} ELSE awaits[c][i]
           /\ reply'[c][i] = IF i \in N /\ IsControl(c, i) /\ \E b \in Names : Wants(b, c, i)
                               THEN "due" ELSE reply[c][i]
  <2>1. /\ offset' = upTo /\ open'[c] = open[c] \cup N
        /\ \A i \in N : i \in Positions /\ i > offset[c] /\ i <= upTo[c]
    BY <1>1, Handed
  <2>2. LaneGets(N, a, c)
    BY <1>1, Handed
  <2>3. \A i \in Positions :
           /\ awaits'[c][i] = IF i \in N /\ Kind(c, i) # "stop"
                                THEN {b \in Agents : Wants(b, c, i)} ELSE awaits[c][i]
           /\ reply'[c][i] = IF i \in N /\ IsControl(c, i) /\ \E b \in Names : Wants(b, c, i)
                               THEN "due" ELSE reply[c][i]
    <3> SUFFICES ASSUME NEW i \in Positions
                 PROVE
                   /\ awaits'[c][i] = IF i \in N /\ Kind(c, i) # "stop"
                                        THEN {b \in Agents : Wants(b, c, i)} ELSE awaits[c][i]
                   /\ reply'[c][i] =
                        IF i \in N /\ IsControl(c, i) /\ \E b \in Names : Wants(b, c, i)
                          THEN "due" ELSE reply[c][i]
      OBVIOUS
    <3> QED BY ZenonT(40), <1>1, Handed
  <2> HIDE DEF N
  <2> QED BY <2>1, <2>2, <2>3
<1>4. LaneAwaited(a, c) /\ offset[c] \in Nat /\ upTo[c] \in Nat /\ Positions \subseteq Nat /\ a \in Names
  BY BoundsAssumption DEF Shape, LanesAwaited, TypeOK, Positions, Names
<1>5. /\ Len(s) \in Nat /\ Len(t) \in Nat /\ Len(s) <= Len(t)
      /\ \A k \in 1..Len(s) : t[k] = s[k]
      /\ \A k \in (Len(s) + 1)..Len(t) : t[k] \in N /\ Wants(a, c, t[k]) /\ Kind(c, t[k]) # "stop"
      /\ \A i \in N : Wants(a, c, i) /\ Kind(c, i) # "stop" =>
           \E k \in (Len(s) + 1)..Len(t) : t[k] = i
      /\ \A j, k \in (Len(s) + 1)..Len(t) : t[j] = t[k] => j = k
      /\ s # <<>> => t # <<>> /\ Head1(a, c)' = Head1(a, c)
  BY <1>3 DEF LaneGets
<1>6. s \in Seq(Positions)
  BY DEF TypeOK
<1>7. \A i \in Positions : InLane(a, c, i) => i \notin N /\ i <= offset[c]
  <2> SUFFICES ASSUME NEW i \in Positions, InLane(a, c, i)
               PROVE  i \notin N /\ i <= offset[c]
    OBVIOUS
  <2>1. i <= offset[c] /\ i \in Nat
    BY <1>4 DEF LaneAwaited
  <2>2. ~ (i > offset[c])
    BY <1>4, <2>1
  <2> HIDE DEF N
  <2> QED BY <1>3, <2>1, <2>2
<1>8. \A k \in 1..Len(s) : s[k] \in Positions /\ InLane(a, c, s[k]) /\ s[k] \notin N
  BY <1>6, <1>7 DEF InLane
<1> HIDE DEF N
<1>9. \A k \in 1..Len(t) : k \in 1..Len(s) \/ k \in (Len(s) + 1)..Len(t)
  BY <1>5
<1>10. 1..Len(s) \subseteq 1..Len(t) /\ (Len(s) + 1)..Len(t) \subseteq 1..Len(t)
  BY <1>5
<1>11. \A j, k \in 1..Len(t) : t[j] = t[k] => j = k
  <2> SUFFICES ASSUME NEW j \in 1..Len(t), NEW k \in 1..Len(t), t[j] = t[k] PROVE j = k
    OBVIOUS
  <2>1. CASE j \in 1..Len(s) /\ k \in 1..Len(s)
    BY <1>4, <1>5, <2>1 DEF LaneAwaited
  <2>2. CASE j \in (Len(s) + 1)..Len(t) /\ k \in (Len(s) + 1)..Len(t)
    BY <1>5, <2>2
  <2>3. CASE j \in 1..Len(s) /\ k \in (Len(s) + 1)..Len(t)
    BY <1>5, <1>8, <2>3
  <2>4. CASE k \in 1..Len(s) /\ j \in (Len(s) + 1)..Len(t)
    BY <1>5, <1>8, <2>4
  <2> QED BY <1>9, <2>1, <2>2, <2>3, <2>4
<1>12. ASSUME NEW i \in Positions
       PROVE  InLane(a, c, i)' <=>
                InLane(a, c, i) \/ (i \in N /\ Wants(a, c, i) /\ Kind(c, i) # "stop")
  <2>1. ASSUME InLane(a, c, i)'
        PROVE  InLane(a, c, i) \/ (i \in N /\ Wants(a, c, i) /\ Kind(c, i) # "stop")
    <3>1. PICK k \in 1..Len(t) : t[k] = i
      BY <2>1 DEF InLane
    <3> QED BY <1>5, <1>9, <3>1 DEF InLane
  <2>2. ASSUME InLane(a, c, i) PROVE InLane(a, c, i)'
    <3>1. PICK k \in 1..Len(s) : s[k] = i
      BY <2>2 DEF InLane
    <3> QED BY <1>5, <1>10, <3>1 DEF InLane
  <2>3. ASSUME i \in N, Wants(a, c, i), Kind(c, i) # "stop" PROVE InLane(a, c, i)'
    BY <1>5, <1>10, <2>3 DEF InLane
  <2> QED BY <2>1, <2>2, <2>3
<1>13. ASSUME NEW i \in Positions PROVE a \in awaits'[c][i] <=> InLane(a, c, i)'
  <2>1. a \in awaits[c][i] <=> InLane(a, c, i)
    BY <1>4 DEF LaneAwaited
  <2>2. CASE i \in N /\ Kind(c, i) # "stop"
    <3>1. a \in awaits'[c][i] <=> Wants(a, c, i)
      BY <1>3, <2>2
    <3> QED BY <1>7, <1>12, <2>2, <3>1
  <2>3. CASE ~ (i \in N /\ Kind(c, i) # "stop")
    <3>1. awaits'[c][i] = awaits[c][i]
      BY <1>3, <2>3
    <3> QED BY <1>12, <2>1, <2>3, <3>1
  <2> QED BY <2>2, <2>3
<1>14. ASSUME NEW i \in Positions, InLane(a, c, i)'
       PROVE  /\ i <= offset'[c] /\ i \in open'[c]
              /\ a \in To(c, i)' /\ ~ IsHandled(a, c, i)'
              /\ IsControl(c, i)' => reply'[c][i] = "due"
  <2>0. /\ To(c, i)' = To(c, i) /\ (IsHandled(a, c, i)' <=> IsHandled(a, c, i))
        /\ (IsControl(c, i)' <=> IsControl(c, i))
    BY <1>2 DEF To, IsHandled, IsControl, Kind
  <2>1. CASE InLane(a, c, i)
    <3>1. /\ i <= offset[c] /\ i \in open[c] /\ a \in To(c, i) /\ ~ IsHandled(a, c, i)
          /\ IsControl(c, i) => reply[c][i] = "due"
      BY <1>4, <2>1 DEF LaneAwaited
    <3>2. i <= offset'[c]
      BY <1>1, <1>3, <1>4, <3>1
    <3> QED BY <1>3, <2>0, <3>1, <3>2
  <2>2. CASE i \in N /\ Wants(a, c, i)
    BY <1>3, <1>4, <2>0, <2>2 DEF Wants
  <2> QED BY <1>12, <1>14, <2>1, <2>2
<1>15. stage'[a][c] # "idle" => lane'[a][c] # <<>> /\ HeadKind(a, c)' \in {"text", "watch"}
  <2>1. Head1(a, c)' = Head1(a, c) => HeadKind(a, c)' = HeadKind(a, c)
    BY <1>2 DEF HeadKind, Kind
  <2> QED BY <1>2, <1>4, <1>5, <2>1 DEF LaneAwaited
<1> QED BY <1>11, <1>13, <1>14, <1>15 DEF LaneAwaited

\* What waits in a lane is a position of the log.
LEMMA WaitsInLog ==
  ASSUME TypeOK, Shape, NEW a \in Agents, NEW c \in Channels, NEW i \in Positions, InLane(a, c, i)
  PROVE  i \in 1..Len(log[c]) /\ i \in open[c] /\ a \in awaits[c][i]
<1>1. i <= offset[c] /\ i \in open[c] /\ a \in awaits[c][i] /\ offset[c] <= Len(log[c])
  BY DEF Shape, LanesAwaited, LaneAwaited, PositionsInLog
<1>2. offset[c] \in Nat /\ Len(log[c]) \in Nat /\ i \in Nat /\ i >= 1
  BY BoundsAssumption DEF TypeOK, Positions
<1> QED BY <1>1, <1>2

LEMMA LanesStep ==
  ASSUME TypeOK, Shape, TypeOK', AStep
  PROVE  LanesAwaited'
<1> SUFFICES ASSUME NEW b \in Agents, NEW d \in Channels PROVE LaneAwaited(b, d)'
  BY DEF LanesAwaited
<1>0. /\ LaneAwaited(b, d) /\ offset[d] \in Nat /\ offset'[d] \in Nat /\ b \in Names
      /\ \A i \in Positions : InLane(b, d, i) => i \in open[d] /\ b \in awaits[d][i]
      /\ offset[d] <= offset[d]
  BY SMTT(40), BoundsAssumption DEF Shape, LanesAwaited, LaneAwaited, TypeOK, Names
<1>14. stage[b][d] # "idle" => lane[b][d] # <<>> /\ HeadKind(b, d) \in {"text", "watch"}
  BY <1>0 DEF LaneAwaited
<1>1. ASSUME UNCHANGED <<log, lane, awaits, offset, open, handled, stage, reply>>
      PROVE  LaneAwaited(b, d)'
  BY <1>0, <1>14, <1>1, LaneKept DEF To, Kind, IsHandled
<1>2. CASE UNCHANGED vars
  BY <1>1, <1>2 DEF vars, durable, gateway, pool
<1>3. ASSUME NEW c \in Channels, NEW m \in Messages, Publish(c, m) PROVE LaneAwaited(b, d)'
  <2>1. UNCHANGED <<lane, awaits, offset, open, handled, stage, reply>>
    BY <1>3 DEF Publish, gateway, pool
  <2>2. \A i \in Positions : InLane(b, d, i) =>
          To(d, i)' = To(d, i) /\ Kind(d, i)' = Kind(d, i)
    BY <1>3, WaitsInLog, Published
  <2> QED BY <1>0, <1>14, <2>1, <2>2, LaneKept DEF IsHandled
<1>4. CASE DrainBegin
  <2>1. UNCHANGED <<log, lane, awaits, open, handled, stage, reply>>
    BY <1>4 DEF DrainBegin, durable, pool
  <2>2. offset[d] = 0
    BY <1>4 DEF DrainBegin, Shape, PositionsInLog
  <2>3. offset[d] <= offset'[d]
    BY <1>0, <2>2
  <2> QED BY <1>0, <1>14, <2>1, <2>3, LaneKept DEF To, Kind, IsHandled
<1>5. CASE HandsOver
  BY <1>5, LaneFilled
<1>6. CASE Saves
  BY <1>1, <1>6 DEF Saves
<1>7. ASSUME NEW c \in Channels, NEW i \in Positions, DispatchEnd(c, i) PROVE LaneAwaited(b, d)'
  <2>1. UNCHANGED <<log, lane, awaits, offset, handled, stage, reply>> /\ awaits[c][i] = {}
    BY <1>7 DEF DispatchEnd, pool
  <2>2. \A e \in Channels : open'[e] = IF e = c THEN open[c] \ {i} ELSE open[e]
    BY <1>7 DEF DispatchEnd, TypeOK
  <2>3. \A j \in Positions : InLane(b, d, j) => j \in open'[d]
    BY <1>0, <2>1, <2>2
  <2> QED BY <1>0, <1>14, <2>1, <2>3, LaneKept DEF To, Kind, IsHandled
<1>8. ASSUME NEW c \in Channels, NEW i \in Positions, Answer(c, i) PROVE LaneAwaited(b, d)'
  <2>1. UNCHANGED <<log, lane, awaits, offset, handled, stage, open>> /\ awaits[c][i] = {}
    BY <1>8 DEF Answer, pool, durable
  <2>2. \A j \in Positions : ~ (d = c /\ j = i) => reply'[d][j] = reply[d][j]
    BY <1>8 DEF Answer, TypeOK
  <2>3. \A j \in Positions : InLane(b, d, j) => reply'[d][j] = reply[d][j]
    BY <1>0, <2>1, <2>2
  <2> QED BY <1>0, <1>14, <2>1, <2>3, LaneKept DEF To, Kind, IsHandled
<1>9. ASSUME NEW c \in Channels, NEW i \in Positions, RecordControl(c, i) PROVE LaneAwaited(b, d)'
  <2> DEFINE a == CHOOSE n \in Names : n \in To(c, i)
  <2>1. UNCHANGED <<log, lane, awaits, offset, stage, open>> /\ reply[c][i] = "sent"
    BY <1>9 DEF RecordControl, pool
  <2>2. a \in Names /\ MarkHandled(a, c, i) /\ awaits[c][i] = {}
    BY <1>9, <2>1, TargetOf DEF RecordControl, Shape, DispatchesOpen
  <2> HIDE DEF a
  <2>3. \A j \in Positions : ~ (d = c /\ j = i) => reply'[d][j] = reply[d][j]
    BY <1>9 DEF RecordControl, TypeOK
  <2>4. ASSUME NEW j \in Positions, InLane(b, d, j)
        PROVE  reply'[d][j] = reply[d][j] /\ (IsHandled(b, d, j)' => IsHandled(b, d, j))
    <3>1. ~ (d = c /\ j = i)
      BY <1>0, <2>2, <2>4
    <3> QED BY <1>0, <2>2, <2>3, <3>1, MarkedLedger
  <2> QED BY <1>0, <1>14, <2>1, <2>4, LaneKept DEF To, Kind
<1>10. ASSUME NEW a \in Agents, NEW c \in Channels, GoesOn(a, c) \/ Prompt(a, c)
       PROVE  LaneAwaited(b, d)'
  <2>1. UNCHANGED <<log, lane, awaits, offset, open, handled, reply>>
    BY <1>10 DEF GoesOn, Prompt, durable, gateway
  <2>2. lane[a][c] # <<>> /\ HeadKind(a, c) \in {"text", "watch"}
    BY <1>10 DEF GoesOn, Prompt, Shape, LanesAwaited, LaneAwaited
  <2>3. ~ (b = a /\ d = c) => stage'[b][d] = stage[b][d]
    <3>1. \E s : stage' = [stage EXCEPT ![a][c] = s]
      BY <1>10 DEF GoesOn, Prompt, Step
    <3> QED BY <3>1, StagesOf
  <2>4. stage'[b][d] # "idle" => lane[b][d] # <<>> /\ HeadKind(b, d) \in {"text", "watch"}
    BY <1>14, <2>2, <2>3
  <2> QED BY <1>0, <2>1, <2>4, LaneKept DEF To, Kind, IsHandled
<1>11. ASSUME NEW a \in Agents, NEW c \in Channels, RecordTurn(a, c) \/ Operates(a, c)
       PROVE  LaneAwaited(b, d)'
  <2>1. UNCHANGED <<log, offset, open, reply>> /\ Leave(a, c)
    BY <1>11 DEF RecordTurn, Operates, durable
  <2>2. lane[a][c] # <<>>
    BY <1>11 DEF RecordTurn, Operates, Shape, LanesAwaited, LaneAwaited
  <2>3. Head1(a, c) \in Positions /\ a \in Names
    BY <2>2, HeadInLog
  <2>4. /\ ~ (b = a /\ d = c) => stage'[b][d] = stage[b][d]
        /\ stage'[a][c] = "idle"
    <3>1. CASE stage' = [stage EXCEPT ![a][c] = "idle"]
      <4>1. stage'[a][c] = "idle" /\ (~ (b = a /\ d = c) => stage'[b][d] = stage[b][d])
        BY <3>1 DEF TypeOK
      <4> QED BY <4>1
    <3>2. CASE stage' = stage /\ stage[a][c] = "idle"
      BY <3>2
    <3> QED BY <1>11, <3>1, <3>2 DEF RecordTurn, Operates, Step
  <2>5. \A j \in Positions : IsHandled(b, d, j)' =>
          IsHandled(b, d, j) \/ (b = a /\ d = c /\ j = Head1(a, c))
    <3>1. CASE Operates(a, c)
      BY <3>1 DEF Operates, durable, IsHandled
    <3>2. CASE RecordTurn(a, c)
      <4>1. MarkHandled(a, c, Head1(a, c))
        BY <3>2 DEF RecordTurn
      <4> QED BY <1>0, <2>3, <4>1, MarkedLedger
    <3> QED BY <1>11, <3>1, <3>2
  <2>6. CASE b = a /\ d = c
    <3>1. /\ \A i \in Positions : InLane(a, c, i)' <=> InLane(a, c, i) /\ i # Head1(a, c)
          /\ \A j, k \in 1..Len(lane'[a][c]) : lane'[a][c][j] = lane'[a][c][k] => j = k
          /\ \A i \in Positions : a \in awaits'[c][i] <=> InLane(a, c, i)'
      BY <2>1, <2>2, LanePopped
    <3>2. ASSUME NEW i \in Positions, InLane(a, c, i)'
          PROVE  /\ i <= offset'[c] /\ i \in open'[c]
                 /\ a \in To(c, i)' /\ ~ IsHandled(a, c, i)'
                 /\ IsControl(c, i)' => reply'[c][i] = "due"
      <4>1. InLane(a, c, i) /\ i # Head1(a, c)
        BY <3>1, <3>2
      <4>2. /\ i <= offset[c] /\ i \in open[c] /\ a \in To(c, i) /\ ~ IsHandled(a, c, i)
            /\ IsControl(c, i) => reply[c][i] = "due"
        BY <1>0, <2>6, <4>1 DEF LaneAwaited
      <4>3. ~ IsHandled(a, c, i)'
        BY <2>5, <2>6, <4>1, <4>2
      <4> QED BY <2>1, <4>2, <4>3 DEF To, IsControl, Kind
    <3> QED BY <2>4, <2>6, <3>1, <3>2 DEF LaneAwaited
  <2>7. CASE ~ (b = a /\ d = c)
    <3>1. lane'[b][d] = lane[b][d]
      BY <2>1, <2>2, <2>7, LeaveTyped
    <3>2. \A i \in Positions : b \in awaits'[d][i] <=> b \in awaits[d][i]
      BY <2>1, <2>2, <2>7, LeaveTyped
    <3>3. stage'[b][d] # "idle" => lane[b][d] # <<>> /\ HeadKind(b, d) \in {"text", "watch"}
      BY <1>14, <2>4, <2>7
    <3>4. \A j \in Positions : IsHandled(b, d, j)' => IsHandled(b, d, j)
      BY <2>5, <2>7
    <3> QED BY <1>0, <2>1, <3>1, <3>2, <3>3, <3>4, LaneKept DEF To, Kind
  <2> QED BY <2>6, <2>7
<1>12. CASE Stop
  BY <1>1, <1>12 DEF Stop, durable, pool
<1>13. CASE Restarts
  <2>1. lane'[b][d] = <<>> /\ stage'[b][d] = "idle" /\ \A i \in Positions : awaits'[d][i] = {}
    BY <1>13 DEF Restarts, Vanish
  <2>2. \A i \in Positions : ~ InLane(b, d, i)'
    BY <2>1 DEF InLane
  <2> QED BY <2>1, <2>2 DEF LaneAwaited
<1> QED BY <1>2, <1>3, <1>4, <1>5, <1>6, <1>7, <1>8, <1>9, <1>10, <1>11, <1>12, <1>13 DEF AStep

----------------------------------------------------------------------------
(* Work in progress.                                                       *)

LEMMA OngoingKept ==
  ASSUME NEW b \in Names, NEW d \in Channels, NEW j \in Positions, Ongoing(b, d, j),
         j \in open'[d], To(d, j)' = To(d, j),
         b \in Agents /\ InLane(b, d, j) /\ j = Head1(b, d) /\ Atwork(b, d) =>
           InLane(b, d, j)' /\ Head1(b, d)' = Head1(b, d) /\ Atwork(b, d)',
         b \in Agents /\ ~ InLane(b, d, j) /\ reply[d][j] # "none" =>
           ~ InLane(b, d, j)' /\ reply'[d][j] # "none"
  PROVE  Ongoing(b, d, j)'
BY DEF Ongoing

\* A hand-over leaves what was dispatched before as it was.
LEMMA FilledKeeps ==
  ASSUME TypeOK, Shape, HandsOver, NEW a \in Agents, NEW c \in Channels
  PROVE  /\ \A i \in Positions : InLane(a, c, i) => InLane(a, c, i)'
         /\ \A i \in Positions : i <= offset[c] /\ InLane(a, c, i)' => InLane(a, c, i)
         /\ \A i \in Positions : i <= offset[c] => (a \in awaits'[c][i] <=> a \in awaits[c][i])
         /\ lane[a][c] # <<>> => lane'[a][c] # <<>> /\ Head1(a, c)' = Head1(a, c)
         /\ \A i \in Positions : reply[c][i] # "none" => reply'[c][i] # "none"
         /\ open[c] \subseteq open'[c]
         /\ offset[c] <= offset'[c]
<1>1. PICK upTo \in [Channels -> 0..MaxLog], skipped \in SUBSET Positions :
        /\ \A d \in Channels : offset[d] <= upTo[d] /\ upTo[d] <= Len(log[d])
        /\ HandOver(upTo, skipped)
  BY DEF HandsOver
<1> DEFINE N == New(upTo, skipped, c)
           s == lane[a][c]
           t == lane'[a][c]
<1>2. offset' = upTo /\ open'[c] = open[c] \cup N /\ \A i \in N : i > offset[c]
  BY <1>1, Handed
<1>3. LaneGets(N, a, c)
  BY <1>1, Handed
<1>4. \A i \in Positions :
        /\ awaits'[c][i] = IF i \in N /\ Kind(c, i) # "stop"
                             THEN {b \in Agents : Wants(b, c, i)} ELSE awaits[c][i]
        /\ reply'[c][i] = IF i \in N /\ IsControl(c, i) /\ \E b \in Names : Wants(b, c, i)
                            THEN "due" ELSE reply[c][i]
  <2> SUFFICES ASSUME NEW i \in Positions
               PROVE
                 /\ awaits'[c][i] = IF i \in N /\ Kind(c, i) # "stop"
                                      THEN {b \in Agents : Wants(b, c, i)} ELSE awaits[c][i]
                 /\ reply'[c][i] =
                      IF i \in N /\ IsControl(c, i) /\ \E b \in Names : Wants(b, c, i)
                        THEN "due" ELSE reply[c][i]
    OBVIOUS
  <2> QED BY <1>1, Handed
<1> HIDE DEF N
<1>5. /\ Len(s) \in Nat /\ Len(t) \in Nat /\ Len(s) <= Len(t)
      /\ \A k \in 1..Len(s) : t[k] = s[k]
      /\ \A k \in (Len(s) + 1)..Len(t) : t[k] \in N
      /\ s # <<>> => t # <<>> /\ Head1(a, c)' = Head1(a, c)
  BY <1>3 DEF LaneGets
<1>6. /\ \A k \in 1..Len(t) : k \in 1..Len(s) \/ k \in (Len(s) + 1)..Len(t)
      /\ 1..Len(s) \subseteq 1..Len(t)
  BY <1>5
<1>7. \A i \in Positions : i <= offset[c] => i \notin N
  <2>1. offset[c] \in Nat /\ Positions \subseteq Nat
    BY BoundsAssumption DEF TypeOK, Positions
  <2> QED BY <1>2, <2>1
<1>8. \A i \in Positions : InLane(a, c, i) => InLane(a, c, i)'
  BY <1>5, <1>6 DEF InLane
<1>9. \A i \in Positions : i <= offset[c] /\ InLane(a, c, i)' => InLane(a, c, i)
  BY <1>5, <1>6, <1>7 DEF InLane
<1>10. \A i \in Positions : i <= offset[c] => (a \in awaits'[c][i] <=> a \in awaits[c][i])
  BY <1>4, <1>7
<1>11. \A i \in Positions : reply[c][i] # "none" => reply'[c][i] # "none"
  BY <1>4
<1>12. offset[c] <= offset'[c]
  BY <1>1, <1>2
<1> QED BY <1>2, <1>5, <1>8, <1>9, <1>10, <1>11, <1>12

LEMMA BegunStep ==
  ASSUME TypeOK, Shape, TypeOK', AStep
  PROVE  BegunOpen'
<1> SUFFICES ASSUME NEW b \in Names, NEW d \in Channels, NEW j \in Positions,
                    <<b, d, j>> \in begun'
             PROVE  Ongoing(b, d, j)'
  BY DEF BegunOpen
<1>0. ASSUME <<b, d, j>> \in begun
      PROVE  /\ Ongoing(b, d, j) /\ b \in Agents /\ j \in open[d] /\ b \in To(d, j)
             /\ j <= offset[d] /\ j \in 1..Len(log[d])
             /\ InLane(b, d, j) => b \in awaits[d][j] /\ j = Head1(b, d) /\ Atwork(b, d)
             /\ ~ InLane(b, d, j) => reply[d][j] # "none"
  <2>1. Ongoing(b, d, j)
    BY <1>0 DEF Shape, BegunOpen
  <2>2. j <= offset[d] /\ offset[d] <= Len(log[d])
    BY <2>1 DEF Ongoing, Shape, DispatchesOpen, PositionsInLog
  <2>3. j \in Nat /\ j >= 1 /\ offset[d] \in Nat /\ Len(log[d]) \in Nat
    BY BoundsAssumption DEF TypeOK, Positions
  <2>4. j \in 1..Len(log[d])
    BY <2>2, <2>3
  <2>5. InLane(b, d, j) => b \in awaits[d][j] /\ j = Head1(b, d) /\ Atwork(b, d)
    BY <2>1 DEF Ongoing, Shape, LanesAwaited, LaneAwaited
  <2> QED BY <2>1, <2>2, <2>4, <2>5 DEF Ongoing
<1>1. ASSUME UNCHANGED <<log, lane, open, stage, reply, begun>> PROVE Ongoing(b, d, j)'
  BY <1>0, <1>1 DEF Ongoing, InLane, To, Head1, Atwork
<1>2. CASE UNCHANGED vars
  BY <1>1, <1>2 DEF vars, durable, gateway, pool, history
<1>3. ASSUME NEW c \in Channels, NEW m \in Messages, Publish(c, m) PROVE Ongoing(b, d, j)'
  <2>1. UNCHANGED <<lane, open, stage, reply, begun>>
    BY <1>3 DEF Publish, gateway, pool, history
  <2>2. To(d, j)' = To(d, j)
    BY <1>0, <1>3, <2>1, Published
  <2> QED BY <1>0, <2>1, <2>2 DEF Ongoing, InLane, Head1, Atwork
<1>4. CASE DrainBegin
  BY <1>1, <1>4 DEF DrainBegin, durable, pool, history
<1>5. CASE HandsOver
  <2>1. UNCHANGED <<log, stage, begun>>
    BY <1>5 DEF HandsOver, history
  <2>2. /\ Ongoing(b, d, j) /\ b \in Agents /\ j <= offset[d] /\ j \in open[d]
    BY <1>0, <2>1
  <2>3. j \in open'[d]
    BY <1>5, <2>2, FilledKeeps
  <2>4. InLane(b, d, j) => InLane(b, d, j)' /\ Head1(b, d)' = Head1(b, d)
    <3>1. InLane(b, d, j) => lane[b][d] # <<>>
      BY DEF InLane
    <3> QED BY <1>5, <2>2, <3>1, FilledKeeps
  <2>5. ~ InLane(b, d, j) => ~ InLane(b, d, j)'
    BY <1>5, <2>2, FilledKeeps
  <2>6. reply[d][j] # "none" => reply'[d][j] # "none"
    BY <1>5, <2>2, FilledKeeps
  <2>7. To(d, j)' = To(d, j) /\ (Atwork(b, d)' <=> Atwork(b, d))
    BY <2>1 DEF To, Atwork
  <2> QED BY <2>2, <2>3, <2>4, <2>5, <2>6, <2>7, OngoingKept
<1>6. CASE Saves
  BY <1>1, <1>6 DEF Saves, history
<1>7. ASSUME NEW c \in Channels, NEW i \in Positions, DispatchEnd(c, i) PROVE Ongoing(b, d, j)'
  <2>1. /\ UNCHANGED <<log, lane, stage, reply, begun>> /\ awaits[c][i] = {}
        /\ reply[c][i] = "none"
    BY <1>7 DEF DispatchEnd, pool, history
  <2>2. \A e \in Channels : open'[e] = IF e = c THEN open[c] \ {i} ELSE open[e]
    BY <1>7 DEF DispatchEnd, TypeOK
  <2>3. j \in open'[d]
    BY <1>0, <2>1, <2>2
  <2> QED BY <1>0, <2>1, <2>3 DEF Ongoing, InLane, To, Head1, Atwork
<1>8. ASSUME NEW c \in Channels, NEW i \in Positions, Answer(c, i) PROVE Ongoing(b, d, j)'
  <2>1. UNCHANGED <<log, lane, stage, open, begun>>
    BY <1>8 DEF Answer, pool, durable
  <2>2. reply[d][j] # "none" => reply'[d][j] # "none"
    BY <1>8 DEF Answer, TypeOK
  <2> QED BY <1>0, <2>1, <2>2 DEF Ongoing, InLane, To, Head1, Atwork
<1>9. ASSUME NEW c \in Channels, NEW i \in Positions, RecordControl(c, i) PROVE Ongoing(b, d, j)'
  <2> DEFINE a == CHOOSE n \in Names : n \in To(c, i)
  <2>1. UNCHANGED <<log, lane, stage, open>> /\ reply[c][i] = "sent"
    BY <1>9 DEF RecordControl, pool
  <2>2. a \in Names /\ MarkHandled(a, c, i) /\ To(c, i) = {a}
    BY <1>9, <2>1, TargetOf DEF RecordControl
  <2> HIDE DEF a
  <2>3. begun' = begun \ {<<a, c, i>>}
    BY <2>2 DEF MarkHandled
  <2>4. \A e \in Channels, k \in Positions : ~ (e = c /\ k = i) => reply'[e][k] = reply[e][k]
    BY <1>9 DEF RecordControl, TypeOK
  <2>5. ~ (d = c /\ j = i)
    BY <1>0, <2>2, <2>3
  <2>6. reply'[d][j] = reply[d][j]
    BY <2>4, <2>5
  <2> QED BY <1>0, <2>1, <2>3, <2>6 DEF Ongoing, InLane, To, Head1, Atwork
<1>10. ASSUME NEW a \in Agents, NEW c \in Channels, GoesOn(a, c) PROVE Ongoing(b, d, j)'
  <2>1. UNCHANGED <<log, lane, open, reply, begun>>
    BY <1>10 DEF GoesOn, gateway
  <2>2. PICK s \in {"opening", "reviewing", "settling", "recording"} :
          stage' = [stage EXCEPT ![a][c] = s] /\ (Atwork(a, c) => s # "opening")
    BY <1>10 DEF GoesOn
  <2>3. b \in Agents /\ Atwork(b, d) => Atwork(b, d)'
    <3>1. stage'[a][c] = s /\ (b \in Agents /\ ~ (b = a /\ d = c) => stage'[b][d] = stage[b][d])
      BY <2>2 DEF TypeOK
    <3> QED BY <2>2, <3>1 DEF Atwork
  <2> QED BY <1>0, <2>1, <2>3 DEF Ongoing, InLane, To, Head1
<1>11. ASSUME NEW a \in Agents, NEW c \in Channels, Prompt(a, c) PROVE Ongoing(b, d, j)'
  <2>1. UNCHANGED <<log, lane, open, reply>> /\ begun' = begun \cup {<<a, c, Head1(a, c)>>}
    BY <1>11 DEF Prompt, Took, durable, gateway
  <2>2. lane[a][c] # <<>>
    BY <1>11 DEF Prompt, Shape, LanesAwaited, LaneAwaited
  <2>3. stage'[a][c] = "prompted" /\ (b \in Agents /\ ~ (b = a /\ d = c) => stage'[b][d] = stage[b][d])
    BY <1>11 DEF Prompt, Step, TypeOK
  <2>4. b \in Agents /\ Atwork(b, d) => Atwork(b, d)'
    BY <2>3 DEF Atwork
  <2>5. CASE <<b, d, j>> \in begun
    BY <1>0, <2>1, <2>4, <2>5 DEF Ongoing, InLane, To, Head1
  <2>6. CASE b = a /\ d = c /\ j = Head1(a, c)
    <3>1. j \in open[c] /\ a \in To(c, j)
      BY <2>2, <2>6, HeadInLog
    <3>2. InLane(a, c, j)
      BY <2>2, <2>6, HeadOf
    <3>3. Atwork(a, c)'
      BY <2>3 DEF Atwork
    <3> QED BY <2>1, <2>6, <3>1, <3>2, <3>3 DEF Ongoing, InLane, To, Head1
  <2> QED BY <2>1, <2>5, <2>6
<1>12. ASSUME NEW a \in Agents, NEW c \in Channels, RecordTurn(a, c) PROVE Ongoing(b, d, j)'
  <2>1. UNCHANGED <<log, open, reply>> /\ begun' = begun \ {<<a, c, Head1(a, c)>>} /\ Leave(a, c)
    BY <1>12 DEF RecordTurn, MarkHandled
  <2>2. lane[a][c] # <<>>
    BY <1>12 DEF RecordTurn, Shape, LanesAwaited, LaneAwaited
  <2>3. b \in Agents /\ ~ (b = a /\ d = c) => stage'[b][d] = stage[b][d]
    BY <1>12 DEF RecordTurn, Step, TypeOK
  <2>4. CASE b = a /\ d = c
    <3>1. ~ InLane(a, c, j)
      BY <1>0, <2>1, <2>4
    <3>2. ~ InLane(a, c, j)'
      BY <2>1, <2>2, <3>1, LanePopped
    <3> QED BY <1>0, <2>1, <2>4, <3>1, <3>2 DEF Ongoing, To
  <2>5. CASE ~ (b = a /\ d = c)
    <3>1. b \in Agents /\ lane'[b][d] = lane[b][d]
      BY <1>0, <2>1, <2>2, <2>5, LeaveTyped
    <3> QED BY <1>0, <2>1, <2>3, <2>5, <3>1 DEF Ongoing, InLane, To, Head1, Atwork
  <2> QED BY <2>4, <2>5
<1>13. ASSUME NEW a \in Agents, NEW c \in Channels, Operates(a, c) PROVE Ongoing(b, d, j)'
  <2>1. /\ UNCHANGED <<log, open, reply, stage>> /\ begun' = begun \cup {<<a, c, Head1(a, c)>>}
        /\ Leave(a, c) /\ stage[a][c] = "idle" /\ lane[a][c] # <<>>
        /\ HeadKind(a, c) \in {"reset", "set"}
    BY <1>13 DEF Operates, Took, durable
  <2>2. \A i \in Positions : InLane(a, c, i)' <=> InLane(a, c, i) /\ i # Head1(a, c)
    BY <2>1, LanePopped
  <2>3. CASE b = a /\ d = c /\ j = Head1(a, c)
    <3>1. j \in open[c] /\ a \in To(c, j) /\ InLane(a, c, j)
      BY <2>1, <2>3, HeadInLog, HeadOf
    <3>2. reply[c][j] = "due"
      BY <2>1, <2>3, <3>1 DEF HeadKind, IsControl, Shape, LanesAwaited, LaneAwaited
    <3>3. ~ InLane(a, c, j)'
      BY <2>2, <2>3
    <3> QED BY <2>1, <2>3, <3>1, <3>2, <3>3 DEF Ongoing, To
  <2>4. CASE b = a /\ d = c /\ j # Head1(a, c)
    <3>1. <<a, c, j>> \in begun
      BY <2>1, <2>4
    <3>2. ~ InLane(a, c, j)
      BY <1>0, <2>1, <2>4, <3>1
    <3> QED BY <1>0, <2>1, <2>2, <2>4, <3>1, <3>2 DEF Ongoing, To
  <2>5. CASE ~ (b = a /\ d = c)
    <3>1. <<b, d, j>> \in begun
      BY <2>1, <2>5
    <3>2. b \in Agents /\ lane'[b][d] = lane[b][d]
      BY <1>0, <2>1, <2>5, <3>1, LeaveTyped
    <3> QED BY <1>0, <2>1, <3>1, <3>2 DEF Ongoing, InLane, To, Head1, Atwork
  <2> QED BY <2>3, <2>4, <2>5
<1>14. CASE Stop
  BY <1>1, <1>14 DEF Stop, durable, pool
<1>15. CASE Restarts
  BY <1>15 DEF Restarts, Vanish
<1> QED BY <1>2, <1>3, <1>4, <1>5, <1>6, <1>7, <1>8, <1>9, <1>10, <1>11, <1>12, <1>13, <1>14,
           <1>15 DEF AStep

THEOREM ShapeKept == Spec => [](TypeOK /\ Shape)
<1>1. Init => TypeOK /\ Shape
  <2> SUFFICES ASSUME Init PROVE TypeOK /\ Shape
    OBVIOUS
  <2>1. TypeOK
    BY TypesInit
  <2>2. PositionsInLog
    BY DEF Init, PositionsInLog, Names
  <2>3. DispatchesOpen /\ BegunOpen
    BY DEF Init, DispatchesOpen, BegunOpen
  <2>4. LedgerTrue
    BY DEF Init, LedgerTrue, IsHandled
  <2>5. ASSUME NEW a \in Agents, NEW c \in Channels PROVE LaneAwaited(a, c)
    <3>1. lane[a][c] = <<>> /\ stage[a][c] = "idle" /\ \A i \in Positions : awaits[c][i] = {}
      BY DEF Init
    <3>2. \A i \in Positions : ~ InLane(a, c, i)
      BY <3>1 DEF InLane
    <3> QED BY <3>1, <3>2 DEF LaneAwaited
  <2> QED BY <2>1, <2>2, <2>3, <2>4, <2>5 DEF Shape, LanesAwaited
<1>2. TypeOK /\ Shape /\ [Next]_vars => (TypeOK /\ Shape)'
  <2> SUFFICES ASSUME TypeOK, Shape, [Next]_vars PROVE (TypeOK /\ Shape)'
    OBVIOUS
  <2>1. AStep
    BY Steps
  <2>2. TypeOK'
    BY <2>1, TypesStep
  <2>3. PositionsInLog' /\ LanesAwaited' /\ DispatchesOpen' /\ BegunOpen' /\ LedgerTrue'
    BY <2>1, <2>2, PositionsStep, LanesStep, DispatchesStep, BegunStep, LedgerStep
  <2> QED BY <2>2, <2>3 DEF Shape
<1> QED BY <1>1, <1>2, PTL DEF Spec

----------------------------------------------------------------------------
(* Nothing is passed over.                                                 *)

\* Positions up to a cursor of the gateway.
LEMMA Dispatched ==
  ASSUME TypeOK, Shape, NEW c \in Channels, NEW i \in 1..offset[c]
  PROVE  i \in Positions /\ i \in 1..Len(log[c]) /\ i <= offset[c] /\ To(c, i) \subseteq Names
<1>1. /\ offset[c] \in Nat /\ offset[c] <= MaxLog /\ MaxLog \in Nat /\ Len(log[c]) \in Nat
      /\ offset[c] <= Len(log[c])
  BY BoundsAssumption DEF TypeOK, Shape, PositionsInLog
<1>2. i \in Positions /\ i \in 1..Len(log[c]) /\ i <= offset[c]
  BY <1>1 DEF Positions
<1> QED BY <1>2, Entries

\* What somebody still has to handle is open.
LEMMA CoveredOpen ==
  ASSUME TypeOK, Shape, NEW a, NEW c \in Channels, NEW i \in Positions, Covered(a, c, i),
         i \notin open[c] \/ (awaits[c][i] = {} /\ reply[c][i] = "none")
  PROVE  i \in everHandled[a][c]
<1>1. reply[c][i] # "none" => i \in open[c]
  BY DEF Shape, DispatchesOpen
<1>2. a \in awaits[c][i] => i \in open[c]
  <2> SUFFICES ASSUME a \in awaits[c][i] PROVE i \in open[c]
    OBVIOUS
  <2>1. a \in Agents
    BY DEF TypeOK
  <2> QED BY <2>1 DEF Shape, LanesAwaited, LaneAwaited
<1> QED BY <1>1, <1>2 DEF Covered

LEMMA CoveredStep ==
  ASSUME TypeOK, Shape, OffsetCovered, CursorCovered, TypeOK', Shape', AStep
  PROVE  OffsetCovered' /\ CursorCovered'
<1>0. /\ \A c \in Channels : offset[c] \in Nat /\ saved[c] \in Nat /\ Len(log[c]) \in Nat
                             /\ saved[c] <= Len(log[c]) /\ offset[c] <= Len(log[c])
      /\ everHandled \in [Names -> [Channels -> SUBSET Positions]]
  BY BoundsAssumption DEF TypeOK, Shape, PositionsInLog
<1>1. ASSUME UNCHANGED <<log, offset>>,
             \A c \in Channels, i \in Positions, a \in Names :
               i <= offset[c] /\ Covered(a, c, i) => Covered(a, c, i)'
      PROVE  OffsetCovered'
  <2> SUFFICES ASSUME NEW c \in Channels, NEW i \in 1..offset[c], Kind(c, i) # "watch",
                      NEW a \in To(c, i)
               PROVE  Covered(a, c, i)'
    BY <1>1 DEF OffsetCovered, Kind, To
  <2>1. Covered(a, c, i)
    BY DEF OffsetCovered
  <2> QED BY <1>1, <2>1, Dispatched
<1>2. ASSUME UNCHANGED <<log, saved>>,
             \A c \in Channels, a \in Names : everHandled[a][c] \subseteq everHandled'[a][c]
      PROVE  CursorCovered'
  <2> SUFFICES ASSUME NEW c \in Channels, NEW i \in 1..saved[c], Kind(c, i) # "watch",
                      NEW a \in To(c, i)
               PROVE  i \in everHandled'[a][c]
    BY <1>2 DEF CursorCovered, Kind, To
  <2>1. i \in everHandled[a][c]
    BY DEF CursorCovered
  <2>2. i \in 1..Len(log[c])
    BY <1>0
  <2>3. a \in Names
    BY <2>2, Entries
  <2> QED BY <1>2, <2>1, <2>3
<1>3. ASSUME UNCHANGED <<log, offset, saved, awaits, reply, everHandled>>
      PROVE  OffsetCovered' /\ CursorCovered'
  BY <1>1, <1>2, <1>3 DEF Covered
<1>4. CASE UNCHANGED vars
  BY <1>3, <1>4 DEF vars, durable, gateway, history
<1>5. ASSUME NEW c \in Channels, NEW m \in Messages, Publish(c, m)
      PROVE  OffsetCovered' /\ CursorCovered'
  <2>1. UNCHANGED <<offset, saved, awaits, reply, everHandled>>
    BY <1>5 DEF Publish, gateway, history
  <2>2. \A d \in Channels : \A i \in 1..Len(log[d]) :
          Kind(d, i)' = Kind(d, i) /\ To(d, i)' = To(d, i)
    BY <1>5, Published
  <2>3. \A d \in Channels : 1..offset[d] \subseteq 1..Len(log[d]) /\ 1..saved[d] \subseteq 1..Len(log[d])
    BY <1>0
  <2>4. OffsetCovered'
    BY <2>1, <2>2, <2>3 DEF OffsetCovered, Covered
  <2>5. CursorCovered'
    BY <2>1, <2>2, <2>3 DEF CursorCovered
  <2> QED BY <2>4, <2>5
<1>6. CASE DrainBegin
  <2>1. UNCHANGED <<log, saved, everHandled>> /\ offset' = saved
    BY <1>6 DEF DrainBegin, durable, history
  <2>2. CursorCovered'
    BY <1>2, <2>1
  <2>3. OffsetCovered'
    BY <2>1 DEF CursorCovered, OffsetCovered, Covered, Kind, To
  <2> QED BY <2>2, <2>3
<1>7. CASE HandsOver
  <2>1. PICK upTo \in [Channels -> 0..MaxLog], skipped \in SUBSET Positions :
          /\ \A c \in Channels : offset[c] <= upTo[c] /\ upTo[c] <= Len(log[c])
          /\ \A c \in Channels : \A i \in (offset[c] + 1)..upTo[c] :
               i \in skipped => Kind(c, i) = "watch"
          /\ HandOver(upTo, skipped)
    BY <1>7 DEF HandsOver
  <2>2. UNCHANGED <<log, saved, handled, everHandled>> /\ offset' = upTo
    BY <1>7, <2>1 DEF HandsOver, HandOver, history
  <2>3. CursorCovered'
    BY <1>2, <2>2
  <2> SUFFICES ASSUME NEW c \in Channels, NEW i \in 1..upTo[c], Kind(c, i) # "watch",
                      NEW a \in To(c, i)
               PROVE  Covered(a, c, i)'
    BY <2>2, <2>3 DEF OffsetCovered, Kind, To
  <2>4. i \in 1..Len(log[c]) /\ i \in Positions /\ upTo[c] \in Nat
    BY <1>0, <2>1, BoundsAssumption DEF Positions
  <2>5. a \in Names /\ Kind(c, i) \in Kinds /\ (Kind(c, i) = "text" => a \in Agents)
    BY <2>4, Entries
  <2>6. CASE i <= offset[c]
    <3>1. Covered(a, c, i)
      BY <1>0, <2>4, <2>6 DEF OffsetCovered
    <3>2. a \in awaits[c][i] => a \in awaits'[c][i]
      <4>1. a \in awaits[c][i] => a \in Agents
        BY <2>4 DEF TypeOK
      <4> QED BY <1>7, <2>4, <2>6, <4>1, FilledKeeps
    <3>3. reply[c][i] # "none" => reply'[c][i] # "none"
      <4>1. reply'[c][i] = IF /\ i \in New(upTo, skipped, c) /\ IsControl(c, i)
                              /\ \E b \in Names : Wants(b, c, i)
                             THEN "due" ELSE reply[c][i]
        BY <2>1, <2>4, HandedAwaits
      <4> QED BY <4>1
    <3> QED BY <2>2, <3>1, <3>2, <3>3 DEF Covered
  <2>7. CASE ~ (i <= offset[c])
    <3>1. i \in (offset[c] + 1)..upTo[c]
      BY <1>0, <2>4, <2>7
    <3>2. i \in New(upTo, skipped, c)
      BY <2>1, <3>1 DEF New
    <3>3. CASE IsHandled(a, c, i)
      <4>1. i \in everHandled[a][c]
        BY <2>4, <2>5, <3>3 DEF Shape, LedgerTrue
      <4> QED BY <2>2, <4>1 DEF Covered
    <3>4. CASE ~ IsHandled(a, c, i) /\ Kind(c, i) = "text"
      <4>1. Wants(a, c, i) /\ a \in Agents
        BY <2>5, <3>4 DEF Wants
      <4>2. awaits'[c][i] = {b \in Agents : Wants(b, c, i)}
        <5>1. awaits'[c][i] = IF i \in New(upTo, skipped, c) /\ Kind(c, i) # "stop"
                                THEN {b \in Agents : Wants(b, c, i)} ELSE awaits[c][i]
          BY <2>1, <2>4, HandedAwaits
        <5> QED BY <3>2, <3>4, <5>1
      <4> QED BY <4>1, <4>2 DEF Covered
    <3>5. CASE ~ IsHandled(a, c, i) /\ Kind(c, i) # "text"
      <4>1. Wants(a, c, i) /\ IsControl(c, i)
        BY <2>5, <3>5 DEF Wants, IsControl, Kinds
      <4>2. reply'[c][i] = IF /\ i \in New(upTo, skipped, c) /\ IsControl(c, i)
                              /\ \E b \in Names : Wants(b, c, i)
                             THEN "due" ELSE reply[c][i]
        BY <2>1, <2>4, HandedAwaits
      <4>3. reply'[c][i] # "none"
        BY <2>5, <3>2, <4>1, <4>2
      <4> QED BY <4>3 DEF Covered
    <3> QED BY <3>3, <3>4, <3>5
  <2> QED BY <2>6, <2>7
<1>8. CASE Saves
  <2>1. UNCHANGED <<log, offset, open, awaits, reply, everHandled>> /\ saved' = offset
    BY <1>8 DEF Saves, history
  <2>2. OffsetCovered'
    BY <1>1, <2>1 DEF Covered
  <2>3. CursorCovered'
    <3> SUFFICES ASSUME NEW c \in Channels, NEW i \in 1..offset[c], Kind(c, i) # "watch",
                        NEW a \in To(c, i)
                 PROVE  i \in everHandled[a][c]
      BY <2>1 DEF CursorCovered, Kind, To
    <3>1. Covered(a, c, i) /\ i \in Positions
      BY Dispatched DEF OffsetCovered
    <3>2. open[c] = {}
      BY <1>8 DEF Saves, NothingOpen
    <3> QED BY <3>1, <3>2, CoveredOpen
  <2> QED BY <2>2, <2>3
<1>9. ASSUME NEW c \in Channels, NEW i \in Positions, DispatchEnd(c, i)
      PROVE  OffsetCovered' /\ CursorCovered'
  <2>1. /\ UNCHANGED <<log, offset, awaits, reply, everHandled>>
        /\ awaits[c][i] = {} /\ reply[c][i] = "none"
        /\ saved' = saved \/ (saved' = offset /\ LastOpen(c, i))
    BY <1>9 DEF DispatchEnd, history
  <2>2. OffsetCovered'
    BY <1>1, <2>1 DEF Covered
  <2>3. CASE saved' = saved
    BY <1>2, <2>1, <2>2, <2>3
  <2>4. CASE saved' = offset /\ LastOpen(c, i)
    <3> SUFFICES ASSUME NEW d \in Channels, NEW j \in 1..offset[d], Kind(d, j) # "watch",
                        NEW a \in To(d, j)
                 PROVE  j \in everHandled[a][d]
      BY <2>1, <2>2, <2>4 DEF CursorCovered, Kind, To
    <3>1. Covered(a, d, j) /\ j \in Positions
      BY Dispatched DEF OffsetCovered
    <3>2. j \notin open[d] \/ (d = c /\ j = i)
      BY <2>4 DEF LastOpen
    <3> QED BY <2>1, <3>1, <3>2, CoveredOpen
  <2> QED BY <2>1, <2>3, <2>4
<1>10. ASSUME NEW c \in Channels, NEW i \in Positions, Answer(c, i)
       PROVE  OffsetCovered' /\ CursorCovered'
  <2>1. UNCHANGED <<log, offset, saved, awaits, everHandled>>
    BY <1>10 DEF Answer, durable
  <2>2. \A d \in Channels, j \in Positions : reply[d][j] # "none" => reply'[d][j] # "none"
    BY <1>10 DEF Answer, TypeOK
  <2> QED BY <1>1, <1>2, <2>1, <2>2 DEF Covered
<1>11. ASSUME NEW a \in Names, NEW c \in Channels, NEW i \in Positions, MarkHandled(a, c, i)
       PROVE  /\ \A b \in Names, d \in Channels : everHandled[b][d] \subseteq everHandled'[b][d]
              /\ i \in everHandled'[a][c]
  <2>1. \A b \in Names, d \in Channels, j \in Positions :
          j \in everHandled'[b][d] <=> j \in everHandled[b][d] \/ (b = a /\ d = c /\ j = i)
    BY <1>11, MarkedEver
  <2> QED BY <1>0, <2>1
<1>12. ASSUME NEW c \in Channels, NEW i \in Positions, RecordControl(c, i)
       PROVE  OffsetCovered' /\ CursorCovered'
  <2> DEFINE a == CHOOSE n \in Names : n \in To(c, i)
  <2>1. UNCHANGED <<log, offset, saved, awaits>> /\ reply[c][i] = "sent"
    BY <1>12 DEF RecordControl
  <2>2. a \in Names /\ MarkHandled(a, c, i) /\ To(c, i) = {a}
    BY <1>12, <2>1, TargetOf DEF RecordControl
  <2> HIDE DEF a
  <2>3. \A d \in Channels, j \in Positions : ~ (d = c /\ j = i) => reply'[d][j] = reply[d][j]
    BY <1>12 DEF RecordControl, TypeOK
  <2>4. /\ \A b \in Names, d \in Channels : everHandled[b][d] \subseteq everHandled'[b][d]
        /\ i \in everHandled'[a][c]
    BY <1>11, <2>2
  <2>5. CursorCovered'
    BY <1>2, <2>1, <2>4
  <2> SUFFICES ASSUME NEW d \in Channels, NEW j \in 1..offset[d], Kind(d, j) # "watch",
                      NEW b \in To(d, j)
               PROVE  Covered(b, d, j)'
    BY <2>1, <2>5 DEF OffsetCovered, Kind, To
  <2>6. Covered(b, d, j) /\ j \in Positions /\ b \in Names
    BY Dispatched DEF OffsetCovered
  <2>7. CASE d = c /\ j = i
    BY <2>2, <2>4, <2>7 DEF Covered
  <2>8. CASE ~ (d = c /\ j = i)
    <3>1. reply'[d][j] = reply[d][j]
      BY <2>3, <2>6, <2>8
    <3> QED BY <2>1, <2>4, <2>6, <3>1 DEF Covered
  <2> QED BY <2>7, <2>8
<1>13. ASSUME NEW a \in Agents, NEW c \in Channels, GoesOn(a, c) \/ Prompt(a, c)
       PROVE  OffsetCovered' /\ CursorCovered'
  BY <1>3, <1>13 DEF GoesOn, Prompt, durable, gateway
<1>14. ASSUME NEW a \in Agents, NEW c \in Channels, RecordTurn(a, c) \/ Operates(a, c)
       PROVE  OffsetCovered' /\ CursorCovered'
  <2>1. UNCHANGED <<log, offset, saved, reply>> /\ Leave(a, c)
    BY <1>14 DEF RecordTurn, Operates, durable
  <2>2. lane[a][c] # <<>>
    BY <1>14 DEF RecordTurn, Operates, Shape, LanesAwaited, LaneAwaited
  <2>3. Head1(a, c) \in Positions /\ a \in Names
    BY <2>2, HeadInLog
  <2>4. \/ everHandled' = everHandled /\ reply[c][Head1(a, c)] # "none"
        \/ /\ \A b \in Names, d \in Channels : everHandled[b][d] \subseteq everHandled'[b][d]
           /\ Head1(a, c) \in everHandled'[a][c]
    <3>1. CASE Operates(a, c)
      <4>1. IsControl(c, Head1(a, c)) /\ InLane(a, c, Head1(a, c))
        BY <2>2, <3>1, HeadOf DEF Operates, HeadKind, IsControl
      <4>2. reply[c][Head1(a, c)] = "due"
        BY <2>3, <4>1 DEF Shape, LanesAwaited, LaneAwaited
      <4> QED BY <3>1, <4>2 DEF Operates
    <3>2. CASE RecordTurn(a, c)
      BY <1>11, <2>3, <3>2 DEF RecordTurn
    <3> QED BY <1>14, <3>1, <3>2
  <2>5. CursorCovered'
    BY <1>2, <2>1, <2>4
  <2> SUFFICES ASSUME NEW d \in Channels, NEW j \in 1..offset[d], Kind(d, j) # "watch",
                      NEW b \in To(d, j)
               PROVE  Covered(b, d, j)'
    BY <2>1, <2>5 DEF OffsetCovered, Kind, To
  <2>6. Covered(b, d, j) /\ j \in Positions /\ b \in Names
    BY Dispatched DEF OffsetCovered
  <2>7. j \in everHandled[b][d] => j \in everHandled'[b][d]
    BY <2>4, <2>6
  <2>8. CASE b = a /\ d = c /\ j = Head1(a, c)
    BY <2>1, <2>4, <2>8 DEF Covered
  <2>9. CASE ~ (b = a /\ d = c /\ j = Head1(a, c))
    <3>1. b \in awaits[d][j] => b \in awaits'[d][j]
      <4>1. b \in awaits[d][j] => b \in Agents
        BY <2>6 DEF TypeOK
      <4> QED BY <2>1, <2>2, <2>6, <2>9, <4>1, LeaveTyped
    <3> QED BY <2>1, <2>6, <2>7, <3>1 DEF Covered
  <2> QED BY <2>8, <2>9
<1>15. CASE Stop
  BY <1>3, <1>15 DEF Stop, durable
<1>16. CASE Restarts
  <2>1. UNCHANGED <<log, saved, everHandled>> /\ \A c \in Channels : offset'[c] = 0
    BY <1>16 DEF Restarts, Vanish, durable
  <2>2. CursorCovered'
    BY <1>2, <2>1
  <2>3. OffsetCovered'
    BY <2>1 DEF OffsetCovered
  <2> QED BY <2>2, <2>3
<1> QED BY <1>4, <1>5, <1>6, <1>7, <1>8, <1>9, <1>10, <1>12, <1>13, <1>14, <1>15, <1>16 DEF AStep

\* However often the gateway stops or crashes, a saved cursor covers only messages that
\* every agent they are for has handled.
THEOREM NothingPassedOver == Spec => []CursorCovered
<1>1. Init => OffsetCovered /\ CursorCovered
  <2> SUFFICES ASSUME Init PROVE OffsetCovered /\ CursorCovered
    OBVIOUS
  <2>1. \A c \in Channels : saved[c] = 0 /\ offset[c] = 0
    BY DEF Init
  <2> QED BY <2>1 DEF OffsetCovered, CursorCovered
<1>2. TypeOK /\ Shape /\ (TypeOK /\ Shape)' /\ OffsetCovered /\ CursorCovered /\ [Next]_vars
        => OffsetCovered' /\ CursorCovered'
  BY Steps, CoveredStep
<1>3. Spec => [](TypeOK /\ Shape)
  BY ShapeKept
<1> QED BY <1>1, <1>2, <1>3, PTL DEF Spec

----------------------------------------------------------------------------
(* Nothing takes effect twice unexcused.                                   *)

LEMMA AccountKept ==
  ASSUME NEW a, NEW c, NEW i, Account(a, c, i),
         runs'[a][c][i] = runs[a][c][i], reviews'[a][c][i] = reviews[a][c][i],
         excused'[a][c][i] = excused[a][c][i],
         IsHandled(a, c, i) => IsHandled(a, c, i)',
         <<a, c, i>> \in begun => <<a, c, i>> \in begun',
         stage'[a][c] \in {"prompted", "reviewing"} /\ i = Head1(a, c)' =>
           stage'[a][c] = stage[a][c] /\ Head1(a, c)' = Head1(a, c)
  PROVE  Account(a, c, i)'
BY DEF Account

\* What is at the head and has not begun in this process ran no more often than excused.
LEMMA NotYet ==
  ASSUME TypeOK, Shape, RunsAccounted, NEW a \in Agents, NEW c \in Channels,
         lane[a][c] # <<>>, ~ Atwork(a, c)
  PROVE  /\ runs[a][c][Head1(a, c)] <= excused[a][c][Head1(a, c)]
         /\ reviews[a][c][Head1(a, c)] <= excused[a][c][Head1(a, c)]
<1> DEFINE h == Head1(a, c)
<1>1. h \in Positions /\ a \in Names /\ ~ IsHandled(a, c, h) /\ InLane(a, c, h)
  BY HeadInLog, HeadOf
<1>2. <<a, c, h>> \notin begun
  BY <1>1 DEF Shape, BegunOpen, Ongoing
<1>3. runs[a][c][h] \in Nat /\ reviews[a][c][h] \in Nat /\ excused[a][c][h] \in Nat
  BY <1>1 DEF TypeOK
<1>4. Account(a, c, h)
  BY <1>1 DEF RunsAccounted
<1> QED BY <1>1, <1>2, <1>3, <1>4 DEF Account

LEMMA AccountStep ==
  ASSUME TypeOK, Shape, RunsAccounted, TypeOK', Shape', AStep
  PROVE  RunsAccounted'
<1> SUFFICES ASSUME NEW b \in Agents, NEW d \in Channels, NEW j \in Positions
             PROVE  Account(b, d, j)'
  BY DEF RunsAccounted
<1>0. /\ Account(b, d, j) /\ b \in Names
      /\ runs[b][d][j] \in Nat /\ reviews[b][d][j] \in Nat /\ excused[b][d][j] \in Nat
  BY DEF RunsAccounted, TypeOK, Names
<1>1. ASSUME UNCHANGED <<runs, reviews, excused, handled, begun, stage, lane>>
      PROVE  Account(b, d, j)'
  BY <1>0, <1>1, AccountKept DEF IsHandled, Head1
<1>2. CASE UNCHANGED vars
  BY <1>1, <1>2 DEF vars, durable, pool, history
<1>3. ASSUME NEW c \in Channels, NEW m \in Messages, Publish(c, m) PROVE Account(b, d, j)'
  BY <1>1, <1>3 DEF Publish, pool, history
<1>4. CASE DrainBegin
  BY <1>1, <1>4 DEF DrainBegin, durable, pool, history
<1>5. CASE HandsOver
  <2>1. UNCHANGED <<runs, reviews, excused, handled, begun, stage>>
    BY <1>5 DEF HandsOver, history
  <2>2. stage[b][d] # "idle" => Head1(b, d)' = Head1(b, d)
    <3>1. stage[b][d] # "idle" => lane[b][d] # <<>>
      BY DEF Shape, LanesAwaited, LaneAwaited
    <3> QED BY <1>5, <3>1, FilledKeeps
  <2> QED BY <1>0, <2>1, <2>2, AccountKept DEF IsHandled
<1>6. CASE Saves
  BY <1>1, <1>6 DEF Saves, history
<1>7. ASSUME NEW c \in Channels, NEW i \in Positions, DispatchEnd(c, i) \/ Answer(c, i)
      PROVE  Account(b, d, j)'
  BY <1>1, <1>7 DEF DispatchEnd, Answer, durable, pool, history
<1>8. ASSUME NEW a \in Names, NEW c \in Channels, NEW i \in Positions, MarkHandled(a, c, i),
             UNCHANGED <<runs, reviews>>,
             stage'[b][d] \in {"prompted", "reviewing"} =>
               stage'[b][d] = stage[b][d] /\ lane'[b][d] = lane[b][d]
               /\ ~ (b = a /\ d = c /\ i = Head1(b, d))
      PROVE  Account(b, d, j)'
  <2>1. begun' = begun \ {<<a, c, i>>}
    BY <1>8 DEF MarkHandled
  <2>2. CASE ~ (b = a /\ d = c)
    <3>1. handled'[b][d] = handled[b][d] /\ excused'[b][d] = excused[b][d]
      BY <1>0, <1>8, <2>2, Marked
    <3> QED BY <1>0, <1>8, <2>1, <2>2, <3>1, AccountKept DEF IsHandled, Head1
  <2>3. CASE b = a /\ d = c
    <3>1. /\ excused'[a][c][j] >= excused[a][c][j]
          /\ IsHandled(a, c, j) /\ excused'[a][c][j] <= excused[a][c][j] => IsHandled(a, c, j)'
          /\ IsHandled(a, c, i)'
      BY <1>8, Marked
    <3>2. excused'[a][c][j] \in Nat
      BY <1>8 DEF TypeOK
    <3>3. runs'[a][c][j] <= 1 + excused'[a][c][j] /\ reviews'[a][c][j] <= 1 + excused'[a][c][j]
      BY <1>0, <1>8, <2>3, <3>1, <3>2 DEF Account
    <3>4. ASSUME \/ runs'[a][c][j] = 1 + excused'[a][c][j]
                 \/ reviews'[a][c][j] = 1 + excused'[a][c][j]
          PROVE  IsHandled(a, c, j)' \/ <<a, c, j>> \in begun'
      <4>1. /\ excused'[a][c][j] <= excused[a][c][j]
            /\ \/ runs[a][c][j] = 1 + excused[a][c][j]
               \/ reviews[a][c][j] = 1 + excused[a][c][j]
        BY <1>0, <1>8, <2>3, <3>1, <3>2, <3>4 DEF Account
      <4>2. IsHandled(a, c, j) \/ <<a, c, j>> \in begun
        BY <1>0, <2>3, <4>1 DEF Account
      <4>3. CASE j = i
        BY <3>1, <4>3
      <4>4. CASE j # i
        BY <2>1, <3>1, <4>1, <4>2, <4>4
      <4> QED BY <4>3, <4>4
    <3>5. ASSUME stage'[a][c] \in {"prompted", "reviewing"}, j = Head1(a, c)'
          PROVE  /\ stage'[a][c] = "prompted" => reviews'[a][c][j] <= excused'[a][c][j]
                 /\ <<a, c, j>> \in begun'
      <4>1. stage'[a][c] = stage[a][c] /\ j = Head1(a, c) /\ j # i
        BY <1>8, <2>3, <3>5 DEF Head1
      <4>2. /\ stage[a][c] = "prompted" => reviews[a][c][j] <= excused[a][c][j]
            /\ <<a, c, j>> \in begun
        BY <1>0, <2>3, <3>5, <4>1 DEF Account
      <4>3. stage[a][c] = "prompted" => reviews'[a][c][j] <= excused'[a][c][j]
        BY <1>0, <1>8, <2>3, <3>1, <3>2, <4>2
      <4> QED BY <2>1, <4>1, <4>2, <4>3
    <3> QED BY <2>3, <3>3, <3>4, <3>5 DEF Account
  <2> QED BY <2>2, <2>3
<1>9. ASSUME NEW c \in Channels, NEW i \in Positions, RecordControl(c, i) PROVE Account(b, d, j)'
  <2> DEFINE a == CHOOSE n \in Names : n \in To(c, i)
  <2>1. UNCHANGED <<runs, reviews, stage, lane>> /\ reply[c][i] = "sent"
    BY <1>9 DEF RecordControl, pool
  <2>2. a \in Names /\ MarkHandled(a, c, i) /\ awaits[c][i] = {}
    BY <1>9, <2>1, TargetOf DEF RecordControl, Shape, DispatchesOpen
  <2> HIDE DEF a
  <2>3. stage[b][d] # "idle" => ~ (b = a /\ d = c /\ i = Head1(b, d))
    <3> SUFFICES ASSUME stage[b][d] # "idle", d = c, i = Head1(b, d) PROVE FALSE
      OBVIOUS
    <3>1. lane[b][d] # <<>>
      BY DEF Shape, LanesAwaited, LaneAwaited
    <3>2. InLane(b, d, i)
      BY <3>1, HeadOf
    <3>3. b \in awaits[c][i]
      BY <3>2, WaitsInLog
    <3> QED BY <2>2, <3>3
  <2> QED BY <1>8, <2>1, <2>2, <2>3
<1>10. ASSUME NEW a \in Agents, NEW c \in Channels, GoesOn(a, c) PROVE Account(b, d, j)'
  <2>1. UNCHANGED <<lane, begun, runs, handled, excused>>
    BY <1>10 DEF GoesOn
  <2>2. PICK s \in {"opening", "reviewing", "settling", "recording"} :
          /\ stage' = [stage EXCEPT ![a][c] = s]
          /\ s = "reviewing" => stage[a][c] = "prompted"
          /\ \/ reviews' = reviews
             \/ s = "reviewing" /\ reviews' = [reviews EXCEPT ![a][c][Head1(a, c)] = @ + 1]
    BY <1>10 DEF GoesOn
  <2>3. stage'[a][c] = s /\ (~ (b = a /\ d = c) => stage'[b][d] = stage[b][d])
    BY <2>2 DEF TypeOK
  <2>4. Head1(a, c) \in Positions
    BY <1>10, HeadOf DEF GoesOn
  <2>5. CASE reviews' = reviews /\ s # "reviewing"
    BY <1>0, <2>1, <2>3, <2>5, AccountKept DEF IsHandled, Head1
  <2>6. CASE s = "reviewing" /\ ~ (b = a /\ d = c /\ j = Head1(a, c))
    <3>1. reviews'[b][d][j] = reviews[b][d][j]
      <4>1. CASE reviews' = reviews
        BY <4>1
      <4>2. CASE reviews' = [reviews EXCEPT ![a][c][Head1(a, c)] = @ + 1]
        <5>1. reviews \in [Agents -> [Channels -> [Positions -> Nat]]]
          BY DEF TypeOK
        <5>2. <<b, d, j>> # <<a, c, Head1(a, c)>>
          BY <2>6
        <5> QED BY <2>4, <4>2, <5>1, <5>2, Counted
      <4> QED BY <2>2, <4>1, <4>2
    <3>2. Head1(b, d)' = Head1(b, d)
      BY <2>1 DEF Head1
    <3> QED BY <1>0, <2>1, <2>3, <2>6, <3>1, <3>2, AccountKept DEF IsHandled
  <2>7. CASE s = "reviewing" /\ b = a /\ d = c /\ j = Head1(a, c)
    <3>1. reviews[a][c][j] <= excused[a][c][j] /\ <<a, c, j>> \in begun
      BY <1>0, <2>2, <2>7 DEF Account
    <3>2. reviews'[a][c][j] \in {reviews[a][c][j], reviews[a][c][j] + 1}
      BY <2>2, <2>4, <2>7 DEF TypeOK
    <3>3. reviews'[a][c][j] <= 1 + excused'[a][c][j]
      BY <1>0, <2>1, <2>7, <3>1, <3>2
    <3>4. runs'[a][c][j] <= 1 + excused'[a][c][j] /\ <<a, c, j>> \in begun'
      BY <1>0, <2>1, <2>7, <3>1 DEF Account
    <3> QED BY <2>3, <2>7, <3>3, <3>4 DEF Account
  <2> QED BY <2>2, <2>5, <2>6, <2>7
<1>11. ASSUME NEW a \in Agents, NEW c \in Channels, lane[a][c] # <<>>, ~ Atwork(a, c),
              Took(a, c), UNCHANGED <<reviews, excused, handled>>,
              ~ (b = a /\ d = c) => stage'[b][d] = stage[b][d] /\ lane'[b][d] = lane[b][d],
              stage'[a][c] = "idle" \/ (stage'[a][c] = "prompted" /\ lane' = lane)
       PROVE  Account(b, d, j)'
  <2>1. Head1(a, c) \in Positions
    BY <1>11, HeadOf
  <2>2. /\ runs'[a][c][Head1(a, c)] = runs[a][c][Head1(a, c)] + 1
        /\ ~ (b = a /\ d = c /\ j = Head1(a, c)) => runs'[b][d][j] = runs[b][d][j]
        /\ begun' = begun \cup {<<a, c, Head1(a, c)>>}
    BY <1>0, <1>11, <2>1, TookRuns
  <2>3. CASE ~ (b = a /\ d = c)
    BY <1>0, <1>11, <2>2, <2>3, AccountKept DEF IsHandled, Head1
  <2>4. CASE b = a /\ d = c /\ j # Head1(a, c)
    <3>1. stage'[a][c] = "prompted" => Head1(a, c)' = Head1(a, c)
      BY <1>11 DEF Head1
    <3> QED BY <1>0, <1>11, <2>2, <2>4, <3>1, AccountKept DEF IsHandled
  <2>5. CASE b = a /\ d = c /\ j = Head1(a, c)
    <3>1. runs[b][d][j] <= excused[b][d][j] /\ reviews[b][d][j] <= excused[b][d][j]
      BY <1>11, <2>5, NotYet
    <3>2. runs'[b][d][j] = runs[b][d][j] + 1 /\ <<b, d, j>> \in begun'
      BY <2>2, <2>5
    <3> QED BY <1>0, <1>11, <2>5, <3>1, <3>2 DEF Account
  <2> QED BY <2>3, <2>4, <2>5
<1>12. ASSUME NEW a \in Agents, NEW c \in Channels, Prompt(a, c) PROVE Account(b, d, j)'
  <2>1. /\ Took(a, c) /\ UNCHANGED <<reviews, excused, handled, lane>>
        /\ stage[a][c] = "opening" /\ stage' = [stage EXCEPT ![a][c] = "prompted"]
    BY <1>12 DEF Prompt, Step, durable
  <2>2. lane[a][c] # <<>> /\ ~ Atwork(a, c)
    BY <2>1 DEF Atwork, Shape, LanesAwaited, LaneAwaited
  <2>3. stage'[a][c] = "prompted" /\ (~ (b = a /\ d = c) => stage'[b][d] = stage[b][d])
    BY <2>1 DEF TypeOK
  <2> QED BY <1>11, <2>1, <2>2, <2>3
<1>13. ASSUME NEW a \in Agents, NEW c \in Channels, RecordTurn(a, c) PROVE Account(b, d, j)'
  <2>1. /\ MarkHandled(a, c, Head1(a, c)) /\ Leave(a, c) /\ UNCHANGED <<runs, reviews>>
        /\ stage' = [stage EXCEPT ![a][c] = "idle"]
    BY <1>13 DEF RecordTurn, Step
  <2>2. lane[a][c] # <<>>
    BY <1>13 DEF RecordTurn, Shape, LanesAwaited, LaneAwaited
  <2>3. Head1(a, c) \in Positions /\ a \in Names
    BY <2>2, HeadInLog
  <2>4. stage'[a][c] = "idle" /\ (~ (b = a /\ d = c) => stage'[b][d] = stage[b][d])
    BY <2>1 DEF TypeOK
  <2>5. ~ (b = a /\ d = c) => lane'[b][d] = lane[b][d]
    BY <2>1, <2>2, LeaveTyped
  <2> QED BY <1>8, <2>1, <2>3, <2>4, <2>5
<1>14. ASSUME NEW a \in Agents, NEW c \in Channels, Operates(a, c) PROVE Account(b, d, j)'
  <2>1. /\ Took(a, c) /\ Leave(a, c) /\ UNCHANGED <<reviews, excused, handled, stage>>
        /\ stage[a][c] = "idle" /\ lane[a][c] # <<>>
    BY <1>14 DEF Operates, durable
  <2>2. ~ Atwork(a, c)
    BY <2>1 DEF Atwork
  <2>3. ~ (b = a /\ d = c) => lane'[b][d] = lane[b][d]
    BY <2>1, LeaveTyped
  <2> QED BY <1>11, <2>1, <2>2, <2>3
<1>15. CASE Stop
  BY <1>1, <1>15 DEF Stop, durable, pool
<1>16. CASE Restarts
  <2>1. UNCHANGED <<handled, runs, reviews>> /\ stage'[b][d] = "idle"
    BY <1>16 DEF Restarts, Vanish, durable
  <2>2. excused'[b][d][j] = excused[b][d][j] + (IF <<b, d, j>> \in begun THEN 1 ELSE 0)
    BY <1>0, <1>16 DEF Restarts, Vanish
  <2>3. IsHandled(b, d, j)' <=> IsHandled(b, d, j)
    BY <2>1 DEF IsHandled
  <2>4. CASE <<b, d, j>> \in begun
    <3>1. runs[b][d][j] <= excused'[b][d][j] /\ reviews[b][d][j] <= excused'[b][d][j]
          /\ excused'[b][d][j] \in Nat
      BY <1>0, <2>2, <2>4 DEF Account
    <3> QED BY <1>0, <2>1, <3>1 DEF Account
  <2>5. CASE <<b, d, j>> \notin begun
    <3>1. excused'[b][d][j] = excused[b][d][j]
      BY <1>0, <2>2, <2>5
    <3> QED BY <1>0, <2>1, <2>3, <2>5, <3>1 DEF Account
  <2> QED BY <2>4, <2>5
<1> QED BY <1>2, <1>3, <1>4, <1>5, <1>6, <1>7, <1>9, <1>10, <1>12, <1>13, <1>14, <1>15, <1>16
     DEF AStep

\* Without an excuse a message is prompted, reviewed or carried out once at most: again
\* only when a crash came before it was on record, or the ledger was too short for it.
THEOREM NothingTwice == Spec => []RerunsExcused
<1>1. Init => RunsAccounted
  <2> SUFFICES ASSUME Init, NEW a \in Agents, NEW c \in Channels, NEW i \in Positions
               PROVE  Account(a, c, i)
    BY DEF RunsAccounted
  <2>1. /\ runs[a][c][i] = 0 /\ reviews[a][c][i] = 0 /\ excused[a][c][i] = 0
        /\ stage[a][c] = "idle"
    BY DEF Init, Names
  <2> QED BY <2>1 DEF Account
<1>2. TypeOK /\ Shape /\ (TypeOK /\ Shape)' /\ RunsAccounted /\ [Next]_vars => RunsAccounted'
  BY Steps, AccountStep
<1>3. RunsAccounted => RerunsExcused
  BY DEF RunsAccounted, Account, RerunsExcused
<1>4. Spec => [](TypeOK /\ Shape)
  BY ShapeKept
<1> QED BY <1>1, <1>2, <1>3, <1>4, PTL DEF Spec

----------------------------------------------------------------------------
(* Lanes keep the log's order.                                             *)

\* Who a logged message is for does not change.
LEMMA LogStays ==
  ASSUME TypeOK, AStep, NEW c \in Channels, NEW i \in 1..Len(log[c])
  PROVE  Kind(c, i)' = Kind(c, i) /\ To(c, i)' = To(c, i)
<1>1. ASSUME NEW d \in Channels, NEW m \in Messages, Publish(d, m)
      PROVE  Kind(c, i)' = Kind(c, i) /\ To(c, i)' = To(c, i)
  BY <1>1, Published
<1>2. CASE log' = log
  BY <1>2 DEF Kind, To
<1>3. log' = log \/ \E d \in Channels, m \in Messages : Publish(d, m)
  BY DEF AStep, vars, durable, DrainBegin, HandsOver, Saves, DispatchEnd, Answer, RecordControl,
         GoesOn, Prompt, RecordTurn, Operates, Stop, Restarts, Vanish
<1> QED BY <1>1, <1>2, <1>3

\* What took effect took effect; only the head of a lane can newly do so.
LEMMA RunsGrow ==
  ASSUME TypeOK, Shape, AStep, NEW a \in Agents, NEW c \in Channels, NEW i \in Positions
  PROVE  /\ runs[a][c][i] > 0 => runs'[a][c][i] > 0
         /\ runs'[a][c][i] > 0 =>
              \/ runs[a][c][i] > 0
              \/ (Prompt(a, c) \/ Operates(a, c)) /\ lane[a][c] # <<>> /\ i = Head1(a, c)
<1>0. runs[a][c][i] \in Nat /\ a \in Names
  BY DEF TypeOK, Names
<1>1. CASE runs' = runs
  BY <1>1
<1>2. ASSUME NEW b \in Agents, NEW d \in Channels, Prompt(b, d) \/ Operates(b, d)
      PROVE  /\ runs[a][c][i] > 0 => runs'[a][c][i] > 0
             /\ runs'[a][c][i] > 0 =>
                  \/ runs[a][c][i] > 0
                  \/ (Prompt(a, c) \/ Operates(a, c)) /\ lane[a][c] # <<>> /\ i = Head1(a, c)
  <2>1. Took(b, d)
    BY <1>2 DEF Prompt, Operates
  <2>2. lane[b][d] # <<>>
    BY <1>2 DEF Prompt, Operates, Shape, LanesAwaited, LaneAwaited
  <2>3. Head1(b, d) \in Positions
    BY <2>2, HeadOf
  <2>4. CASE a = b /\ c = d /\ i = Head1(b, d)
    <3>1. runs'[a][c][i] = runs[a][c][i] + 1
      BY <2>1, <2>3, <2>4, TookRuns
    <3> QED BY <1>0, <1>2, <2>2, <2>4, <3>1
  <2>5. CASE ~ (a = b /\ c = d /\ i = Head1(b, d))
    <3>1. <<a, c, i>> # <<b, d, Head1(b, d)>>
      BY <2>5
    <3>2. runs'[a][c][i] = runs[a][c][i]
      BY <1>0, <2>1, <2>3, <3>1, TookRuns
    <3> QED BY <3>2
  <2> QED BY <2>4, <2>5
<1>3. runs' = runs \/ \E b \in Agents, d \in Channels : Prompt(b, d) \/ Operates(b, d)
  BY DEF AStep, vars, history, Publish, DrainBegin, HandsOver, Saves, DispatchEnd, Answer,
         RecordControl, GoesOn, RecordTurn, Stop, Restarts, Vanish
<1> QED BY <1>1, <1>2, <1>3

\* What is on record stays on record.
LEMMA EverGrows ==
  ASSUME TypeOK, Shape, AStep, NEW a \in Names, NEW c \in Channels
  PROVE  everHandled[a][c] \subseteq everHandled'[a][c]
<1>1. ASSUME NEW b \in Names, NEW d \in Channels, NEW j \in Positions, MarkHandled(b, d, j)
      PROVE  everHandled[a][c] \subseteq everHandled'[a][c]
  <2>1. everHandled[a][c] \subseteq Positions
    BY DEF TypeOK
  <2> QED BY <1>1, <2>1, MarkedEver
<1>2. ASSUME NEW d \in Channels, NEW j \in Positions, RecordControl(d, j)
      PROVE  everHandled[a][c] \subseteq everHandled'[a][c]
  <2>1. reply[d][j] # "none" /\ MarkHandled(CHOOSE n \in Names : n \in To(d, j), d, j)
    BY <1>2 DEF RecordControl
  <2> QED BY <1>1, <2>1, TargetOf
<1>3. ASSUME NEW b \in Agents, NEW d \in Channels, RecordTurn(b, d)
      PROVE  everHandled[a][c] \subseteq everHandled'[a][c]
  <2>1. lane[b][d] # <<>> /\ MarkHandled(b, d, Head1(b, d))
    BY <1>3 DEF RecordTurn, Shape, LanesAwaited, LaneAwaited
  <2>2. Head1(b, d) \in Positions /\ b \in Names
    BY <2>1, HeadInLog
  <2> QED BY <1>1, <2>1, <2>2
<1>4. \/ everHandled' = everHandled
      \/ \E d \in Channels, j \in Positions : RecordControl(d, j)
      \/ \E b \in Agents, d \in Channels : RecordTurn(b, d)
  BY DEF AStep, vars, history, Publish, DrainBegin, HandsOver, Saves, DispatchEnd, Answer,
         GoesOn, Prompt, Operates, Stop, Restarts, Vanish
<1> QED BY <1>2, <1>3, <1>4

LEMMA PassedKept ==
  ASSUME TypeOK, Shape, AStep, NEW a \in Agents, NEW c \in Channels, NEW i \in 1..Len(log[c]),
         Passed(a, c, i)
  PROVE  Passed(a, c, i)'
<1>1. i \in Positions /\ a \in Names
  BY Entries DEF Names
<1>2. Kind(c, i)' = Kind(c, i) /\ To(c, i)' = To(c, i)
  BY LogStays
<1>3. runs[a][c][i] > 0 => runs'[a][c][i] > 0
  BY <1>1, RunsGrow
<1>4. i \in everHandled[a][c] => i \in everHandled'[a][c]
  BY <1>1, EverGrows
<1> QED BY <1>2, <1>3, <1>4 DEF Passed

LEMMA TurnsStep ==
  ASSUME TypeOK, Shape, LanesInOrder, TurnsInOrder, TypeOK', Shape', AStep
  PROVE  TurnsInOrder'
<1> SUFFICES ASSUME NEW a \in Agents, NEW c \in Channels, NEW j \in Positions,
                    runs'[a][c][j] > 0, Kind(c, j)' \in {"text", "watch"}, NEW i \in 1..(j - 1)
             PROVE  Passed(a, c, i)'
  BY DEF TurnsInOrder
<1>1. CASE runs[a][c][j] > 0
  <2>1. j <= Len(log[c]) /\ Len(log[c]) \in Nat /\ j \in Nat
    BY SMTT(40), <1>1, BoundsAssumption DEF Shape, PositionsInLog, TypeOK, Positions
  <2>2. j \in 1..Len(log[c]) /\ i \in 1..Len(log[c])
    BY <2>1, BoundsAssumption DEF Positions
  <2>3. Kind(c, j)' = Kind(c, j)
    BY <2>2, LogStays
  <2>4. Passed(a, c, i)
    BY <1>1, <2>3 DEF TurnsInOrder
  <2> QED BY <2>2, <2>4, PassedKept
<1>2. CASE ~ (runs[a][c][j] > 0)
  <2>1. (Prompt(a, c) \/ Operates(a, c)) /\ lane[a][c] # <<>> /\ j = Head1(a, c)
    BY <1>2, RunsGrow
  <2>2. j \in 1..Len(log[c]) /\ Len(log[c]) \in Nat
    <3>1. log[c] \in Seq(Messages)
      BY DEF TypeOK
    <3> QED BY <2>1, <3>1, HeadInLog
  <2>3. i \in 1..Len(log[c]) /\ Kind(c, j)' = Kind(c, j)
    BY <2>2, LogStays
  <2>4. 1 \in 1..Len(lane[a][c]) /\ j = lane[a][c][1]
    BY <2>1, HeadOf
  <2>5. InTurn(a, c, 1)
    BY <2>4 DEF LanesInOrder
  <2>6. ~ \E k \in 1..(1 - 1) : lane[a][c][k] = i
    OBVIOUS
  <2>7. Passed(a, c, i)
    BY <2>3, <2>4, <2>5, <2>6 DEF InTurn
  <2> QED BY <2>3, <2>7, PassedKept
<1> QED BY <1>1, <1>2

\* What is handed over comes after everything older that its lane was woken for.
LEMMA FilledInOrder ==
  ASSUME TypeOK, Shape, OffsetCovered, HandsOver, NEW a \in Agents, NEW c \in Channels,
         NEW k \in (Len(lane[a][c]) + 1)..Len(lane'[a][c]),
         Kind(c, lane'[a][c][k]) \in {"text", "watch"}, NEW i \in 1..(lane'[a][c][k] - 1)
  PROVE  Passed(a, c, i) \/ \E j \in 1..(k - 1) : lane'[a][c][j] = i
<1>1. PICK upTo \in [Channels -> 0..MaxLog], skipped \in SUBSET Positions :
        /\ \A d \in Channels : offset[d] <= upTo[d] /\ upTo[d] <= Len(log[d])
        /\ \A d \in Channels : \A n \in (offset[d] + 1)..upTo[d] :
             n \in skipped => Kind(d, n) = "watch"
        /\ HandOver(upTo, skipped)
  BY DEF HandsOver
<1> DEFINE N == New(upTo, skipped, c)
           s == lane[a][c]
           t == lane'[a][c]
<1>2. /\ LaneGets(N, a, c)
      /\ \A n \in N : n \in 1..Len(log[c]) /\ n \in Positions /\ n > offset[c] /\ n <= upTo[c]
  BY <1>1, Handed
<1>3. /\ Len(s) \in Nat /\ Len(t) \in Nat /\ Len(s) <= Len(t)
      /\ \A n \in 1..Len(s) : t[n] = s[n]
      /\ t[k] \in N
      /\ \A n \in N : Wants(a, c, n) /\ Kind(c, n) \in {"text", "watch"} /\ n < t[k] =>
           \E j \in (Len(s) + 1)..(k - 1) : t[j] = n
  BY <1>2 DEF LaneGets
<1>4. /\ t[k] \in Nat /\ t[k] <= upTo[c] /\ upTo[c] \in Nat /\ offset[c] \in Nat
      /\ i \in Nat /\ i >= 1 /\ i < t[k]
  <2>1. t[k] \in Positions /\ t[k] <= upTo[c]
    BY <1>2, <1>3
  <2>2. upTo[c] \in 0..MaxLog /\ offset[c] \in 0..MaxLog
    BY DEF TypeOK
  <2>3. i \in 1..(t[k] - 1)
    OBVIOUS
  <2> HIDE DEF t
  <2> QED BY <2>1, <2>2, <2>3, BoundsAssumption DEF Positions
<1> SUFFICES ASSUME Kind(c, i) = "text", a \in To(c, i), i \notin everHandled[a][c]
             PROVE  \E j \in 1..(k - 1) : t[j] = i
  BY DEF Passed
<1>5. CASE i <= offset[c]
  <2>1. i \in 1..offset[c]
    BY <1>4, <1>5
  <2>2. i \in Positions /\ Covered(a, c, i)
    BY <2>1, Dispatched DEF OffsetCovered
  <2>3. reply[c][i] = "none"
    BY <2>2 DEF Shape, DispatchesOpen, IsControl
  <2>4. InLane(a, c, i)
    BY <2>2, <2>3 DEF Covered, Shape, LanesAwaited, LaneAwaited
  <2>5. PICK j \in 1..Len(s) : s[j] = i
    BY <2>4 DEF InLane
  <2>6. j \in 1..(k - 1)
    BY <1>3
  <2> QED BY <1>3, <2>5, <2>6
<1>6. CASE ~ (i <= offset[c])
  <2>1. i \in (offset[c] + 1)..upTo[c]
    BY <1>4, <1>6
  <2>2. i \in N
    BY <1>1, <2>1 DEF New
  <2>3. i \in Positions /\ a \in Names
    BY <1>2, <2>2 DEF Names
  <2>4. Wants(a, c, i)
    BY <2>3 DEF Wants, Shape, LedgerTrue
  <2>5. PICK j \in (Len(s) + 1)..(k - 1) : t[j] = i
    BY <1>3, <1>4, <2>2, <2>4
  <2>6. j \in 1..(k - 1)
    BY <1>3
  <2> QED BY <2>5, <2>6
<1> QED BY <1>5, <1>6

LEMMA LanesOrderStep ==
  ASSUME TypeOK, Shape, OffsetCovered, LanesInOrder, TypeOK', Shape', AStep
  PROVE  LanesInOrder'
<1> SUFFICES ASSUME NEW a \in Agents, NEW c \in Channels, NEW k \in 1..Len(lane'[a][c]),
                    NEW x \in Positions, x = lane'[a][c][k], Kind(c, x)' \in {"text", "watch"},
                    NEW i \in 1..(x - 1)
             PROVE  Passed(a, c, i)' \/ \E j \in 1..(k - 1) : lane'[a][c][j] = i
  <2>1. \A a \in Agents, c \in Channels : lane'[a][c] \in Seq(Positions)
    BY DEF TypeOK
  <2> QED BY <2>1 DEF LanesInOrder, InTurn
<1> DEFINE s == lane[a][c]
           t == lane'[a][c]
           Stands == Passed(a, c, i)' \/ \E j \in 1..(k - 1) : t[j] = i
<1>0. /\ s \in Seq(Positions) /\ Len(s) \in Nat /\ t \in Seq(Positions) /\ Len(t) \in Nat
      /\ a \in Names /\ Len(log[c]) \in Nat /\ Positions \subseteq Nat
      /\ \A n \in 1..Len(s) : s[n] \in Positions
  <2>1. s \in Seq(Positions) /\ t \in Seq(Positions) /\ log[c] \in Seq(Messages)
    BY DEF TypeOK
  <2>2. Len(s) \in Nat /\ Len(t) \in Nat /\ Len(log[c]) \in Nat
    BY <2>1
  <2>3. \A n \in 1..Len(s) : s[n] \in Positions
    BY <2>1
  <2>4. a \in Names /\ Positions \subseteq Nat
    BY BoundsAssumption DEF Names, Positions
  <2> HIDE DEF s, t
  <2> QED BY <2>1, <2>2, <2>3, <2>4
\* What stood in turn still does.
<1>1. ASSUME NEW n \in 1..Len(s), x = s[n],
             \A m \in 1..(n - 1) : \A y \in Positions :
               y = s[m] => Passed(a, c, y)' \/ \E j \in 1..(k - 1) : t[j] = y
      PROVE  Stands
  <2>1. InLane(a, c, x)
    BY <1>1 DEF InLane
  <2>2. x \in 1..Len(log[c])
    BY <2>1, WaitsInLog
  <2>3. i \in 1..Len(log[c]) /\ i \in Positions
    BY <1>0, <2>2, Entries
  <2>4. Kind(c, x)' = Kind(c, x)
    BY <2>2, LogStays
  <2>5. Passed(a, c, i) \/ \E m \in 1..(n - 1) : s[m] = i
    <3>1. InTurn(a, c, n)
      BY DEF LanesInOrder
    <3> QED BY <1>1, <2>4, <3>1 DEF InTurn
  <2>6. Passed(a, c, i) => Passed(a, c, i)'
    BY <2>3, PassedKept
  <2> QED BY <1>1, <2>3, <2>5, <2>6
<1>2. ASSUME t = s PROVE Stands
  BY <1>1, <1>2
<1>3. CASE HandsOver
  <2>1. PICK upTo \in [Channels -> 0..MaxLog], skipped \in SUBSET Positions :
          /\ \A d \in Channels : offset[d] <= upTo[d] /\ upTo[d] <= Len(log[d])
          /\ HandOver(upTo, skipped)
    BY <1>3 DEF HandsOver
  <2>2. LaneGets(New(upTo, skipped, c), a, c)
    BY <2>1, Handed
  <2>3. \A n \in 1..Len(s) : t[n] = s[n]
    BY <2>2 DEF LaneGets
  <2>4. CASE k <= Len(s)
    <3>1. k \in 1..Len(s) /\ \A m \in 1..(k - 1) : m \in 1..Len(s)
      BY <1>0, <2>4
    <3> QED BY <1>1, <2>3, <3>1
  <2>5. CASE ~ (k <= Len(s))
    <3>1. k \in (Len(s) + 1)..Len(t)
      BY <1>0, <2>5
    <3>2. x \in 1..Len(log[c])
      <4>1. x \in New(upTo, skipped, c)
        BY <2>2, <3>1 DEF LaneGets
      <4> QED BY <2>1, <4>1, Handed
    <3>3. Kind(c, x)' = Kind(c, x) /\ i \in 1..Len(log[c])
      BY <1>0, <3>2, LogStays
    <3>4. Passed(a, c, i) \/ \E j \in 1..(k - 1) : t[j] = i
      BY <1>3, <3>1, <3>3, FilledInOrder
    <3> QED BY <3>3, <3>4, PassedKept
  <2> QED BY <2>4, <2>5
\* The head leaves: a turn is on record, an operation was nothing to wait for.
<1>4. ASSUME NEW b \in Agents, NEW d \in Channels, RecordTurn(b, d) \/ Operates(b, d)
      PROVE  Stands
  <2>1. Leave(b, d) /\ lane[b][d] # <<>>
    BY <1>4 DEF RecordTurn, Operates, Shape, LanesAwaited, LaneAwaited
  <2>2. CASE ~ (b = a /\ d = c)
    <3>1. t = s
      BY <2>1, <2>2, LeaveTyped
    <3> QED BY <1>2, <3>1
  <2>3. CASE b = a /\ d = c
    <3>1. t = Tail(s) /\ s # <<>>
      BY <2>1, <2>3, LeaveTyped
    <3> HIDE DEF s, t
    <3>2. Len(t) = Len(s) - 1 /\ \A m \in 1..Len(t) : t[m] = s[m + 1]
      BY <1>0, <3>1
    <3>3. ASSUME NEW m \in 2..k PROVE m - 1 \in 1..(k - 1) /\ t[m - 1] = s[m]
      <4>1. m - 1 \in 1..(k - 1) /\ m - 1 \in 1..Len(t) /\ (m - 1) + 1 = m
        BY <1>0 DEF t
      <4> QED BY <3>2, <4>1
    <3>4. k + 1 \in 1..Len(s) /\ x = s[k + 1] /\ (k + 1) - 1 = k
      BY <1>0, <3>2 DEF t
    <3>5. s[1] = Head1(a, c) /\ Head1(a, c) \in 1..Len(log[c]) /\ Head1(a, c) \in Positions
      BY <3>1, HeadOf, HeadInLog DEF s
    <3>6. ASSUME NEW y \in Positions, y = s[1] PROVE Passed(a, c, y)'
      <4>1. CASE Operates(a, c)
        <5>1. Kind(c, y) # "text" /\ y \in 1..Len(log[c])
          BY <3>5, <3>6, <4>1 DEF Operates, HeadKind
        <5>2. Kind(c, y)' # "text"
          BY <5>1, LogStays
        <5> QED BY <5>2 DEF Passed
      <4>2. CASE RecordTurn(a, c)
        <5>1. MarkHandled(a, c, y)
          BY <3>5, <3>6, <4>2 DEF RecordTurn
        <5>2. y \in everHandled'[a][c]
          BY <1>0, <5>1, Marked
        <5> QED BY <5>2 DEF Passed
      <4> QED BY <1>4, <2>3, <4>1, <4>2
    <3>7. ASSUME NEW m \in 1..((k + 1) - 1), NEW y \in Positions, y = s[m]
          PROVE  Passed(a, c, y)' \/ \E j \in 1..(k - 1) : t[j] = y
      <4>1. m = 1 \/ m \in 2..k
        BY <1>0
      <4> QED BY <3>3, <3>6, <3>7, <4>1
    <3> QED BY <1>1, <3>4, <3>7 DEF s, t
  <2> QED BY <2>2, <2>3
<1>5. CASE Restarts
  <2>1. t = <<>>
    BY <1>5 DEF Restarts, Vanish
  <2> QED BY <2>1
<1>6. \/ lane' = lane \/ HandsOver \/ Restarts
      \/ \E b \in Agents, d \in Channels : RecordTurn(b, d) \/ Operates(b, d)
  BY DEF AStep, vars, pool, Publish, DrainBegin, Saves, DispatchEnd, Answer, RecordControl,
         GoesOn, Prompt, Stop
<1> QED BY <1>2, <1>3, <1>4, <1>5, <1>6

\* A lane first prompts a message only when every earlier one that it was woken for was
\* prompted or is handled: through a backlog, batches, stops and crashes.
THEOREM InTheLogsOrder == Spec => []FirstTurnsInOrder
<1>1. Init => OffsetCovered /\ CursorCovered /\ LanesInOrder /\ TurnsInOrder
  <2> SUFFICES ASSUME Init PROVE OffsetCovered /\ CursorCovered /\ LanesInOrder /\ TurnsInOrder
    OBVIOUS
  <2>1. /\ \A c \in Channels : saved[c] = 0 /\ offset[c] = 0
        /\ \A a \in Agents, c \in Channels : Len(lane[a][c]) = 0
        /\ \A a \in Agents, c \in Channels, i \in Positions : ~ (runs[a][c][i] > 0)
    BY DEF Init, Names
  <2> QED BY <2>1 DEF OffsetCovered, CursorCovered, LanesInOrder, TurnsInOrder
<1>2. TypeOK /\ Shape /\ (TypeOK /\ Shape)' /\ OffsetCovered /\ CursorCovered
        /\ LanesInOrder /\ TurnsInOrder /\ [Next]_vars
        => (OffsetCovered /\ CursorCovered /\ LanesInOrder /\ TurnsInOrder)'
  BY Steps, CoveredStep, LanesOrderStep, TurnsStep
<1>3. TypeOK /\ TurnsInOrder => FirstTurnsInOrder
  <2> SUFFICES ASSUME TypeOK, TurnsInOrder, NEW a \in Agents, NEW c \in Channels,
                      NEW j \in 1..Len(log[c]), Kind(c, j) \in {"text", "watch"},
                      runs[a][c][j] > 0, NEW i \in 1..(j - 1),
                      Kind(c, i) = "text", a \in To(c, i)
               PROVE  runs[a][c][i] > 0 \/ i \in everHandled[a][c]
    BY DEF FirstTurnsInOrder
  <2>1. j \in Positions
    BY Entries
  <2>2. Passed(a, c, i)
    BY <2>1 DEF TurnsInOrder
  <2> QED BY <2>2 DEF Passed
<1>4. Spec => [](TypeOK /\ Shape)
  BY ShapeKept
<1> QED BY <1>1, <1>2, <1>3, <1>4, PTL DEF Spec

----------------------------------------------------------------------------
(* Controls settle.                                                        *)

LEMMA SparesStep ==
  ASSUME TypeOK, Shape, StopSparesLaterTurns, TypeOK', Shape', AStep
  PROVE  StopSparesLaterTurns'
<1> SUFFICES ASSUME NEW a \in Agents, NEW c \in Channels, Running(a, c)', aborted'[a][c]
             PROVE  \E i \in (Head1(a, c)' + 1)..offset'[c] :
                      Kind(c, i)' = "stop" /\ (a \in To(c, i))'
  BY DEF StopSparesLaterTurns
<1> DEFINE Spared == \E i \in (Head1(a, c)' + 1)..offset'[c] :
                       Kind(c, i)' = "stop" /\ (a \in To(c, i))'
           Hit(i) == Kind(c, i) = "stop" /\ a \in To(c, i)
<1>1. ASSUME Running(a, c), aborted[a][c], offset[c] <= offset'[c], Head1(a, c)' = Head1(a, c)
      PROVE  Spared
  <2>1. lane[a][c] # <<>>
    BY <1>1 DEF Shape, LanesAwaited, LaneAwaited, Running
  <2>2. PICK i \in (Head1(a, c) + 1)..offset[c] : Hit(i)
    BY <1>1 DEF StopSparesLaterTurns
  <2>3. Head1(a, c) \in 1..MaxLog /\ offset[c] \in 0..MaxLog /\ offset'[c] \in 0..MaxLog
    BY <2>1, HeadInLog DEF TypeOK, Positions
  <2>4. i \in 1..offset[c] /\ i \in (Head1(a, c) + 1)..offset'[c]
    <3> HIDE DEF Hit
    <3> QED BY <1>1, <2>3, BoundsAssumption
  <2>5. i \in 1..Len(log[c])
    BY <2>4, Dispatched
  <2>6. Kind(c, i)' = "stop" /\ (a \in To(c, i))'
    BY <2>2, <2>5, LogStays
  <2> QED BY <1>1, <2>4, <2>6
<1>2. ASSUME UNCHANGED <<lane, stage, aborted, offset>> PROVE Spared
  <2>1. offset[c] <= offset'[c]
    BY <1>2, BoundsAssumption DEF TypeOK
  <2> QED BY <1>1, <1>2, <2>1 DEF Running, Head1
\* Before the gateway has started no turn runs.
<1>3. CASE DrainBegin
  <2>1. stage[a][c] # "idle"
    BY <1>3 DEF DrainBegin, pool, Running
  <2>2. Head1(a, c) \in Positions /\ Head1(a, c) <= offset[c]
    BY <2>1, HeadInLog DEF Shape, LanesAwaited, LaneAwaited
  <2>3. offset[c] = 0
    BY <1>3 DEF DrainBegin, Shape, PositionsInLog
  <2> QED BY <2>2, <2>3, BoundsAssumption DEF Positions
\* A stop that comes in is behind the turn it finds running.
<1>4. CASE HandsOver
  <2>1. PICK upTo \in [Channels -> 0..MaxLog], skipped \in SUBSET Positions :
          /\ \A d \in Channels : offset[d] <= upTo[d] /\ upTo[d] <= Len(log[d])
          /\ HandOver(upTo, skipped)
    BY <1>4 DEF HandsOver
  <2>2. offset' = upTo /\ UNCHANGED <<log, stage>>
    BY <1>4, <2>1 DEF HandsOver, HandOver
  <2>3. Running(a, c) /\ lane[a][c] # <<>>
    BY <2>2 DEF Running, Shape, LanesAwaited, LaneAwaited
  <2>4. Head1(a, c)' = Head1(a, c) /\ offset[c] <= offset'[c]
    BY <1>4, <2>3, FilledKeeps
  <2>5. CASE aborted[a][c]
    BY <1>1, <2>3, <2>4, <2>5
  <2>6. CASE ~ aborted[a][c]
    <3>1. PICK i \in New(upTo, skipped, c) : Kind(c, i) = "stop" /\ Wants(a, c, i)
      BY <2>1, <2>6, Handed
    <3>2. i > offset[c] /\ i <= upTo[c] /\ i \in Positions
      BY <2>1, Handed
    <3>3. Head1(a, c) <= offset[c] /\ Head1(a, c) \in Positions
      BY <2>3, HeadInLog
    <3>4. offset[c] \in 0..MaxLog /\ upTo[c] \in 0..MaxLog
      BY DEF TypeOK
    <3>5. i \in (Head1(a, c) + 1)..upTo[c]
      <4> HIDE DEF Hit
      <4> QED BY <3>2, <3>3, <3>4, BoundsAssumption DEF Positions
    <3>6. Kind(c, i)' = "stop" /\ (a \in To(c, i))'
      BY <2>2, <3>1 DEF Wants, Kind, To
    <3> QED BY <2>2, <2>4, <3>5, <3>6
  <2> QED BY <2>5, <2>6
<1>5. ASSUME NEW b \in Agents, NEW d \in Channels, GoesOn(b, d) PROVE Spared
  <2>1. UNCHANGED <<lane, offset>> /\ offset[c] <= offset'[c]
    BY <1>5, BoundsAssumption DEF GoesOn, gateway, TypeOK
  <2>2. Running(a, c) /\ aborted[a][c]
    <3>1. CASE a = b /\ c = d
      BY <1>5, <3>1 DEF GoesOn, TypeOK
    <3>2. CASE ~ (a = b /\ c = d)
      <4>1. stage'[a][c] = stage[a][c]
        BY <1>5, <3>2, StagesOf DEF GoesOn
      <4>2. PICK x \in BOOLEAN : aborted' = [aborted EXCEPT ![b][d] = x]
        BY <1>5 DEF GoesOn
      <4>3. aborted'[a][c] = aborted[a][c]
        <5>1. aborted \in [Agents -> [Channels -> BOOLEAN]]
          BY DEF TypeOK
        <5>2. CASE a # b
          BY <4>2, <5>1, <5>2
        <5>3. CASE c # d
          BY <4>2, <5>1, <5>3
        <5> QED BY <3>2, <5>2, <5>3
      <4> QED BY <4>1, <4>3 DEF Running
    <3> QED BY <3>1, <3>2
  <2> QED BY <1>1, <2>1, <2>2 DEF Head1
<1>6. ASSUME NEW b \in Agents, NEW d \in Channels, Prompt(b, d) PROVE Spared
  <2>1. UNCHANGED <<lane, offset, aborted>> /\ offset[c] <= offset'[c]
    BY <1>6, BoundsAssumption DEF Prompt, gateway, TypeOK
  <2>2. Running(a, c)
    BY <1>6, <2>1 DEF Prompt, Step, Running, TypeOK
  <2> QED BY <1>1, <2>1, <2>2 DEF Head1
<1>7. ASSUME NEW b \in Agents, NEW d \in Channels, RecordTurn(b, d) \/ Operates(b, d) PROVE Spared
  <2>1. UNCHANGED <<offset, aborted>> /\ Leave(b, d) /\ lane[b][d] # <<>>
    BY <1>7 DEF RecordTurn, Operates, Shape, LanesAwaited, LaneAwaited
  <2>2. stage'[b][d] = "idle"
    BY <1>7 DEF RecordTurn, Operates, Step, TypeOK
  <2>3. ~ (a = b /\ c = d)
    BY <2>2 DEF Running
  <2>4. stage'[a][c] = stage[a][c] /\ lane'[a][c] = lane[a][c]
    <3>1. stage' = stage \/ stage' = [stage EXCEPT ![b][d] = "idle"]
      BY <1>7 DEF RecordTurn, Operates, Step
    <3>2. stage'[a][c] = stage[a][c]
      BY <2>3, <3>1, StagesOf
    <3> QED BY <2>1, <2>3, <3>2, LeaveTyped
  <2>5. offset[c] <= offset'[c]
    BY <2>1, BoundsAssumption DEF TypeOK
  <2> QED BY <1>1, <2>1, <2>4, <2>5 DEF Running, Head1
<1>8. CASE Restarts
  BY <1>8 DEF Restarts, Vanish, Running
<1>9. ASSUME NEW d \in Channels, NEW i \in Positions,
             DispatchEnd(d, i) \/ Answer(d, i) \/ RecordControl(d, i)
      PROVE  Spared
  BY <1>2, <1>9 DEF DispatchEnd, Answer, RecordControl, pool
<1>10. ASSUME NEW d \in Channels, NEW m \in Messages, Publish(d, m) PROVE Spared
  BY <1>2, <1>10 DEF Publish, gateway, pool
<1>11. CASE UNCHANGED vars \/ Saves \/ Stop
  BY <1>2, <1>11 DEF vars, gateway, pool, Saves, Stop
<1> QED BY <1>3, <1>4, <1>5, <1>6, <1>7, <1>8, <1>9, <1>10, <1>11 DEF AStep

LEMMA AnsweredStep ==
  ASSUME TypeOK, Shape, HandledControlsAnswered, TypeOK', Shape', AStep
  PROVE  HandledControlsAnswered'
<1> SUFFICES ASSUME NEW c \in Channels, NEW i \in 1..Len(log'[c]), NEW a, (a \in To(c, i))',
                    IsControl(c, i)', i \in everHandled'[a][c]
             PROVE  acks'[c][i] > 0
  BY DEF HandledControlsAnswered
<1>1. i \in Positions /\ a \in Names
  <2>1. log'[c] \in Seq(Messages) /\ Len(log'[c]) <= MaxLog /\ Len(log'[c]) \in Nat
    BY DEF TypeOK
  <2>2. i \in Positions
    BY <2>1, BoundsAssumption DEF Positions
  <2>3. log'[c][i] \in Messages
    BY <2>1
  <2> QED BY <2>2, <2>3, MessagesAssumption DEF To
<1>2. acks[c][i] \in Nat
  BY <1>1 DEF TypeOK
<1>3. acks[c][i] > 0 => acks'[c][i] > 0
  <2>1. CASE acks' = acks
    BY <2>1
  <2>2. ASSUME NEW d \in Channels, NEW j \in Positions, Answer(d, j)
        PROVE  acks'[c][i] \in {acks[c][i], acks[c][i] + 1}
    BY <1>1, <2>2 DEF Answer, TypeOK
  <2>3. acks' = acks \/ \E d \in Channels, j \in Positions : Answer(d, j)
    BY DEF AStep, vars, history, Publish, DrainBegin, HandsOver, Saves, DispatchEnd,
           RecordControl, GoesOn, Prompt, RecordTurn, Operates, Stop, Restarts, Vanish
  <2> QED BY <1>2, <2>1, <2>2, <2>3
\* What was on record was answered.
<1>4. ASSUME i \in everHandled[a][c] PROVE acks'[c][i] > 0
  <2>1. i <= Len(log[c]) /\ Len(log[c]) \in Nat
    BY SMTT(40), <1>1, <1>4 DEF Shape, PositionsInLog, TypeOK
  <2>2. i \in 1..Len(log[c])
    BY <1>1, <2>1, BoundsAssumption DEF Positions
  <2>3. IsControl(c, i) /\ a \in To(c, i)
    BY <2>2, LogStays DEF IsControl
  <2> QED BY <1>3, <1>4, <2>2, <2>3 DEF HandledControlsAnswered
<1>5. ASSUME NEW b \in Names, NEW d \in Channels, NEW j \in Positions, MarkHandled(b, d, j),
             d = c /\ j = i => acks[c][i] > 0
      PROVE  acks'[c][i] > 0
  <2>1. i \in everHandled[a][c] \/ (d = c /\ j = i)
    BY <1>1, <1>5, MarkedEver
  <2> QED BY <1>3, <1>4, <1>5, <2>1
<1>6. ASSUME NEW d \in Channels, NEW j \in Positions, RecordControl(d, j) PROVE acks'[c][i] > 0
  <2>1. /\ reply[d][j] = "sent" /\ acks' = acks
        /\ MarkHandled(CHOOSE n \in Names : n \in To(d, j), d, j)
    BY <1>6 DEF RecordControl
  <2>2. acks[d][j] > 0
    BY <2>1 DEF Shape, DispatchesOpen
  <2> QED BY <1>5, <2>1, <2>2, TargetOf
<1>7. ASSUME NEW b \in Agents, NEW d \in Channels, RecordTurn(b, d) PROVE acks'[c][i] > 0
  <2>1. /\ lane[b][d] # <<>> /\ HeadKind(b, d) \in {"text", "watch"}
        /\ MarkHandled(b, d, Head1(b, d)) /\ log' = log
    BY <1>7 DEF RecordTurn, Shape, LanesAwaited, LaneAwaited
  <2>2. Head1(b, d) \in Positions /\ b \in Names
    BY <2>1, HeadInLog
  <2>3. ~ (d = c /\ Head1(b, d) = i)
    BY <2>1 DEF HeadKind, IsControl, Kind
  <2> QED BY <1>5, <2>1, <2>2, <2>3
<1>8. \/ everHandled' = everHandled
      \/ \E d \in Channels, j \in Positions : RecordControl(d, j)
      \/ \E b \in Agents, d \in Channels : RecordTurn(b, d)
  BY DEF AStep, vars, history, Publish, DrainBegin, HandsOver, Saves, DispatchEnd, Answer,
         GoesOn, Prompt, Operates, Stop, Restarts, Vanish
<1> QED BY <1>4, <1>6, <1>7, <1>8

\* A stop aborts no turn whose message came after it, and a control that the ledger calls
\* handled has had its outcome published, through stops and crashes at any point.
THEOREM NobodyElsePays == Spec => []ControlsSettle
<1>1. Init => StopSparesLaterTurns /\ HandledControlsAnswered
  <2> SUFFICES ASSUME Init PROVE StopSparesLaterTurns /\ HandledControlsAnswered
    OBVIOUS
  <2>1. /\ \A a \in Agents, c \in Channels : ~ Running(a, c)
        /\ \A c \in Channels : Len(log[c]) = 0
    BY DEF Init, Running
  <2> QED BY <2>1 DEF StopSparesLaterTurns, HandledControlsAnswered
<1>2. TypeOK /\ Shape /\ (TypeOK /\ Shape)' /\ StopSparesLaterTurns /\ HandledControlsAnswered
        /\ [Next]_vars => (StopSparesLaterTurns /\ HandledControlsAnswered)'
  BY Steps, SparesStep, AnsweredStep
<1>3. Spec => [](TypeOK /\ Shape)
  BY ShapeKept
<1>4. TypeOK /\ StopSparesLaterTurns /\ HandledControlsAnswered => ControlsSettle
  BY DEF ControlsSettle
<1> QED BY <1>1, <1>2, <1>3, <1>4, PTL DEF Spec
=============================================================================
