------------------------------- MODULE TimeProofs -------------------------------
(***************************************************************************)
(* The time events for heaps of any size, any ticks and times of any       *)
(* width: the heap keeps its order when nodes are inserted and deleted,    *)
(* also when the times wrap round, callbacks come neither early nor late,  *)
(* and cyclic handlers do not drift.                                       *)
(***************************************************************************)
EXTENDS TimeEvent, CyclicAlarm, FiniteSetTheorems, WellFoundedInduction, TLAPS

-----------------------------------------------------------------------------
\* Ancestors

\* A set of numbers that is not empty has a least one.
LEMMA LeastOf ==
    ASSUME NEW T \in SUBSET Nat, T # {}
    PROVE  \E x \in T : \A y \in T : x <= y
<1> DEFINE R == OpToRel(<, Nat)
<1>1. IsWellFoundedOn(R, Nat)
  BY NatLessThanWellFounded
<1>2. \A x, y \in Nat : y < x => <<y, x>> \in R
  BY DEF OpToRel
<1> HIDE DEF R
<1>3. PICK x \in T : \A y \in T : ~ (<<y, x>> \in R)
  BY <1>1, WFMin
<1>4. ASSUME NEW y \in T
      PROVE  ~ (y < x)
  BY <1>2, <1>3
<1>5. ASSUME NEW y \in T
      PROVE  x <= y
  BY <1>4
<1> QED
  BY <1>5

\* The parent of a node is before it.
LEMMA ParentBefore ==
    ASSUME NEW i \in Nat
    PROVE  /\ Parent(i) \in Nat /\ (i > 0 => Parent(i) < i) /\ (i > 1 => Parent(i) >= 1)
           /\ Parent(2 * i) = i /\ Parent(2 * i + 1) = i
           /\ \A j \in Nat : Parent(j) = i => j = 2 * i \/ j = 2 * i + 1
  BY DEF Parent

\* The nodes k from which j is reached by going to children, without recursion
Chained(j) ==
    {k \in 1 .. j : \E C \in SUBSET (k .. j) :
        j \in C /\ k \in C /\ \A c \in C \ {k} : Parent(c) \in C}

LEMMA ChainedStep ==
    ASSUME NEW j \in Nat, j > 0
    PROVE  Chained(j) = {j} \cup Chained(Parent(j))
<1>1. Parent(j) \in Nat /\ Parent(j) < j
  BY ParentBefore
<1>2. j \in Chained(j)
  <2>1. {j} \in SUBSET (j .. j) /\ j \in 1 .. j /\ \A c \in {j} \ {j} : Parent(c) \in {j}
    OBVIOUS
  <2> QED
    BY <2>1 DEF Chained
<1>3. ASSUME NEW k \in Chained(Parent(j))
      PROVE  k \in Chained(j)
  <2>1. PICK C \in SUBSET (k .. Parent(j)) :
           Parent(j) \in C /\ k \in C /\ \A c \in C \ {k} : Parent(c) \in C
    BY <1>3 DEF Chained
  <2>2. k \in 1 .. Parent(j)
    BY DEF Chained
  <2>3. C \cup {j} \in SUBSET (k .. j) /\ k \in 1 .. j
    BY <1>1, <2>1, <2>2
  <2>4. \A c \in (C \cup {j}) \ {k} : Parent(c) \in C \cup {j}
    BY <2>1
  <2> QED
    BY <2>1, <2>3, <2>4 DEF Chained
<1>4. ASSUME NEW k \in Chained(j), k # j
      PROVE  k \in Chained(Parent(j))
  <2>1. PICK C \in SUBSET (k .. j) : j \in C /\ k \in C /\ \A c \in C \ {k} : Parent(c) \in C
    BY <1>4 DEF Chained
  <2>2. k \in 1 .. j
    BY DEF Chained
  <2>3. Parent(j) \in C
    BY <1>4, <2>1
  <2>4. k <= Parent(j) /\ k \in 1 .. Parent(j)
    BY <1>1, <2>1, <2>2, <2>3
  <2> DEFINE B == C \cap (k .. Parent(j))
  <2>5. B \in SUBSET (k .. Parent(j)) /\ Parent(j) \in B /\ k \in B
    BY <1>1, <2>1, <2>2, <2>3, <2>4
  <2>6. ASSUME NEW c \in B \ {k}
        PROVE  Parent(c) \in B
    <3>1. Parent(c) \in C /\ c \in Nat /\ c <= Parent(j) /\ c > 0
      BY <1>1, <2>1, <2>2
    <3>2. Parent(c) \in Nat /\ Parent(c) < c
      BY <3>1, ParentBefore
    <3>3. Parent(c) \in k .. j
      BY <2>1, <3>1
    <3> QED
      BY <1>1, <2>2, <3>1, <3>2, <3>3
  <2> HIDE DEF B
  <2> QED
    BY <2>4, <2>5, <2>6 DEF Chained
<1> QED
  BY <1>2, <1>3, <1>4

\* Ancestors is what its recursive definition says.
LEMMA AncestorsRec ==
    /\ Ancestors(0) = {}
    /\ \A i \in Nat \ {0} : Ancestors(i) = {i} \cup Ancestors(Parent(i))
<1> DEFINE up[j \in Nat] == IF j = 0 THEN {} ELSE {j} \cup up[Parent(j)]
           f == [j \in Nat |-> Chained(j)]
<1>1. f = [j \in Nat |-> IF j = 0 THEN {} ELSE {j} \cup f[Parent(j)]]
  <2>1. Chained(0) = {}
    BY DEF Chained
  <2>2. \A j \in Nat : j # 0 => Parent(j) \in Nat
    BY ParentBefore
  <2>3. \A j \in Nat : j # 0 => Chained(j) = {j} \cup Chained(Parent(j))
    BY ChainedStep
  <2> QED
    BY <2>1, <2>2, <2>3
<1>2. up = [j \in Nat |-> IF j = 0 THEN {} ELSE {j} \cup up[Parent(j)]]
  <2> HIDE DEF f
  <2> QED
    BY <1>1
<1>3. \A i : Ancestors(i) = up[i]
  BY DEF Ancestors
<1> HIDE DEF up
<1>4. \A i \in Nat \ {0} : up[i] = {i} \cup up[Parent(i)]
  BY <1>2
<1>5. up[0] = {}
  BY <1>2
<1> QED
  BY <1>3, <1>4, <1>5

\* What the proofs need of the ancestors of a node: they are a chain in which
\* each node but the last is the parent of the next.
IsChain(i) ==
    /\ Ancestors(i) \in SUBSET (1 .. i) /\ (i > 0 => i \in Ancestors(i))
    /\ \A k \in Ancestors(i) : k > 1 => Parent(k) \in Ancestors(i)
    /\ \A k, m \in Ancestors(i) : k < m => k <= Parent(m)
    /\ \A k \in Ancestors(i) : k # i => \E m \in Ancestors(i) : m > k /\ Parent(m) = k
    /\ \A k \in Ancestors(i) : Ancestors(k) \in SUBSET Ancestors(i)

\* The ancestors of a node are the way up to the root.
LEMMA AncestorsAreChain ==
    \A i \in Nat : IsChain(i)
<1> DEFINE T == {i \in Nat : ~ IsChain(i)}
<1>1. SUFFICES ASSUME T # {}
               PROVE  FALSE
  OBVIOUS
<1>2. PICK i \in T : \A y \in T : i <= y
  <2> HIDE DEF T
  <2>1. T \in SUBSET Nat
    BY DEF T
  <2> QED
    BY <1>1, <2>1, LeastOf
<1>3. i \in Nat /\ ~ IsChain(i) /\ \A y \in Nat : y < i => IsChain(y)
  BY <1>2
<1> HIDE DEF T
<1>4. CASE i = 0
  <2>1. Ancestors(i) = {}
    BY <1>4, AncestorsRec
  <2> QED
    BY <1>3, <1>4, <2>1 DEF IsChain
<1>5. CASE i # 0
  <2> DEFINE p == Parent(i)
             A == Ancestors(i)
             B == Ancestors(p)
  <2>1. p \in Nat /\ p < i /\ (i > 1 => p >= 1)
    BY <1>3, <1>5, ParentBefore
  <2>2. A = {i} \cup B
    BY <1>3, <1>5, AncestorsRec
  <2>3. IsChain(p)
    BY <1>3, <2>1
  <2>4. B \in SUBSET (1 .. p) /\ (p > 0 => p \in B)
    BY <2>3 DEF IsChain
  <2>5. A \in SUBSET (1 .. i) /\ i \in A
    BY <1>3, <1>5, <2>1, <2>2, <2>4
  <2>6. \A k \in A : k > 1 => Parent(k) \in A
    <3>1. \A k \in B : k > 1 => Parent(k) \in B
      BY <2>3 DEF IsChain
    <3>2. i > 1 => p \in B
      BY <2>1, <2>4
    <3> QED
      BY <2>2, <3>1, <3>2
  <2>7. \A k, m \in A : k < m => k <= Parent(m)
    <3>1. \A k, m \in B : k < m => k <= Parent(m)
      BY <2>3 DEF IsChain
    <3>2. \A k \in B : k <= p
      BY <2>1, <2>4
    <3>3. \A m \in A : m <= i
      BY <2>5, <1>3
    <3> QED
      BY <1>3, <2>1, <2>2, <2>4, <2>5, <3>1, <3>2, <3>3
  <2>8. ASSUME NEW k \in A, k # i
        PROVE  \E m \in A : m > k /\ Parent(m) = k
    <3>1. k \in B
      BY <2>2, <2>8
    <3>2. CASE k = p
      BY <2>1, <2>5, <3>2
    <3>3. CASE k # p
      <4>1. PICK m \in B : m > k /\ Parent(m) = k
        BY <2>3, <3>1, <3>3 DEF IsChain
      <4> QED
        BY <2>2, <4>1
    <3> QED
      BY <3>2, <3>3
  <2>9. \A k \in A : Ancestors(k) \in SUBSET A
    <3>1. \A k \in B : Ancestors(k) \in SUBSET B
      BY <2>3 DEF IsChain
    <3> QED
      BY <2>2, <3>1
  <2> QED
    BY <1>3, <2>5, <2>6, <2>7, <2>8, <2>9 DEF IsChain
<1> QED
  BY <1>4, <1>5

\* The facts about a way up that the proofs cite
LEMMA ChainFacts ==
    ASSUME NEW i \in Nat \ {0}
    PROVE  /\ \A k \in Ancestors(i) : k \in Nat /\ 1 <= k /\ k <= i
           /\ i \in Ancestors(i)
           /\ \A k \in Ancestors(i) : k > 1 => Parent(k) \in Ancestors(i)
           /\ \A k, m \in Ancestors(i) : k < m => k <= Parent(m)
           /\ \A k, m \in Ancestors(i) : k > 1 /\ m > 1 /\ Parent(k) = Parent(m) => k = m
           /\ \A k \in Ancestors(i) : k # i => \E m \in Ancestors(i) : m > k /\ Parent(m) = k
           /\ Ancestors(i) = {i} \cup Ancestors(Parent(i))
<1>1. IsChain(i)
  BY AncestorsAreChain
<1>2. \A k \in Ancestors(i) : k \in Nat /\ 1 <= k /\ k <= i
  BY <1>1 DEF IsChain
<1>3. \A k, m \in Ancestors(i) : k < m => k <= Parent(m)
  BY <1>1 DEF IsChain
<1>4. \A k, m \in Ancestors(i) : k > 1 /\ m > 1 /\ Parent(k) = Parent(m) => k = m
  <2>1. ASSUME NEW k \in Ancestors(i), NEW m \in Ancestors(i), k > 1, m > 1, Parent(k) = Parent(m)
        PROVE  k = m
    <3>1. k \in Nat /\ m \in Nat
      BY <1>2
    <3>2. Parent(k) \in Nat /\ Parent(m) \in Nat /\ Parent(k) < k /\ Parent(m) < m
      BY <2>1, <3>1, ParentBefore
    <3>3. ~ (k < m) /\ ~ (m < k)
      BY <1>3, <2>1, <3>1, <3>2
    <3> QED
      BY <3>1, <3>3
  <2> QED
    BY <2>1
<1> QED
  BY <1>1, <1>2, <1>3, <1>4, AncestorsRec DEF IsChain

-----------------------------------------------------------------------------
\* Places: a way up or down ends at the first node of a set S

\* The function of tmevt_up exists, and leads to the first node of S.
LEMMA UpLoopExists ==
    ASSUME NEW i \in Nat \ {0}, NEW S, 1 \in S
    PROVE  \E f : f = [j \in 1 .. i |-> IF j \in S THEN j ELSE f[Parent(j)]]
<1> DEFINE T(j) == {a \in Ancestors(j) : a \in S}
           g == [j \in 1 .. i |-> CHOOSE a \in T(j) : \A b \in T(j) : b <= a]
<1>1. ASSUME NEW j \in 1 .. i
      PROVE  g[j] = IF j \in S THEN j ELSE g[Parent(j)]
  <2>1. j \in Nat \ {0}
    OBVIOUS
  <2>2. \A k \in Ancestors(j) : k \in Nat /\ k <= j
    BY <2>1, ChainFacts
  <2>3. j \in Ancestors(j) /\ Ancestors(j) = {j} \cup Ancestors(Parent(j))
    BY <2>1, ChainFacts
  <2>4. CASE j \in S
    <3>1. j \in T(j) /\ \A b \in T(j) : b <= j
      BY <2>2, <2>3, <2>4
    <3>2. \A a \in T(j) : (\A b \in T(j) : b <= a) => a = j
      BY <2>2, <3>1
    <3> QED
      BY <2>4, <3>1, <3>2
  <2>5. CASE j \notin S
    <3>1. T(j) = T(Parent(j))
      BY <2>3, <2>5
    <3>2. j > 1 /\ j \in Nat
      BY <2>5
    <3>3. Parent(j) \in Nat /\ Parent(j) < j /\ 1 <= Parent(j)
      BY <3>2 DEF Parent
    <3>4. Parent(j) \in 1 .. i
      BY <3>3
    <3> QED
      BY <2>5, <3>1, <3>4
  <2> QED
    BY <2>4, <2>5
<1>2. g = [j \in 1 .. i |-> g[j]]
  OBVIOUS
<1> HIDE DEF g
<1>3. [j \in 1 .. i |-> g[j]] = [j \in 1 .. i |-> IF j \in S THEN j ELSE g[Parent(j)]]
  BY <1>1
<1>4. g = [j \in 1 .. i |-> IF j \in S THEN j ELSE g[Parent(j)]]
  BY <1>2, <1>3
<1> QED
  BY <1>4

LEMMA UpLoopResult ==
    ASSUME NEW i \in Nat \ {0}, NEW S, 1 \in S,
           NEW f, f = [j \in 1 .. i |-> IF j \in S THEN j ELSE f[Parent(j)]]
    PROVE  \A j \in 1 .. i : /\ f[j] \in Ancestors(j) /\ f[j] \in S
                             /\ \A k \in Ancestors(j) : k > f[j] => k \notin S
<1> DEFINE OK(j) == /\ f[j] \in Ancestors(j) /\ f[j] \in S
                    /\ \A k \in Ancestors(j) : k > f[j] => k \notin S
           T == {j \in 1 .. i : ~ OK(j)}
<1>1. SUFFICES ASSUME T # {}
               PROVE  FALSE
  OBVIOUS
<1>2. PICK j \in T : \A y \in T : j <= y
  <2> HIDE DEF T
  <2>1. T \in SUBSET Nat
    BY DEF T
  <2> QED
    BY <1>1, <2>1, LeastOf
<1>3. j \in 1 .. i /\ ~ OK(j) /\ \A y \in 1 .. i : y < j => OK(y)
  BY <1>2
<1> HIDE DEF T
<1>4. j \in Nat \ {0}
  BY <1>3
<1>5. j \in Ancestors(j) /\ Ancestors(j) = {j} \cup Ancestors(Parent(j))
      /\ \A k \in Ancestors(j) : k \in Nat /\ k <= j
  BY <1>4, ChainFacts
<1>6. f[j] = IF j \in S THEN j ELSE f[Parent(j)]
  BY <1>3
<1>7. CASE j \in S
  BY <1>3, <1>5, <1>6, <1>7
<1>8. CASE j \notin S
  <2>1. j > 1
    BY <1>4, <1>8
  <2>2. Parent(j) \in 1 .. i /\ Parent(j) < j
    BY <1>3, <1>4, <2>1, ParentBefore
  <2>3. OK(Parent(j))
    BY <1>3, <2>2
  <2>4. f[j] = f[Parent(j)]
    BY <1>6, <1>8
  <2> QED
    BY <1>3, <1>5, <1>8, <2>3, <2>4
<1> QED
  BY <1>7, <1>8

\* The function of tmevt_down exists, where c is the child it goes to; it leads
\* to a node of S on a way of such children outside S.
DownWay(m, S, c, j) ==
    {a \in 1 .. m : /\ j \in Ancestors(a)
                    /\ \A k \in Ancestors(a) : k > j => k = c[Parent(k)] /\ Parent(k) \notin S}

LEMMA DownWayStep ==
    ASSUME NEW m \in Nat \ {0}, NEW S, NEW c, NEW j \in 1 .. m, j \notin S,
           c[j] \in 1 .. m, Parent(c[j]) = j
    PROVE  /\ DownWay(m, S, c, c[j]) \in SUBSET DownWay(m, S, c, j)
           /\ \A a \in DownWay(m, S, c, j) : a # j => a \in DownWay(m, S, c, c[j])
<1>1. c[j] \in Nat \ {0} /\ c[j] > j
  <2>1. c[j] \in Nat /\ c[j] > 0
    OBVIOUS
  <2>2. Parent(c[j]) < c[j]
    BY <2>1, ParentBefore
  <2> QED
    BY <2>1, <2>2
<1>2. ASSUME NEW a \in DownWay(m, S, c, c[j])
      PROVE  a \in DownWay(m, S, c, j)
  <2>1. a \in 1 .. m /\ c[j] \in Ancestors(a) /\ a \in Nat \ {0}
    BY DEF DownWay
  <2>2. j \in Ancestors(a)
    <3>1. c[j] > 1
      BY <1>1
    <3> QED
      BY <2>1, <3>1, ChainFacts
  <2>3. ASSUME NEW k \in Ancestors(a), k > j
        PROVE  k = c[Parent(k)] /\ Parent(k) \notin S
    <3>1. CASE k = c[j]
      BY <3>1
    <3>2. CASE k > c[j]
      BY <1>2, <3>2 DEF DownWay
    <3>3. ~ (k < c[j])
      <4>1. k < c[j] => k <= Parent(c[j])
        BY <2>1, ChainFacts
      <4>2. k \in Nat
        BY <2>1, ChainFacts
      <4> QED
        BY <2>3, <4>1, <4>2
    <3>4. k \in Nat
      BY <2>1, ChainFacts
    <3> QED
      BY <1>1, <3>1, <3>2, <3>3, <3>4
  <2> QED
    BY <2>1, <2>2, <2>3 DEF DownWay
<1>3. ASSUME NEW a \in DownWay(m, S, c, j), a # j
      PROVE  a \in DownWay(m, S, c, c[j])
  <2>1. a \in 1 .. m /\ j \in Ancestors(a) /\ a \in Nat \ {0}
    BY DEF DownWay
  <2>2. PICK k \in Ancestors(a) : k > j /\ Parent(k) = j
    BY <1>3, <2>1, ChainFacts
  <2>3. k = c[j]
    BY <2>2 DEF DownWay
  <2>4. \A b \in Ancestors(a) : b > c[j] => b > j
    <3>1. \A b \in Ancestors(a) : b \in Nat
      BY <2>1, ChainFacts
    <3> QED
      BY <1>1, <3>1
  <2> QED
    BY <2>1, <2>2, <2>3, <2>4 DEF DownWay
<1> QED
  BY <1>2, <1>3

LEMMA DownWayEnd ==
    ASSUME NEW m \in Nat \ {0}, NEW S, NEW c, NEW j \in 1 .. m
    PROVE  /\ j \in DownWay(m, S, c, j)
           /\ j \in S => \A a \in DownWay(m, S, c, j) : a = j
<1>1. j \in Nat \ {0}
  OBVIOUS
<1>2. j \in DownWay(m, S, c, j)
  <2>1. j \in Ancestors(j) /\ \A k \in Ancestors(j) : ~ (k > j)
    BY <1>1, ChainFacts
  <2> QED
    BY <2>1 DEF DownWay
<1>3. ASSUME j \in S, NEW a \in DownWay(m, S, c, j), a # j
      PROVE  FALSE
  <2>1. a \in 1 .. m /\ j \in Ancestors(a) /\ a \in Nat \ {0}
    BY DEF DownWay
  <2>2. PICK k \in Ancestors(a) : k > j /\ Parent(k) = j
    BY <1>3, <2>1, ChainFacts
  <2> QED
    BY <1>3, <2>2 DEF DownWay
<1> QED
  BY <1>2, <1>3

\* Outside S, c goes to a child; f is the function of tmevt_down.
GoesToChildren(m, S, c) == \A j \in 1 .. m : j \notin S => c[j] \in 1 .. m /\ Parent(c[j]) = j
IsDownLoop(f, m, S, c) == f = [j \in 1 .. m |-> IF j \in S THEN j ELSE f[c[j]]]

\* The function of tmevt_down exists.
LEMMA DownLoopExists ==
    ASSUME NEW m \in Nat \ {0}, NEW S, NEW c, GoesToChildren(m, S, c)
    PROVE  \E f : IsDownLoop(f, m, S, c)
<1> DEFINE D(j) == {a \in DownWay(m, S, c, j) : a \in S}
           g == [j \in 1 .. m |-> CHOOSE a \in D(j) : TRUE]
<1> SUFFICES IsDownLoop(g, m, S, c)
  <2> HIDE DEF g
  <2> QED
    OBVIOUS
<1> SUFFICES ASSUME NEW j \in 1 .. m
             PROVE  g[j] = IF j \in S THEN j ELSE g[c[j]]
  BY DEF IsDownLoop
<1>1. CASE j \in S
  <2>1. j \in D(j) /\ \A a \in D(j) : a = j
    BY <1>1, DownWayEnd
  <2> HIDE DEF D
  <2> QED
    BY <1>1, <2>1
<1>2. CASE j \notin S
  <2>1. c[j] \in 1 .. m /\ Parent(c[j]) = j
    BY <1>2 DEF GoesToChildren
  <2>2. D(j) = D(c[j])
    BY <1>2, <2>1, DownWayStep
  <2> HIDE DEF D
  <2> QED
    BY <1>2, <2>1, <2>2
<1> QED
  BY <1>1, <1>2

\* It leads to a node of S.
LEMMA DownLoopResult ==
    ASSUME NEW m \in Nat \ {0}, NEW S, NEW c, GoesToChildren(m, S, c),
           NEW f, IsDownLoop(f, m, S, c)
    PROVE  \A j \in 1 .. m : f[j] \in DownWay(m, S, c, j) /\ f[j] \in S
<1> DEFINE OK(j) == f[j] \in DownWay(m, S, c, j) /\ f[j] \in S
           T == {x \in 0 .. m : x < m /\ ~ OK(m - x)}
<1>1. SUFFICES ASSUME NEW j0 \in 1 .. m, ~ OK(j0)
               PROVE  FALSE
  OBVIOUS
<1>2. PICK x \in T : \A y \in T : x <= y
  <2>1. m - j0 \in T
    <3>1. m - (m - j0) = j0
      OBVIOUS
    <3>2. m - j0 \in 0 .. m /\ m - j0 < m
      OBVIOUS
    <3> HIDE DEF OK
    <3> QED
      BY <1>1, <3>1, <3>2
  <2>2. T \in SUBSET Nat
    OBVIOUS
  <2> HIDE DEF T
  <2> QED
    BY <2>1, <2>2, LeastOf
<1> DEFINE j == m - x
<1>3. j \in 1 .. m /\ ~ OK(j)
  OBVIOUS
<1>4. \A z \in 1 .. m : z > j => OK(z)
  <2> SUFFICES ASSUME NEW z \in 1 .. m, z > j, ~ OK(z)
               PROVE  FALSE
    OBVIOUS
  <2>1. m - z \in 0 .. m /\ m - z < m /\ m - (m - z) = z /\ m - z < x
    OBVIOUS
  <2>2. m - z \in T
    <3> HIDE DEF OK, j
    <3> QED
      BY <2>1
  <2>3. x \in Nat /\ x <= m - z
    <3>1. x \in Nat
      OBVIOUS
    <3> HIDE DEF T
    <3> QED
      BY <1>2, <2>2, <3>1
  <2> HIDE DEF T, OK, j
  <2> QED
    BY <2>1, <2>3
<1> HIDE DEF T, j
<1>5. f[j] = IF j \in S THEN j ELSE f[c[j]]
  BY <1>3 DEF IsDownLoop
<1>6. CASE j \in S
  BY <1>3, <1>5, <1>6, DownWayEnd
<1>7. CASE j \notin S
  <2>1. c[j] \in 1 .. m /\ Parent(c[j]) = j
    BY <1>3, <1>7 DEF GoesToChildren
  <2>2. c[j] > j
    <3>1. Parent(c[j]) < c[j]
      BY <2>1 DEF Parent
    <3> QED
      BY <2>1, <3>1
  <2>3. OK(c[j])
    BY <1>4, <2>1, <2>2
  <2> QED
    BY <1>3, <1>5, <1>7, <2>1, <2>3, DownWayStep
<1> QED
  BY <1>6, <1>7

-----------------------------------------------------------------------------
\* The order of the heap, for the numbers K that LE compares

\* Facts about a way from q up to one of its ancestors
LEMMA PathFacts ==
    ASSUME NEW q \in Nat \ {0}, NEW to \in Ancestors(q)
    PROVE  /\ to \in Nat /\ 1 <= to /\ to <= q /\ to \in Path(q, to) /\ q \in Path(q, to)
           /\ \A k \in Path(q, to) : k \in Ancestors(q) /\ k \in Nat /\ to <= k /\ k <= q
           /\ \A k \in Path(q, to) : k # to =>
                /\ k > to /\ k > 1 /\ Parent(k) \in Path(q, to)
                /\ Parent(k) \in Nat /\ Parent(k) < k /\ 1 <= Parent(k)
           /\ \A k \in Path(q, to) : k # q => \E b \in Path(q, to) : b > k /\ Parent(b) = k
           /\ \A k, b \in Path(q, to) : k > 1 /\ b > 1 /\ Parent(k) = Parent(b) => k = b
<1>1. \A k \in Ancestors(q) : k \in Nat /\ 1 <= k /\ k <= q
  BY ChainFacts
<1>2. to \in Nat /\ 1 <= to /\ to <= q /\ to \in Path(q, to)
  BY <1>1 DEF Path
<1>3. q \in Path(q, to)
  BY <1>1, ChainFacts DEF Path
<1>4. \A k \in Path(q, to) : k \in Ancestors(q) /\ k \in Nat /\ to <= k /\ k <= q
  BY <1>1 DEF Path
<1>5. ASSUME NEW k \in Path(q, to), k # to
      PROVE  /\ k > to /\ k > 1 /\ Parent(k) \in Path(q, to)
             /\ Parent(k) \in Nat /\ Parent(k) < k /\ 1 <= Parent(k)
  <2>1. k \in Nat /\ k > to /\ k > 1 /\ k \in Ancestors(q)
    BY <1>2, <1>4, <1>5
  <2>2. Parent(k) \in Nat /\ Parent(k) < k /\ 1 <= Parent(k)
    BY <2>1 DEF Parent
  <2>3. Parent(k) \in Ancestors(q) /\ to <= Parent(k)
    BY <2>1, ChainFacts
  <2> QED
    BY <2>1, <2>2, <2>3 DEF Path
<1>6. ASSUME NEW k \in Path(q, to), k # q
      PROVE  \E b \in Path(q, to) : b > k /\ Parent(b) = k
  <2>1. k \in Ancestors(q) /\ k \in Nat /\ to <= k
    BY <1>4
  <2>2. PICK b \in Ancestors(q) : b > k /\ Parent(b) = k
    BY <1>6, <2>1, ChainFacts
  <2>3. b \in Path(q, to)
    BY <1>1, <1>2, <2>1, <2>2 DEF Path
  <2> QED
    BY <2>2, <2>3
<1>7. \A k, b \in Path(q, to) : k > 1 /\ b > 1 /\ Parent(k) = Parent(b) => k = b
  BY <1>4, ChainFacts
<1> QED
  BY <1>2, <1>3, <1>4, <1>5, <1>6, <1>7

\* When the nodes above q move down as far as they are later than x, and x takes
\* the place that becomes free, the heap is in order again.
LEMMA UpKeepsOrder ==
    ASSUME NEW m \in Nat, NEW n \in Nat, NEW q \in 1 .. n, NEW to \in Ancestors(q), n <= m + 1,
           NEW K, NEW V, NEW x \in Int, \A j \in 1 .. m : K[j] \in Int,
           \A j \in 1 .. m : j > 1 => K[Parent(j)] <= K[j],
           \A j \in 1 .. n : j \notin Path(q, to) => j <= m,
           to > 1 => K[Parent(to)] <= x,
           \A k \in Ancestors(q) : k > to => x < K[Parent(k)],
           to = q => \A j \in 1 .. n : Parent(j) # q,
           \A j \in 1 .. n : V[j] = IF j = to THEN x
                                    ELSE IF j \in Path(q, to) THEN K[Parent(j)] ELSE K[j]
    PROVE  \A j \in 1 .. n : j > 1 => V[Parent(j)] <= V[j]
<1> DEFINE P == Path(q, to)
<1>0. q \in Nat \ {0}
  OBVIOUS
<1>1. /\ to \in Nat /\ 1 <= to /\ to <= q /\ to \in P /\ q \in P
      /\ \A k \in P : k \in Ancestors(q) /\ k \in Nat /\ to <= k /\ k <= q
      /\ \A k \in P : k # to =>
           /\ k > to /\ k > 1 /\ Parent(k) \in P
           /\ Parent(k) \in Nat /\ Parent(k) < k /\ 1 <= Parent(k)
      /\ \A k \in P : k # q => \E b \in P : b > k /\ Parent(b) = k
  BY <1>0, PathFacts
<1> HIDE DEF P
<1>2. \A j \in 1 .. n : V[j] = IF j = to THEN x ELSE IF j \in P THEN K[Parent(j)] ELSE K[j]
  BY DEF P
<1>3. \A j \in 1 .. n : j \notin P => j \in 1 .. m
  BY DEF P
<1>4. \A k \in P : k # to => x < K[Parent(k)]
  BY <1>1
<1> SUFFICES ASSUME NEW j \in 1 .. n, j > 1
             PROVE  V[Parent(j)] <= V[j]
  OBVIOUS
<1> DEFINE p == Parent(j)
<1>5. p \in 1 .. n /\ p < j /\ p \in 1 .. m /\ p \in Nat
  BY DEF Parent
<1>6. V[p] = IF p = to THEN x ELSE IF p \in P THEN K[Parent(p)] ELSE K[p]
  BY <1>2, <1>5
<1>7. V[j] = IF j = to THEN x ELSE IF j \in P THEN K[p] ELSE K[j]
  BY <1>2
<1>8. CASE j = to
  <2>1. p \notin P
    BY <1>1, <1>5, <1>8
  <2> QED
    BY <1>1, <1>6, <1>7, <1>8, <2>1
<1>9. CASE j \in P /\ j # to
  <2>1. p \in P /\ x < K[p]
    BY <1>1, <1>4, <1>9
  <2>2. CASE p = to
    BY <1>5, <1>6, <1>7, <1>9, <2>1, <2>2
  <2>3. CASE p # to
    <3>1. p > 1
      BY <1>1, <2>1, <2>3
    <3>2. K[Parent(p)] <= K[p]
      BY <1>5, <3>1
    <3> QED
      BY <1>6, <1>7, <1>9, <2>1, <2>3, <3>2
  <2> QED
    BY <2>2, <2>3
<1>10. CASE j \notin P
  <2>1. j \in 1 .. m /\ K[p] <= K[j] /\ V[j] = K[j]
    BY <1>1, <1>3, <1>7, <1>10
  <2>2. CASE p = to
    <3>1. p # q
      BY <2>2
    <3>2. PICK b \in P : b > p /\ Parent(b) = p
      BY <1>1, <2>2, <3>1
    <3>3. x < K[p]
      BY <1>4, <2>2, <3>2, <1>5
    <3>4. V[p] = x
      BY <1>6, <2>2
    <3>5. x \in Int /\ K[p] \in Int /\ K[j] \in Int
      BY <1>5, <2>1
    <3> QED
      BY <2>1, <3>3, <3>4, <3>5
  <2>3. CASE p \in P /\ p # to
    <3>1. p > 1
      BY <1>1, <2>3
    <3>2. K[Parent(p)] <= K[p]
      BY <1>5, <3>1
    <3>3. Parent(p) \in 1 .. m
      BY <1>5, <3>1 DEF Parent
    <3>4. K[Parent(p)] \in Int /\ K[p] \in Int /\ K[j] \in Int
      BY <1>5, <2>1, <3>3
    <3>5. V[p] = K[Parent(p)]
      BY <1>6, <2>3
    <3> QED
      BY <2>1, <3>2, <3>4, <3>5
  <2>4. CASE p \notin P
    BY <1>1, <1>6, <2>1, <2>4
  <2> QED
    BY <2>2, <2>3, <2>4
<1> QED
  BY <1>8, <1>9, <1>10

\* When the nodes below i move up, at each node the earlier of the two children,
\* as far as they are earlier than x, the heap is in order again.
LEMMA DownKeepsOrder ==
    ASSUME NEW n \in Nat, NEW to \in 1 .. n, NEW i \in Ancestors(to),
           NEW K, NEW V, NEW x \in Int, \A j \in 1 .. n : K[j] \in Int,
           \A j \in 1 .. n : j > 1 => K[Parent(j)] <= K[j],
           i > 1 => K[Parent(i)] <= x,
           \A j \in 1 .. n : Parent(j) = to => x <= K[j],
           \A k \in Ancestors(to) : k > i =>
              K[k] < x /\ \A j \in 1 .. n : Parent(j) = Parent(k) => K[k] <= K[j],
           \A k \in Path(to, i) : k # i => V[Parent(k)] = K[k],
           V[to] = x, \A j \in 1 .. n : j \notin Path(to, i) => V[j] = K[j]
    PROVE  \A j \in 1 .. n : j > 1 => V[Parent(j)] <= V[j]
<1> DEFINE P == Path(to, i)
<1>0. to \in Nat \ {0}
  OBVIOUS
<1>1. /\ i \in Nat /\ 1 <= i /\ i <= to /\ i \in P /\ to \in P
      /\ \A k \in P : k \in Ancestors(to) /\ k \in Nat /\ i <= k /\ k <= to
      /\ \A k \in P : k # i =>
           /\ k > i /\ k > 1 /\ Parent(k) \in P
           /\ Parent(k) \in Nat /\ Parent(k) < k /\ 1 <= Parent(k)
      /\ \A k \in P : k # to => \E b \in P : b > k /\ Parent(b) = k
  BY <1>0, PathFacts
<1> HIDE DEF P
<1>2. \A k \in P : k # i => V[Parent(k)] = K[k]
  BY DEF P
<1>3. \A j \in 1 .. n : j \notin P => V[j] = K[j]
  BY DEF P
<1>4. \A k \in P : k # i => K[k] < x /\ \A j \in 1 .. n : Parent(j) = Parent(k) => K[k] <= K[j]
  BY <1>1
<1>5. \A k \in P : k \in 1 .. n
  BY <1>1
\* The node that moves up to a node of the way
<1>6. \A k \in P : k # to => \E b \in P : b # i /\ b > k /\ Parent(b) = k /\ V[k] = K[b] /\ b \in 1 .. n
  BY <1>1, <1>2, <1>5
<1> SUFFICES ASSUME NEW j \in 1 .. n, j > 1
             PROVE  V[Parent(j)] <= V[j]
  OBVIOUS
<1> DEFINE p == Parent(j)
<1>7. p \in 1 .. n /\ p < j /\ p \in Nat
  BY DEF Parent
<1>8. K[p] <= K[j] /\ K[p] \in Int /\ K[j] \in Int
  BY <1>7
<1>9. CASE j = to
  <2>1. CASE to = i
    <3>1. p \notin P
      BY <1>1, <1>7, <1>9, <2>1
    <3> QED
      BY <1>3, <1>7, <1>9, <2>1, <3>1
  <2>2. CASE to # i
    BY <1>1, <1>2, <1>4, <1>8, <1>9, <2>2
  <2> QED
    BY <2>1, <2>2
<1>10. CASE j \in P /\ j # to
  <2>1. PICK b \in P : b # i /\ b > j /\ Parent(b) = j /\ V[j] = K[b] /\ b \in 1 .. n
    BY <1>6, <1>10
  <2>2. K[j] <= K[b] /\ K[b] \in Int
    BY <2>1
  <2>3. CASE j = i
    <3>1. p \notin P
      BY <1>1, <1>7, <2>3
    <3>2. V[p] = K[p]
      BY <1>3, <1>7, <3>1
    <3> QED
      BY <1>8, <2>1, <2>2, <3>2
  <2>4. CASE j # i
    <3>1. V[p] = K[j]
      BY <1>2, <1>10, <2>4
    <3> QED
      BY <2>1, <2>2, <3>1
  <2> QED
    BY <2>3, <2>4
<1>11. CASE j \notin P
  <2>1. V[j] = K[j]
    BY <1>3, <1>11
  <2>2. CASE p = to
    BY <2>1, <2>2
  <2>3. CASE p \in P /\ p # to
    <3>1. PICK b \in P : b # i /\ b > p /\ Parent(b) = p /\ V[p] = K[b] /\ b \in 1 .. n
      BY <1>6, <2>3
    <3>2. K[b] <= K[j]
      BY <1>4, <3>1
    <3> QED
      BY <2>1, <3>1, <3>2
  <2>4. CASE p \notin P
    BY <1>3, <1>7, <1>8, <2>1, <2>4
  <2> QED
    BY <2>2, <2>3, <2>4
<1> QED
  BY <1>9, <1>10, <1>11

-----------------------------------------------------------------------------
\* The places that tmevt_up and tmevt_down find

\* tmevt_up stops at the first node whose parent is not later.
LEMMA UpPlaceIs ==
    ASSUME NEW h, NEW time, NEW i \in Nat \ {0}
    PROVE  /\ UpPlace(h, i, time) \in Ancestors(i)
           /\ UpPlace(h, i, time) > 1 => LE(h[Parent(UpPlace(h, i, time))].time, time)
           /\ \A k \in Ancestors(i) : k > UpPlace(h, i, time) => ~ LE(h[Parent(k)].time, time)
<1> DEFINE place[j \in 1 .. i] ==
               IF j = 1 \/ LE(h[Parent(j)].time, time) THEN j ELSE place[Parent(j)]
           S == {j \in 1 .. i : j = 1 \/ LE(h[Parent(j)].time, time)}
<1>1. 1 \in S /\ \A j \in 1 .. i : j \in S <=> (j = 1 \/ LE(h[Parent(j)].time, time))
  OBVIOUS
<1>2. place[i] = UpPlace(h, i, time)
  BY DEF UpPlace
<1> HIDE DEF S
<1>3. PICK f : f = [j \in 1 .. i |-> IF j \in S THEN j ELSE f[Parent(j)]]
  BY <1>1, UpLoopExists
<1>4. f = [j \in 1 .. i |-> IF j = 1 \/ LE(h[Parent(j)].time, time) THEN j ELSE f[Parent(j)]]
  BY <1>1, <1>3
<1>5. place = [j \in 1 .. i |-> IF j = 1 \/ LE(h[Parent(j)].time, time) THEN j ELSE place[Parent(j)]]
  BY <1>4
<1> HIDE DEF place
<1>6. place = [j \in 1 .. i |-> IF j \in S THEN j ELSE place[Parent(j)]]
  BY <1>1, <1>5
<1>7. \A j \in 1 .. i : /\ place[j] \in Ancestors(j) /\ place[j] \in S
                        /\ \A k \in Ancestors(j) : k > place[j] => k \notin S
  BY <1>1, <1>6, UpLoopResult
<1>8. i \in 1 .. i
  OBVIOUS
<1>9. /\ place[i] \in Ancestors(i) /\ place[i] \in S
      /\ \A k \in Ancestors(i) : k > place[i] => k \notin S
  BY <1>7, <1>8
<1>10. \A k \in Ancestors(i) : k \in 1 .. i
  BY ChainFacts
<1>11. place[i] > 1 => LE(h[Parent(place[i])].time, time)
  BY <1>1, <1>9, <1>10
<1>12. \A k \in Ancestors(i) : k > place[i] => ~ LE(h[Parent(k)].time, time)
  BY <1>1, <1>9, <1>10
<1> QED
  BY <1>2, <1>9, <1>11, <1>12

\* tmevt_down goes to the earlier child as long as that is earlier than the event.
LEMMA DownPlaceIs ==
    ASSUME NEW h, NEW time, NEW n \in Nat, NEW i \in 1 .. n + 1,
           SinceMin(time) \in Int, \A j \in 1 .. n : SinceMin(h[j].time) \in Int
    PROVE  /\ DownPlace(h, n, i, time) \in 1 .. i + n /\ i \in Ancestors(DownPlace(h, n, i, time))
           /\ \A j \in 1 .. n : Parent(j) = DownPlace(h, n, i, time) => LE(time, h[j].time)
           /\ \A k \in Ancestors(DownPlace(h, n, i, time)) : k > i =>
                /\ k <= n /\ LT(h[k].time, time)
                /\ \A j \in 1 .. n : Parent(j) = Parent(k) => LE(h[k].time, h[j].time)
<1> DEFINE child(j) == IF 2 * j + 1 <= n /\ LT(h[2 * j + 1].time, h[2 * j].time)
                       THEN 2 * j + 1 ELSE 2 * j
           place[j \in 1 .. i + n] ==
               IF 2 * j > n \/ LE(time, h[child(j)].time) THEN j ELSE place[child(j)]
           S == {j \in 1 .. i + n : 2 * j > n \/ LE(time, h[child(j)].time)}
           c == [j \in 1 .. i + n |-> child(j)]
           top == i + n
<1>1. \A j \in 1 .. top : j \in S <=> (2 * j > n \/ LE(time, h[child(j)].time))
  OBVIOUS
<1>2. place[i] = DownPlace(h, n, i, time)
  BY DEF DownPlace
<1>3. \A j \in 1 .. top : c[j] = child(j)
  OBVIOUS
<1>4. ASSUME NEW j \in 1 .. top, j \notin S
      PROVE  child(j) \in 1 .. n /\ Parent(child(j)) = j
  <2>1. 2 * j <= n
    BY <1>4
  <2>2. Parent(2 * j) = j /\ Parent(2 * j + 1) = j
    BY DEF Parent
  <2> QED
    BY <2>1, <2>2
<1>5. ASSUME NEW j \in 1 .. top, NEW b \in 1 .. n, Parent(b) = j
      PROVE  2 * j <= n /\ LE(h[child(j)].time, h[b].time) /\ child(j) \in 1 .. n
  <2>1. b = 2 * j \/ b = 2 * j + 1
    BY <1>5 DEF Parent
  <2> QED
    BY <2>1 DEF LE, LT
<1> HIDE DEF S, c
<1>6. top \in Nat \ {0}
  OBVIOUS
<1>7. GoesToChildren(top, S, c)
  BY <1>3, <1>4 DEF GoesToChildren
<1> HIDE DEF child
<1>8. PICK f : IsDownLoop(f, top, S, c)
  <2> HIDE DEF top, place
  <2> QED
    BY <1>6, <1>7, DownLoopExists
<1>9. f = [j \in 1 .. top |-> IF 2 * j > n \/ LE(time, h[child(j)].time) THEN j ELSE f[child(j)]]
  BY <1>1, <1>3, <1>8 DEF IsDownLoop
<1>10. place = [j \in 1 .. top |-> IF 2 * j > n \/ LE(time, h[child(j)].time) THEN j ELSE place[child(j)]]
  BY <1>9
<1> HIDE DEF place
<1>11. IsDownLoop(place, top, S, c)
  BY <1>1, <1>3, <1>10 DEF IsDownLoop
<1>12. \A j \in 1 .. top : place[j] \in DownWay(top, S, c, j) /\ place[j] \in S
  <2> HIDE DEF top
  <2> QED
    BY <1>6, <1>7, <1>11, DownLoopResult
<1> DEFINE to == place[i]
<1>13. to \in DownWay(top, S, c, i) /\ to \in S
  <2>1. i \in 1 .. top
    OBVIOUS
  <2> HIDE DEF top
  <2> QED
    BY <1>12, <2>1
<1> HIDE DEF to
<1>14. /\ to \in 1 .. top /\ i \in Ancestors(to)
       /\ \A k \in Ancestors(to) : k > i => k = c[Parent(k)] /\ Parent(k) \notin S
  BY <1>13 DEF DownWay
<1>15. ASSUME NEW j \in 1 .. n, Parent(j) = to
       PROVE  LE(time, h[j].time)
  <2>1. 2 * to <= n /\ LE(h[child(to)].time, h[j].time) /\ child(to) \in 1 .. n
    BY <1>5, <1>14, <1>15
  <2>2. LE(time, h[child(to)].time)
    BY <1>1, <1>13, <1>14, <2>1
  <2> QED
    BY <2>1, <2>2 DEF LE
<1>16. ASSUME NEW k \in Ancestors(to), k > i
       PROVE  /\ k <= n /\ LT(h[k].time, time)
              /\ \A j \in 1 .. n : Parent(j) = Parent(k) => LE(h[k].time, h[j].time)
  <2>1. k = c[Parent(k)] /\ Parent(k) \notin S
    BY <1>14, <1>16
  <2>2. Parent(k) \in 1 .. top
    <3>1. to \in Nat \ {0} /\ k > 1
      BY <1>14, <1>16
    <3>2. Parent(k) \in Ancestors(to)
      BY <3>1, ChainFacts
    <3>3. Parent(k) \in Nat /\ 1 <= Parent(k) /\ Parent(k) <= to
      BY <3>1, <3>2, ChainFacts
    <3> QED
      BY <1>14, <3>3
  <2>3. k = child(Parent(k)) /\ k \in 1 .. n
    BY <1>3, <1>4, <2>1, <2>2
  <2>4. ~ LE(time, h[k].time)
    BY <1>1, <2>1, <2>2, <2>3
  <2>5. LT(h[k].time, time)
    BY <2>3, <2>4 DEF LE, LT
  <2>6. \A j \in 1 .. n : Parent(j) = Parent(k) => LE(h[k].time, h[j].time)
    BY <1>5, <2>2, <2>3
  <2> QED
    BY <2>3, <2>5, <2>6
<1> QED
  BY <1>2, <1>14, <1>15, <1>16 DEF to

-----------------------------------------------------------------------------
\* Insertion and deletion

Node == [time : EVTTIM, evt : EVT]
NodesOf(h) == {h[i] : i \in DOMAIN h}

\* The heap is in the order of LE, and no event is in it twice.
InOrder(h) == \A i \in 1 .. Len(h) : i > 1 => LE(h[Parent(i)].time, h[i].time)
OnceEach(h) == \A i, j \in 1 .. Len(h) : h[i].evt = h[j].evt => i = j
IsHeap(h) == h \in Seq(Node) /\ InOrder(h) /\ OnceEach(h)

\* What the clock has to be for LE to be an order
ClockTypeOK == MODULUS \in Nat \ {0} /\ min_time \in EVTTIM

LEMMA SinceMinIsNumber ==
    ASSUME ClockTypeOK
    PROVE  \A t \in EVTTIM : t \in Int /\ SinceMin(t) \in EVTTIM /\ SinceMin(t) \in Int
<1> SUFFICES ASSUME NEW t \in EVTTIM
             PROVE  t \in Int /\ SinceMin(t) \in EVTTIM /\ SinceMin(t) \in Int
  OBVIOUS
<1>1. t \in Int /\ min_time \in Int /\ MODULUS \in Nat /\ MODULUS > 0
  BY DEF ClockTypeOK, EVTTIM
<1>2. (t - min_time) % MODULUS \in 0 .. MODULUS - 1
  BY <1>1
<1> QED
  BY <1>1, <1>2 DEF SinceMin, EVTTIM

\* The nodes of a heap
LEMMA HeapNodes ==
    ASSUME NEW h, IsHeap(h)
    PROVE  /\ h \in Seq(Node) /\ Len(h) \in Nat /\ DOMAIN h = 1 .. Len(h)
           /\ \A j \in 1 .. Len(h) : h[j] \in Node /\ h[j].time \in EVTTIM /\ h[j].evt \in EVT
<1>1. h \in Seq(Node)
  BY DEF IsHeap
<1>2. Len(h) \in Nat /\ DOMAIN h = 1 .. Len(h) /\ \A j \in 1 .. Len(h) : h[j] \in Node
  BY <1>1
<1>3. \A a \in Node : a.time \in EVTTIM /\ a.evt \in EVT
  BY DEF Node
<1> QED
  BY <1>1, <1>2, <1>3

\* tmevtb_insert: the heap stays in order, with one more node.
LEMMA WithIsHeap ==
    ASSUME ClockTypeOK, NEW h, IsHeap(h), NEW e \in EVT, ~ InHeap(h, e), NEW time \in EVTTIM
    PROVE  /\ IsHeap(With(h, e, time))
           /\ NodesOf(With(h, e, time)) = NodesOf(h) \cup {[time |-> time, evt |-> e]}
<1> DEFINE n == Len(h) + 1
           to == UpPlace(h, n, time)
           W == [i \in 1 .. n |-> IF i = to THEN [time |-> time, evt |-> e]
                                  ELSE IF i \in Path(n, to) THEN h[Parent(i)] ELSE h[i]]
           K == [j \in 1 .. Len(h) |-> SinceMin(h[j].time)]
           V == [j \in 1 .. n |-> SinceMin(W[j].time)]
           x == SinceMin(time)
           P == Path(n, to)
<1>0. W = With(h, e, time)
  BY DEF With
<1>1. h \in Seq(Node) /\ Len(h) \in Nat /\ DOMAIN h = 1 .. Len(h)
      /\ \A j \in 1 .. Len(h) : h[j] \in Node /\ h[j].time \in EVTTIM /\ h[j].evt \in EVT
  BY HeapNodes
<1>2. n \in Nat \ {0} /\ Len(h) = n - 1
  BY <1>1
<1>3. /\ to \in Ancestors(n)
      /\ to > 1 => LE(h[Parent(to)].time, time)
      /\ \A k \in Ancestors(n) : k > to => ~ LE(h[Parent(k)].time, time)
  BY <1>2, UpPlaceIs
<1> HIDE DEF to
<1>4. /\ to \in Nat /\ 1 <= to /\ to <= n /\ to \in P /\ n \in P
      /\ \A k \in P : k \in Ancestors(n) /\ k \in Nat /\ to <= k /\ k <= n
      /\ \A k \in P : k # to =>
           /\ k > to /\ k > 1 /\ Parent(k) \in P
           /\ Parent(k) \in Nat /\ Parent(k) < k /\ 1 <= Parent(k)
      /\ \A k \in P : k # n => \E b \in P : b > k /\ Parent(b) = k
      /\ \A k, b \in P : k > 1 /\ b > 1 /\ Parent(k) = Parent(b) => k = b
  <2> HIDE DEF n
  <2> QED
    BY <1>2, <1>3, PathFacts
<1> HIDE DEF P, n
<1>5. \A j \in 1 .. n : W[j] = IF j = to THEN [time |-> time, evt |-> e]
                               ELSE IF j \in P THEN h[Parent(j)] ELSE h[j]
  BY DEF P
<1>6. W = [j \in 1 .. n |-> W[j]]
  OBVIOUS
<1> HIDE DEF W
<1>7. ASSUME NEW j \in 1 .. n, j # to
      PROVE  /\ j \in P => Parent(j) \in 1 .. Len(h) /\ W[j] = h[Parent(j)]
             /\ j \notin P => j \in 1 .. Len(h) /\ W[j] = h[j]
  BY <1>2, <1>4, <1>5, <1>7
<1>8. to \in 1 .. n /\ W[to] = [time |-> time, evt |-> e]
  BY <1>2, <1>4, <1>5
<1>9. \A j \in 1 .. n : W[j] \in Node
  BY <1>1, <1>5, <1>7 DEF Node
<1>10. W \in Seq(Node) /\ Len(W) = n /\ DOMAIN W = 1 .. n
  BY <1>2, <1>6, <1>9
<1>11. InOrder(W)
  <2>1. x \in Int /\ \A j \in 1 .. Len(h) : K[j] \in Int
    BY <1>1, SinceMinIsNumber
  <2>2. \A j \in 1 .. Len(h) : j > 1 => K[Parent(j)] <= K[j]
    <3>1. \A j \in 1 .. Len(h) : j > 1 => Parent(j) \in 1 .. Len(h)
      BY <1>1 DEF Parent
    <3> QED
      BY <1>1, <3>1 DEF IsHeap, InOrder, LE
  <2>3. \A j \in 1 .. n : j \notin P => j <= Len(h)
    BY <1>2, <1>4
  <2>4. to > 1 => K[Parent(to)] <= x
    <3>1. to > 1 => Parent(to) \in 1 .. Len(h)
      BY <1>2, <1>4 DEF Parent
    <3> QED
      BY <1>3, <3>1 DEF LE
  <2>5. \A k \in Ancestors(n) : k > to => x < K[Parent(k)]
    <3> SUFFICES ASSUME NEW k \in Ancestors(n), k > to
                 PROVE  x < K[Parent(k)]
      OBVIOUS
    <3>1. k \in Nat /\ 1 <= k /\ k <= n
      BY <1>2, ChainFacts
    <3>2. Parent(k) \in 1 .. Len(h)
      BY <1>2, <1>4, <3>1 DEF Parent
    <3>3. ~ (K[Parent(k)] <= x)
      BY <1>3, <3>2 DEF LE
    <3> QED
      BY <2>1, <3>2, <3>3
  <2>6. to = n => \A j \in 1 .. n : Parent(j) # n
    BY <1>2 DEF Parent
  <2>7. \A j \in 1 .. n : V[j] = IF j = to THEN x ELSE IF j \in P THEN K[Parent(j)] ELSE K[j]
    BY <1>7, <1>8
  <2>8. Len(h) \in Nat /\ n \in Nat /\ n \in 1 .. n /\ n <= Len(h) + 1
    BY <1>1, <1>2
  <2> HIDE DEF K, V, x
  <2>9. \A j \in 1 .. n : j > 1 => V[Parent(j)] <= V[j]
    BY <1>3, <2>1, <2>2, <2>3, <2>4, <2>5, <2>6, <2>7, <2>8, UpKeepsOrder DEF P
  <2>10. \A j \in 1 .. n : j > 1 => Parent(j) \in 1 .. n
    BY <1>2 DEF Parent
  <2>11. \A j \in 1 .. n : V[j] = SinceMin(W[j].time)
    BY DEF V
  <2> QED
    BY <1>10, <2>9, <2>10, <2>11 DEF InOrder, LE
<1>12. OnceEach(W)
  <2> SUFFICES ASSUME NEW i \in 1 .. n, NEW j \in 1 .. n, W[i].evt = W[j].evt, i # j
               PROVE  FALSE
    BY <1>10 DEF OnceEach
  <2>1. \A k \in 1 .. n : k # to => W[k].evt # e
    BY <1>1, <1>7 DEF InHeap
  <2>2. W[to].evt = e
    BY <1>8
  <2>3. i # to /\ j # to
    BY <2>1, <2>2
  <2>4. \A k, b \in 1 .. Len(h) : h[k].evt = h[b].evt => k = b
    BY DEF IsHeap, OnceEach
  <2>5. CASE i \in P /\ j \in P
    BY <1>4, <1>7, <2>3, <2>4, <2>5
  <2>6. CASE i \in P /\ j \notin P
    <3>1. Parent(i) = j
      BY <1>7, <2>3, <2>4, <2>6
    <3> QED
      BY <1>4, <2>3, <2>6, <3>1
  <2>7. CASE i \notin P /\ j \in P
    <3>1. Parent(j) = i
      BY <1>7, <2>3, <2>4, <2>7
    <3> QED
      BY <1>4, <2>3, <2>7, <3>1
  <2>8. CASE i \notin P /\ j \notin P
    BY <1>7, <2>3, <2>4, <2>8
  <2> QED
    BY <2>5, <2>6, <2>7, <2>8
<1>13. NodesOf(W) = NodesOf(h) \cup {[time |-> time, evt |-> e]}
  <2>1. ASSUME NEW j \in 1 .. n
        PROVE  W[j] \in NodesOf(h) \cup {[time |-> time, evt |-> e]}
    BY <1>1, <1>7, <1>8 DEF NodesOf
  <2>2. ASSUME NEW k \in 1 .. Len(h)
        PROVE  \E j \in 1 .. n : W[j] = h[k]
    <3>1. CASE k \in P
      <4>1. k # n
        BY <1>2
      <4>2. PICK b \in P : b > k /\ Parent(b) = k
        BY <1>4, <3>1, <4>1
      <4>3. b # to /\ b \in 1 .. n
        BY <1>2, <1>4, <3>1, <4>2
      <4> QED
        BY <1>7, <4>2, <4>3
    <3>2. CASE k \notin P
      BY <1>2, <1>4, <1>7, <3>2
    <3> QED
      BY <3>1, <3>2
  <2>3. \E j \in 1 .. n : W[j] = [time |-> time, evt |-> e]
    BY <1>8
  <2>4. NodesOf(W) = {W[j] : j \in 1 .. n} /\ NodesOf(h) = {h[k] : k \in 1 .. Len(h)}
    BY <1>1, <1>10 DEF NodesOf
  <2>5. NodesOf(W) \in SUBSET (NodesOf(h) \cup {[time |-> time, evt |-> e]})
    BY <2>1, <2>4
  <2>6. NodesOf(h) \in SUBSET NodesOf(W)
    BY <2>2, <2>4
  <2>7. [time |-> time, evt |-> e] \in NodesOf(W)
    BY <2>3, <2>4
  <2> HIDE DEF K, V, x
  <2> QED
    BY <2>5, <2>6, <2>7
<1> QED
  BY <1>0, <1>10, <1>11, <1>12, <1>13 DEF IsHeap

\* The n nodes of W come from those of h, other than h[i], each from another, and
\* are in order.
ComeFrom(W, n, h, i, src) ==
    /\ W = [j \in 1 .. n |-> W[j]] /\ \A j \in 1 .. n : W[j] = h[src[j]]
    /\ \A j \in 1 .. n : src[j] \in 1 .. n + 1 /\ src[j] # i
    /\ \A j, k \in 1 .. n : src[j] = src[k] => j = k
    /\ \A b \in 1 .. n + 1 : b # i => \E j \in 1 .. n : src[j] = b
    /\ \A j \in 1 .. n : j > 1 => LE(W[Parent(j)].time, W[j].time)

\* Such a W is a heap of all the others.
LEMMA HeapOfOthers ==
    ASSUME NEW h, IsHeap(h), NEW i \in 1 .. Len(h), NEW n, n + 1 = Len(h), n \in Nat,
           NEW W, NEW src, ComeFrom(W, n, h, i, src)
    PROVE  IsHeap(W) /\ NodesOf(W) = NodesOf(h) \ {h[i]}
<1>1. h \in Seq(Node) /\ Len(h) \in Nat /\ DOMAIN h = 1 .. Len(h)
      /\ \A j \in 1 .. Len(h) : h[j] \in Node
  BY HeapNodes
<1>2. n \in Nat /\ Len(h) = n + 1
  OBVIOUS
<1>0. /\ W = [j \in 1 .. n |-> W[j]] /\ \A j \in 1 .. n : W[j] = h[src[j]]
      /\ \A j \in 1 .. n : src[j] \in 1 .. Len(h) /\ src[j] # i
      /\ \A j, k \in 1 .. n : src[j] = src[k] => j = k
      /\ \A b \in 1 .. Len(h) : b # i => \E j \in 1 .. n : src[j] = b
      /\ \A j \in 1 .. n : j > 1 => LE(W[Parent(j)].time, W[j].time)
  BY <1>2 DEF ComeFrom
<1>3. W \in Seq(Node) /\ Len(W) = n /\ DOMAIN W = 1 .. n
  <2>1. \A j \in 1 .. n : W[j] \in Node
    BY <1>0, <1>1
  <2> QED
    BY <1>0, <1>2, <2>1
<1>4. \A j, k \in 1 .. Len(h) : h[j].evt = h[k].evt => j = k
  BY DEF IsHeap, OnceEach
<1>5. OnceEach(W)
  BY <1>0, <1>3, <1>4 DEF OnceEach
<1>6. InOrder(W)
  BY <1>0, <1>3 DEF InOrder
<1>7. NodesOf(W) = {W[j] : j \in 1 .. n} /\ NodesOf(h) = {h[j] : j \in 1 .. Len(h)}
  BY <1>1, <1>3 DEF NodesOf
<1>8. \A j \in 1 .. n : W[j] \in NodesOf(h) /\ W[j] # h[i]
  BY <1>0, <1>4, <1>7
<1>9. \A b \in 1 .. Len(h) : h[b] # h[i] => h[b] \in NodesOf(W)
  BY <1>0, <1>7
<1>10. NodesOf(W) = NodesOf(h) \ {h[i]}
  BY <1>7, <1>8, <1>9
<1> QED
  BY <1>3, <1>5, <1>6, <1>10 DEF IsHeap

\* tmevtb_delete when the last node goes up from the place that becomes free
LEMMA WithoutUp ==
    ASSUME ClockTypeOK, NEW h, IsHeap(h), NEW i \in 1 .. Len(h),
           i > 1, LT(h[Len(h)].time, h[Parent(i)].time)
    PROVE  IsHeap(Without(h, i)) /\ NodesOf(Without(h, i)) = NodesOf(h) \ {h[i]}
<1> DEFINE n == Len(h) - 1
           m == Len(h)
           last == h[n + 1]
           to == UpPlace(h, Parent(i), last.time)
           W == Without(h, i)
           K == [j \in 1 .. m |-> SinceMin(h[j].time)]
           V == [j \in 1 .. n |-> SinceMin(W[j].time)]
           x == SinceMin(last.time)
           P == Path(i, to)
           src == [j \in 1 .. n |-> IF j = to THEN m ELSE IF j \in P THEN Parent(j) ELSE j]
<1>1. h \in Seq(Node) /\ Len(h) \in Nat /\ DOMAIN h = 1 .. Len(h)
      /\ \A j \in 1 .. Len(h) : h[j] \in Node /\ h[j].time \in EVTTIM /\ h[j].evt \in EVT
  BY HeapNodes
<1>2. /\ n \in Nat /\ m \in Nat /\ m = n + 1 /\ m >= 1 /\ last = h[m]
      /\ i \in Nat \ {0} /\ i \in 1 .. m /\ m = Len(h) /\ n = Len(h) - 1
      /\ i <= m /\ 1 <= i /\ i \in Nat
  BY <1>1
<1>3. Parent(i) \in Nat \ {0} /\ Parent(i) < i
  BY <1>2 DEF Parent
<1>4. /\ to \in Ancestors(Parent(i))
      /\ to > 1 => LE(h[Parent(to)].time, last.time)
      /\ \A k \in Ancestors(Parent(i)) : k > to => ~ LE(h[Parent(k)].time, last.time)
  BY <1>3, UpPlaceIs
<1>5. W = [j \in 1 .. n |-> IF j = to THEN last ELSE IF j \in P THEN h[Parent(j)] ELSE h[j]]
  <2>1. i > 1 /\ LT(last.time, h[Parent(i)].time)
    BY <1>2
  <2> QED
    BY <2>1 DEF Without
<1>6. W = [j \in 1 .. n |-> W[j]]
  BY <1>5
<1> HIDE DEF to, W, n, m
<1>25. /\ \A j \in 1 .. m : K[j] = SinceMin(h[j].time)
       /\ \A j \in 1 .. n : V[j] = SinceMin(W[j].time)
       /\ x = SinceMin(last.time)
       /\ \A j \in 1 .. n : src[j] = IF j = to THEN m ELSE IF j \in P THEN Parent(j) ELSE j
  OBVIOUS
<1> HIDE DEF K, V, x, src, last
<1>7. Ancestors(i) = {i} \cup Ancestors(Parent(i)) /\ to < i /\ to \in Ancestors(i)
  <2>1. Ancestors(i) = {i} \cup Ancestors(Parent(i))
    BY <1>2, ChainFacts
  <2>2. to <= Parent(i) /\ to \in Nat
    BY <1>3, <1>4, ChainFacts
  <2> QED
    BY <1>2, <1>3, <1>4, <2>1, <2>2
<1>8. /\ to \in Nat /\ 1 <= to /\ to <= i /\ to \in P /\ i \in P
      /\ \A k \in P : k \in Ancestors(i) /\ k \in Nat /\ to <= k /\ k <= i
      /\ \A k \in P : k # to =>
           /\ k > to /\ k > 1 /\ Parent(k) \in P
           /\ Parent(k) \in Nat /\ Parent(k) < k /\ 1 <= Parent(k)
      /\ \A k \in P : k # i => \E b \in P : b > k /\ Parent(b) = k
      /\ \A k, b \in P : k > 1 /\ b > 1 /\ Parent(k) = Parent(b) => k = b
  BY <1>2, <1>7, PathFacts
<1>9. x \in Int /\ \A j \in 1 .. m : K[j] \in Int
  BY <1>1, <1>2, <1>25, SinceMinIsNumber
<1>10. \A j \in 1 .. m : j > 1 => K[Parent(j)] <= K[j]
  <2>1. \A j \in 1 .. m : j > 1 => Parent(j) \in 1 .. m
    BY <1>2 DEF Parent
  <2> QED
    BY <1>2, <1>25, <2>1 DEF IsHeap, InOrder, LE
<1>11. x < K[Parent(i)] /\ x = K[m]
  <2>1. Parent(i) \in 1 .. m
    BY <1>2, <1>3
  <2> QED
    BY <1>2, <1>25, <2>1 DEF LT
<1>12. i # m /\ i \in 1 .. n
  <2>1. Parent(i) \in 1 .. m
    BY <1>2, <1>3
  <2>3. K[Parent(i)] <= K[i] /\ K[Parent(i)] \in Int /\ K[i] \in Int
    BY <1>2, <1>9, <1>10, <2>1
  <2>2. i # m
    BY <1>9, <1>11, <2>3
  <2> QED
    BY <1>2, <2>2
<1> HIDE DEF P
<1>13. \A j \in 1 .. n : j # to /\ j \in P => Parent(j) \in 1 .. m /\ Parent(j) \in P /\ Parent(j) # m
  BY <1>2, <1>8
<1>14. \A j \in 1 .. n : /\ j = to => src[j] = m /\ W[j] = h[m]
                         /\ j # to /\ j \in P => src[j] = Parent(j) /\ W[j] = h[Parent(j)]
                         /\ j \notin P => src[j] = j /\ W[j] = h[j]
  BY <1>2, <1>5, <1>8, <1>25 DEF P
<1>15. \A j \in 1 .. n : V[j] = IF j = to THEN x ELSE IF j \in P THEN K[Parent(j)] ELSE K[j]
  <2>1. \A j \in 1 .. n : j \in 1 .. m
    BY <1>2
  <2> QED
    BY <1>2, <1>13, <1>14, <1>25, <2>1
<1>16. \A j \in 1 .. n : V[j] = SinceMin(W[j].time)
  BY <1>25
<1>17. to > 1 => K[Parent(to)] <= x
  <2>1. to > 1 => Parent(to) \in 1 .. m
    BY <1>2, <1>8 DEF Parent
  <2> QED
    BY <1>4, <1>25, <2>1 DEF LE
<1>18. \A k \in Ancestors(i) : k > to => x < K[Parent(k)]
  <2> SUFFICES ASSUME NEW k \in Ancestors(i), k > to, k # i
               PROVE  x < K[Parent(k)]
    BY <1>11
  <2>1. k \in Nat /\ 1 <= k /\ k <= i
    BY <1>2, ChainFacts
  <2>2. Parent(k) \in 1 .. m
    BY <1>2, <1>8, <2>1 DEF Parent
  <2>3. ~ (K[Parent(k)] <= x)
    BY <1>4, <1>7, <1>25, <2>2 DEF LE
  <2> QED
    BY <1>9, <2>2, <2>3
<1>19. \A j \in 1 .. n : src[j] \in 1 .. m /\ src[j] # i
  <2> SUFFICES ASSUME NEW j \in 1 .. n
               PROVE  src[j] \in 1 .. m /\ src[j] # i
    OBVIOUS
  <2>1. j \in P /\ j # to => Parent(j) # i
    BY <1>2, <1>8
  <2> QED
    BY <1>2, <1>8, <1>12, <1>13, <1>14, <2>1
<1>20. ASSUME NEW j \in 1 .. n, NEW k \in 1 .. n, src[j] = src[k]
       PROVE  j = k
  <2>1. CASE j = to \/ k = to
    BY <1>2, <1>8, <1>13, <1>14, <1>20, <2>1
  <2>2. CASE j # to /\ k # to
    BY <1>8, <1>13, <1>14, <1>20, <2>2
  <2> QED
    BY <2>1, <2>2
<1>21. ASSUME NEW b \in 1 .. m, b # i
       PROVE  \E j \in 1 .. n : src[j] = b
  <2>1. CASE b = m
    <3>1. to \in 1 .. n
      BY <1>2, <1>8, <1>12
    <3> QED
      BY <1>14, <2>1, <3>1
  <2>2. CASE b # m /\ b \notin P
    <3>1. b \in 1 .. n
      BY <1>2, <2>2
    <3> QED
      BY <1>14, <2>2, <3>1
  <2>3. CASE b # m /\ b \in P
    <3>1. PICK j \in P : j > b /\ Parent(j) = b
      BY <1>8, <1>21, <2>3
    <3>2. j \in 1 .. n /\ j # to
      BY <1>2, <1>8, <1>12, <2>3, <3>1
    <3> QED
      BY <1>14, <3>1, <3>2
  <2> QED
    BY <2>1, <2>2, <2>3
<1>22. \A j \in 1 .. n : W[j] = h[src[j]]
  BY <1>8, <1>14
<1>23. \A j \in 1 .. n : j > 1 => V[Parent(j)] <= V[j]
  <2>1. \A j \in 1 .. n : j \notin Path(i, to) => j <= m
    BY <1>2
  <2>2. to # i
    BY <1>7, <1>8
  <2>3. n <= m + 1
    BY <1>2
  <2>4. m \in Nat /\ n \in Nat /\ i \in 1 .. n /\ to \in Ancestors(i) /\ x \in Int
    BY <1>2, <1>7, <1>9, <1>12
  <2>5. \A j \in 1 .. n : V[j] = IF j = to THEN x
                                 ELSE IF j \in Path(i, to) THEN K[Parent(j)] ELSE K[j]
    BY <1>15 DEF P
  <2> QED
    BY <1>9, <1>10, <1>17, <1>18, <2>1, <2>2, <2>3, <2>4, <2>5, UpKeepsOrder
<1>24. \A j \in 1 .. n : j > 1 => LE(W[Parent(j)].time, W[j].time)
  <2>1. \A j \in 1 .. n : j > 1 => Parent(j) \in 1 .. n
    BY <1>2 DEF Parent
  <2> QED
    BY <1>16, <1>23, <2>1 DEF LE
<1> QED
  <2>1. IsHeap(W) /\ NodesOf(W) = NodesOf(h) \ {h[i]}
    <3>1. ComeFrom(W, n, h, i, src)
      BY <1>2, <1>6, <1>19, <1>20, <1>21, <1>22, <1>24 DEF ComeFrom
    <3>2. n + 1 = Len(h)
      BY <1>2
    <3> QED
      BY <1>2, <3>1, <3>2, HeapOfOthers
  <2> QED
    BY <2>1 DEF W

\* tmevtb_delete and tmevtb_delete_top when the last node goes down
LEMMA WithoutDown ==
    ASSUME ClockTypeOK, NEW h, IsHeap(h), NEW i \in 1 .. Len(h),
           ~ (i > 1 /\ LT(h[Len(h)].time, h[Parent(i)].time))
    PROVE  IsHeap(Without(h, i)) /\ NodesOf(Without(h, i)) = NodesOf(h) \ {h[i]}
<1> DEFINE n == Len(h) - 1
           m == Len(h)
           last == h[n + 1]
           up == i > 1 /\ LT(last.time, h[Parent(i)].time)
           to == IF up THEN UpPlace(h, Parent(i), last.time) ELSE DownPlace(h, n, i, last.time)
           W == Without(h, i)
           K == [j \in 1 .. m |-> SinceMin(h[j].time)]
           V == [j \in 1 .. n |-> SinceMin(W[j].time)]
           x == SinceMin(last.time)
           P == Path(to, i)
           below(j) == CHOOSE k \in P : Parent(k) = j
           src == [j \in 1 .. n |-> IF j = to THEN m ELSE IF j \in P THEN below(j) ELSE j]
<1>1. h \in Seq(Node) /\ Len(h) \in Nat /\ DOMAIN h = 1 .. Len(h)
      /\ \A j \in 1 .. Len(h) : h[j] \in Node /\ h[j].time \in EVTTIM /\ h[j].evt \in EVT
  BY HeapNodes
<1>2. /\ n \in Nat /\ m \in Nat /\ m = n + 1 /\ m >= 1 /\ last = h[m]
      /\ i \in Nat \ {0} /\ i \in 1 .. m /\ m = Len(h) /\ n = Len(h) - 1
      /\ i <= m /\ 1 <= i /\ i \in Nat /\ i \in 1 .. n + 1 /\ n + 1 = Len(h)
  BY <1>1
<1>3. SinceMin(last.time) \in Int /\ \A j \in 1 .. m : SinceMin(h[j].time) \in Int
  BY <1>1, <1>2, SinceMinIsNumber
<1>16. ~ up /\ to = DownPlace(h, n, i, last.time)
  <2>1. ~ up
    BY <1>2
  <2> HIDE DEF up
  <2> QED
    BY <2>1
<1>17. W = [j \in 1 .. n |-> IF j = to THEN last
                            ELSE IF up /\ j \in Path(i, to) THEN h[Parent(j)]
                            ELSE IF ~ up /\ j \in P THEN h[below(j)] ELSE h[j]]
  BY DEF Without
<1> HIDE DEF to, up
<1>4. /\ to \in 1 .. i + n /\ i \in Ancestors(to)
      /\ \A j \in 1 .. n : Parent(j) = to => LE(last.time, h[j].time)
      /\ \A k \in Ancestors(to) : k > i =>
           /\ k <= n /\ LT(h[k].time, last.time)
           /\ \A j \in 1 .. n : Parent(j) = Parent(k) => LE(h[k].time, h[j].time)
  <2>1. \A j \in 1 .. n : SinceMin(h[j].time) \in Int
    BY <1>2, <1>3
  <2> HIDE DEF n, m, last
  <2> DEFINE d == DownPlace(h, n, i, last.time)
  <2>2. /\ d \in 1 .. i + n /\ i \in Ancestors(d)
        /\ \A j \in 1 .. n : Parent(j) = d => LE(last.time, h[j].time)
        /\ \A k \in Ancestors(d) : k > i =>
             /\ k <= n /\ LT(h[k].time, last.time)
             /\ \A j \in 1 .. n : Parent(j) = Parent(k) => LE(h[k].time, h[j].time)
    <3>1. n \in Nat /\ i \in 1 .. n + 1
      BY <1>2
    <3> QED
      BY <1>3, <2>1, <3>1, DownPlaceIs
  <2>3. to = d
    BY <1>16
  <2> HIDE DEF d
  <2> QED
    BY <2>2, <2>3
<1>5. W = [j \in 1 .. n |-> IF j = to THEN last ELSE IF j \in P THEN h[below(j)] ELSE h[j]]
  BY <1>16, <1>17
<1>6. W = [j \in 1 .. n |-> W[j]]
  BY <1>5
<1> HIDE DEF W, n, m
<1>7. /\ \A j \in 1 .. m : K[j] = SinceMin(h[j].time)
      /\ \A j \in 1 .. n : V[j] = SinceMin(W[j].time)
      /\ x = SinceMin(last.time)
      /\ \A j \in 1 .. n : src[j] = IF j = to THEN m ELSE IF j \in P THEN below(j) ELSE j
  OBVIOUS
<1> HIDE DEF K, V, x, src, last
<1>8. to \in Nat \ {0}
  BY <1>2, <1>4
<1>9. /\ i <= to /\ i \in P /\ to \in P
      /\ \A k \in P : k \in Ancestors(to) /\ k \in Nat /\ i <= k /\ k <= to
      /\ \A k \in P : k # i =>
           /\ k > i /\ k > 1 /\ Parent(k) \in P
           /\ Parent(k) \in Nat /\ Parent(k) < k /\ 1 <= Parent(k)
      /\ \A k \in P : k # to => \E b \in P : b > k /\ Parent(b) = k
      /\ \A k, b \in P : k > 1 /\ b > 1 /\ Parent(k) = Parent(b) => k = b
  BY <1>4, <1>8, PathFacts
<1>10. ASSUME NEW k \in P, k # i
       PROVE  below(Parent(k)) = k
  <2>1. \A b \in P : Parent(b) = Parent(k) => b = k
    <3> SUFFICES ASSUME NEW b \in P, Parent(b) = Parent(k)
                 PROVE  b = k
      OBVIOUS
    <3>1. b # i
      <4>1. i \in Nat /\ Parent(i) < i
        BY <1>2 DEF Parent
      <4>2. Parent(k) \in P /\ i <= Parent(k) /\ Parent(k) \in Nat
        BY <1>9, <1>10
      <4>3. Parent(i) \in Nat
        BY <1>2 DEF Parent
      <4> QED
        BY <4>1, <4>2, <4>3
    <3> QED
      BY <1>9, <1>10, <3>1
  <2> HIDE DEF P
  <2> QED
    BY <2>1
<1> HIDE DEF P
\* The node that comes to a node of the way
<1>11. ASSUME NEW j \in P, j # to
       PROVE  below(j) \in P /\ below(j) # i /\ below(j) > j /\ Parent(below(j)) = j
  <2>1. PICK b \in P : b > j /\ Parent(b) = j
    BY <1>9, <1>11
  <2>2. b # i
    BY <1>2, <1>9, <2>1
  <2>3. below(j) = b
    BY <1>10, <2>1, <2>2
  <2> HIDE DEF below
  <2> QED
    BY <2>1, <2>2, <2>3
<1> HIDE DEF below
<1>12. to # i => to <= n
  BY <1>2, <1>4, <1>8, <1>9
<1>13. \A j \in 1 .. n : /\ j = to => src[j] = m /\ W[j] = h[m]
                         /\ j # to /\ j \in P => src[j] = below(j) /\ W[j] = h[below(j)]
                         /\ j \notin P => src[j] = j /\ W[j] = h[j]
  BY <1>2, <1>5, <1>7, <1>9
<1>14. CASE i = m
  <2>1. to = m
    BY <1>2, <1>8, <1>9, <1>12, <1>14
  <2>2. \A j \in 1 .. n : j \notin P
    BY <1>2, <1>9, <1>14
  <2>3. \A j \in 1 .. n : src[j] = j /\ W[j] = h[j]
    BY <1>13, <2>2
  <2>4. \A j \in 1 .. n : j > 1 => LE(W[Parent(j)].time, W[j].time)
    <3>1. \A j \in 1 .. n : j > 1 => Parent(j) \in 1 .. n /\ j \in 1 .. m
      BY <1>2 DEF Parent
    <3> QED
      BY <1>2, <2>3, <3>1 DEF IsHeap, InOrder
  <2>5. ComeFrom(W, n, h, i, src)
    <3>1. \A j \in 1 .. n : src[j] \in 1 .. n + 1 /\ src[j] # i
      BY <1>2, <1>14, <2>3
    <3>2. \A b \in 1 .. n + 1 : b # i => \E j \in 1 .. n : src[j] = b
      BY <1>2, <1>14, <2>3
    <3> QED
      BY <1>6, <2>3, <2>4, <3>1, <3>2 DEF ComeFrom
  <2>6. IsHeap(W) /\ NodesOf(W) = NodesOf(h) \ {h[i]}
    BY <1>2, <2>5, HeapOfOthers
  <2> QED
    BY <2>6 DEF W
<1>15. CASE i # m
  <2>1. i \in 1 .. n /\ to \in 1 .. n
    BY <1>2, <1>8, <1>12, <1>15
  <2>2. \A k \in P : k \in 1 .. n
    BY <1>2, <1>9, <2>1
  <2>3. \A j \in 1 .. n : src[j] \in 1 .. n + 1 /\ src[j] # i
    <3> SUFFICES ASSUME NEW j \in 1 .. n
                 PROVE  src[j] \in 1 .. n + 1 /\ src[j] # i
      OBVIOUS
    <3>1. CASE j = to
      BY <1>2, <1>13, <1>15, <3>1
    <3>2. CASE j # to /\ j \in P
      <4>1. below(j) \in P /\ below(j) # i
        BY <1>11, <3>2
      <4>2. below(j) \in 1 .. n
        BY <2>2, <4>1
      <4>3. below(j) \in 1 .. n + 1
        BY <1>2, <4>2
      <4> QED
        BY <1>13, <3>2, <4>1, <4>3
    <3>3. CASE j \notin P
      BY <1>2, <1>9, <1>13, <3>3
    <3> QED
      BY <1>9, <3>1, <3>2, <3>3
  <2>4. ASSUME NEW j \in 1 .. n, NEW k \in 1 .. n, src[j] = src[k]
        PROVE  j = k
    <3>1. \A b \in 1 .. n : src[b] = m <=> b = to
      BY <1>2, <1>9, <1>11, <1>13, <2>2
    <3>2. \A b \in 1 .. n : b # to => (src[b] \in P <=> b \in P)
      BY <1>11, <1>13
    <3>3. CASE j = to \/ k = to
      BY <2>4, <3>1, <3>3
    <3>4. CASE j # to /\ k # to
      BY <1>11, <1>13, <2>4, <3>2, <3>4
    <3> QED
      BY <3>3, <3>4
  <2>5. ASSUME NEW b \in 1 .. n + 1, b # i
        PROVE  \E j \in 1 .. n : src[j] = b
    <3>1. CASE b = m
      BY <1>13, <2>1, <3>1
    <3>2. CASE b # m /\ b \notin P
      <4>1. b \in 1 .. n
        BY <1>2, <3>2
      <4> QED
        BY <1>13, <3>2, <4>1
    <3>3. CASE b # m /\ b \in P
      <4>1. Parent(b) \in P /\ Parent(b) \in 1 .. n /\ Parent(b) < b /\ b <= to
        BY <1>9, <2>2, <2>5, <3>3
      <4>2. Parent(b) # to
        BY <1>8, <4>1
      <4>3. below(Parent(b)) = b
        BY <1>10, <2>5, <3>3
      <4> QED
        BY <1>13, <4>1, <4>2, <4>3
    <3> QED
      BY <3>1, <3>2, <3>3
  <2>6. \A j \in 1 .. n : W[j] = h[src[j]]
    BY <1>9, <1>13
  <2>7. \A j \in 1 .. n : j > 1 => V[Parent(j)] <= V[j]
    <3>1. x \in Int /\ \A j \in 1 .. n : K[j] \in Int
      BY <1>2, <1>3, <1>7
    <3>2. \A j \in 1 .. n : K[j] = SinceMin(h[j].time) /\ V[j] = SinceMin(W[j].time)
      BY <1>2, <1>7
    <3>3. \A j \in 1 .. n : j > 1 => Parent(j) \in 1 .. n
      BY <1>2 DEF Parent
    <3>4. \A j \in 1 .. n : j > 1 => K[Parent(j)] <= K[j]
      <4>1. \A j \in 1 .. n : j \in 1 .. m
        BY <1>2
      <4> QED
        BY <1>2, <3>2, <3>3, <4>1 DEF IsHeap, InOrder, LE
    <3>5. i > 1 => K[Parent(i)] <= x
      <4> SUFFICES ASSUME i > 1
                   PROVE  K[Parent(i)] <= x
        OBVIOUS
      <4>1. Parent(i) \in 1 .. n
        BY <2>1, <3>3
      <4>2. ~ LT(last.time, h[Parent(i)].time)
        BY <1>16 DEF up
      <4> QED
        BY <1>7, <3>1, <3>2, <4>1, <4>2 DEF LT
    <3>6. \A j \in 1 .. n : Parent(j) = to => x <= K[j]
      BY <1>4, <1>7, <3>2 DEF LE
    <3>7. \A k \in Ancestors(to) : k > i =>
            K[k] < x /\ \A j \in 1 .. n : Parent(j) = Parent(k) => K[k] <= K[j]
      <4>1. \A k \in Ancestors(to) : k > i => k \in 1 .. n
        <5>1. \A k \in Ancestors(to) : k \in Nat /\ 1 <= k
          BY <1>8, ChainFacts
        <5> QED
          BY <1>2, <1>4, <5>1
      <4> QED
        BY <1>4, <1>7, <3>2, <4>1 DEF LE, LT
    <3>8. \A k \in Path(to, i) : k # i => V[Parent(k)] = K[k]
      <4> SUFFICES ASSUME NEW k \in P, k # i
                   PROVE  V[Parent(k)] = K[k]
        BY DEF P
      <4>1. Parent(k) \in P /\ Parent(k) \in 1 .. n /\ Parent(k) # to /\ below(Parent(k)) = k
        BY <1>8, <1>9, <1>10, <2>2
      <4> QED
        BY <1>13, <2>2, <3>2, <4>1
    <3>9. V[to] = x /\ \A j \in 1 .. n : j \notin Path(to, i) => V[j] = K[j]
      <4>1. V[to] = x
        BY <1>2, <1>7, <1>13, <2>1, <3>2
      <4>2. \A j \in 1 .. n : j \notin P => V[j] = K[j]
        BY <1>13, <3>2
      <4> QED
        BY <4>1, <4>2 DEF P
    <3>10. n \in Nat /\ i \in Ancestors(to) /\ to \in 1 .. n
      BY <1>2, <1>4, <2>1
    <3> QED
      BY <3>1, <3>4, <3>5, <3>6, <3>7, <3>8, <3>9, <3>10, DownKeepsOrder
  <2>8. \A j \in 1 .. n : j > 1 => LE(W[Parent(j)].time, W[j].time)
    <3>1. \A j \in 1 .. n : j > 1 => Parent(j) \in 1 .. n
      BY <1>2 DEF Parent
    <3> QED
      BY <1>7, <2>7, <3>1 DEF LE
  <2>9. ComeFrom(W, n, h, i, src)
    BY <1>6, <2>3, <2>4, <2>5, <2>6, <2>8 DEF ComeFrom
  <2>10. IsHeap(W) /\ NodesOf(W) = NodesOf(h) \ {h[i]}
    BY <1>2, <2>9, HeapOfOthers
  <2> QED
    BY <2>10 DEF W
<1> QED
  BY <1>14, <1>15

\* Whichever way the last node goes, the others are left, in order.
LEMMA WithoutIsHeap ==
    ASSUME ClockTypeOK, NEW h, IsHeap(h), NEW i \in 1 .. Len(h)
    PROVE  IsHeap(Without(h, i)) /\ NodesOf(Without(h, i)) = NodesOf(h) \ {h[i]}
  BY WithoutUp, WithoutDown
-----------------------------------------------------------------------------
\* Arithmetic modulo M

\* Division with remainder, and that there is only one
LEMMA DivMod ==
    ASSUME NEW M \in Nat \ {0}, NEW a \in Int
    PROVE  a = M * (a \div M) + (a % M) /\ a % M \in 0 .. M - 1 /\ a \div M \in Int
  OBVIOUS

\* A multiple of M is not less than M.
LEMMA Scale ==
    ASSUME NEW M \in Nat \ {0}, NEW q \in Int, q >= 1
    PROVE  q * M >= M
  OBVIOUS

\* There is one quotient and one remainder.
LEMMA ModUnique ==
    ASSUME NEW M \in Nat \ {0}, NEW q \in Int, NEW r \in 0 .. M - 1, NEW a \in Int, a = q * M + r
    PROVE  a % M = r /\ a \div M = q
<1> DEFINE d == a \div M
           s == a % M
<1>1. a = M * d + s /\ s \in 0 .. M - 1 /\ d \in Int
  BY DivMod
<1> HIDE DEF d, s
<1>2. (q - d) * M = s - r
  BY <1>1
<1>3. ~ (q - d >= 1)
  <2>1. q - d >= 1 => (q - d) * M >= M
    BY <1>1, Scale
  <2> QED
    BY <1>1, <1>2, <2>1
<1>4. ~ (d - q >= 1)
  <2>1. d - q >= 1 => (d - q) * M >= M
    BY <1>1, Scale
  <2>2. (d - q) * M = r - s
    BY <1>1
  <2> QED
    BY <1>1, <2>1, <2>2
<1>5. d = q
  BY <1>1, <1>3, <1>4
<1>6. s = r
  BY <1>1, <1>5
<1> QED
  BY <1>5, <1>6 DEF d, s

\* When nothing is due, no node is before the time the clock moves to.
LEMMA RootIsFirst ==
    ASSUME ClockTypeOK, NEW h, IsHeap(h), NEW i \in 1 .. Len(h)
    PROVE  LE(h[1].time, h[i].time)
<1> DEFINE K == [j \in 1 .. Len(h) |-> SinceMin(h[j].time)]
           T == {j \in 1 .. Len(h) : ~ (K[1] <= K[j])}
<1>1. Len(h) \in Nat /\ \A j \in 1 .. Len(h) : K[j] \in Int
  BY HeapNodes, SinceMinIsNumber
<1>2. \A j \in 1 .. Len(h) : j > 1 => Parent(j) \in 1 .. Len(h) /\ Parent(j) < j
  BY <1>1 DEF Parent
<1>3. \A j \in 1 .. Len(h) : j > 1 => K[Parent(j)] <= K[j]
  BY <1>1, <1>2 DEF IsHeap, InOrder, LE
<1>4. 1 \in 1 .. Len(h)
  BY <1>1
<1>5. T = {}
  <2> SUFFICES ASSUME T # {}
               PROVE  FALSE
    OBVIOUS
  <2>1. PICK j \in T : \A y \in T : j <= y
    <3>1. T \in SUBSET Nat
      BY <1>1
    <3> HIDE DEF T
    <3> QED
      BY <3>1, LeastOf
  <2>2. j \in 1 .. Len(h) /\ ~ (K[1] <= K[j])
    BY <2>1
  <2> HIDE DEF K
  <2>3. j > 1
    BY <1>1, <1>4, <2>2
  <2>4. K[1] <= K[Parent(j)]
    BY <1>2, <2>1, <2>2, <2>3
  <2> QED
    BY <1>1, <1>2, <1>3, <1>4, <2>2, <2>3, <2>4
<1>6. K[1] <= K[i]
  BY <1>5
<1> QED
  BY <1>4, <1>6 DEF LE

\* The distance between two times, modulo the range of EVTTIM
LEMMA Distance ==
    ASSUME ClockTypeOK, NEW now \in EVTTIM, NEW t \in EVTTIM, LE(now, t)
    PROVE  (t - now) % MODULUS = SinceMin(t) - SinceMin(now)
<1> DEFINE M == MODULUS
           m == min_time
           a == (t - m) % M
           b == (now - m) % M
           p == (t - m) \div M
           q == (now - m) \div M
<1>1. M \in Nat \ {0} /\ t \in Int /\ m \in Int /\ now \in Int
  BY DEF ClockTypeOK, EVTTIM
<1>2. a = SinceMin(t) /\ b = SinceMin(now) /\ M = MODULUS
  BY DEF SinceMin
<1>3. t - m = M * p + a /\ a \in 0 .. M - 1 /\ p \in Int
  <2>1. t - m \in Int
    BY <1>1
  <2> QED
    BY <1>1, <2>1, DivMod
<1>4. now - m = M * q + b /\ b \in 0 .. M - 1 /\ q \in Int
  <2>1. now - m \in Int
    BY <1>1
  <2> QED
    BY <1>1, <2>1, DivMod
<1>5. b <= a
  BY <1>2 DEF LE
<1> HIDE DEF M, m, a, b, p, q
<1>8. p - q \in Int /\ a - b \in 0 .. M - 1
  BY <1>1, <1>3, <1>4, <1>5
<1>6. t - now = (p - q) * M + (a - b)
  <2>1. (p - q) * M = M * p - M * q
    BY <1>1, <1>3, <1>4
  <2>2. t - now = (t - m) - (now - m)
    BY <1>1
  <2>3. M * p \in Int /\ M * q \in Int /\ (p - q) * M \in Int
    BY <1>1, <1>3, <1>4
  <2> QED
    BY <1>3, <1>4, <2>1, <2>2, <2>3
<1>7. (t - now) % M = a - b
  <2>1. t - now \in Int
    BY <1>1
  <2> DEFINE u == p - q
             r == a - b
  <2>2. u \in Int /\ r \in 0 .. M - 1 /\ t - now = u * M + r
    BY <1>6, <1>8
  <2> HIDE DEF u, r
  <2>3. (t - now) % M = r
    BY <1>1, <2>1, <2>2, ModUnique
  <2> QED
    BY <2>3 DEF r
<1> QED
  BY <1>2, <1>7

\* When min_time moves to a time that none is before, the distances from it shrink
\* alike.
LEMMA MinMoves ==
    ASSUME ClockTypeOK, NEW now \in EVTTIM, min_time' = now, NEW t \in EVTTIM,
           LE(now, t)
    PROVE  SinceMin(t)' = SinceMin(t) - SinceMin(now)
<1>1. SinceMin(t)' = (t - now) % MODULUS
  BY DEF SinceMin
<1> QED
  BY <1>1, Distance

-----------------------------------------------------------------------------
\* Time events: the heap stays in order

\* The events in the heap know their nodes.
IndexOK == index = [e \in EVT |-> IF InHeap(tmevt_heap, e) THEN NodeOf(tmevt_heap, e) ELSE 0]

\* The types of the heap and of the clock
HeapTypeOK ==
    /\ tmevt_heap \in Seq(Node) /\ index \in [EVT -> Nat]
    /\ current_time \in EVTTIM /\ min_time \in EVTTIM /\ next_time \in EVTTIM
    /\ next_subtime \in 0 .. TIC_DENO - 1

\* The inductive invariant of the heap, for whoever registers the events
HeapInv == HeapTypeOK /\ IsHeap(tmevt_heap) /\ IndexOK

\* That of TimeEvent
TimeInv == TypeOK /\ IsHeap(tmevt_heap) /\ IndexOK

LEMMA HeapPart ==
    ASSUME TimeInv
    PROVE  HeapInv /\ HeapTypeOK /\ TypeOK
  BY DEF TimeInv, HeapInv, HeapTypeOK, TypeOK, Node

\* The node of an event
LEMMA NodeOfEvent ==
    ASSUME NEW h, IsHeap(h)
    PROVE  /\ \A i \in 1 .. Len(h) : InHeap(h, h[i].evt) /\ NodeOf(h, h[i].evt) = i
           /\ \A e : InHeap(h, e) => NodeOf(h, e) \in 1 .. Len(h) /\ h[NodeOf(h, e)].evt = e
           /\ \A e : InHeap(h, e) <=> \E a \in NodesOf(h) : a.evt = e
<1>1. DOMAIN h = 1 .. Len(h)
  BY HeapNodes
<1>2. ASSUME NEW i \in 1 .. Len(h)
      PROVE  InHeap(h, h[i].evt) /\ NodeOf(h, h[i].evt) = i
  <2>1. \A j \in 1 .. Len(h) : h[j].evt = h[i].evt => j = i
    BY DEF IsHeap, OnceEach
  <2> QED
    BY <1>1, <2>1 DEF InHeap, NodeOf
<1>3. \A e : InHeap(h, e) => NodeOf(h, e) \in 1 .. Len(h) /\ h[NodeOf(h, e)].evt = e
  BY <1>1 DEF InHeap, NodeOf
<1>4. \A e : InHeap(h, e) <=> \E a \in NodesOf(h) : a.evt = e
  BY DEF InHeap, NodesOf
<1> QED
  BY <1>2, <1>3, <1>4

\* The node of an event that is registered
LEMMA RegisteredNode ==
    ASSUME HeapInv, NEW e \in EVT, Registered(e)
    PROVE  /\ index[e] \in 1 .. Len(tmevt_heap)
           /\ tmevt_heap[index[e]] \in NodesOf(tmevt_heap)
           /\ tmevt_heap[index[e]].evt = e
<1>1. IsHeap(tmevt_heap) /\ IndexOK /\ InHeap(tmevt_heap, e)
  BY DEF HeapInv, Registered
<1>2. index[e] = NodeOf(tmevt_heap, e)
  BY <1>1 DEF IndexOK
<1>3. index[e] \in 1 .. Len(tmevt_heap) /\ tmevt_heap[index[e]].evt = e
  BY <1>1, <1>2, NodeOfEvent
<1>4. DOMAIN tmevt_heap = 1 .. Len(tmevt_heap)
  BY <1>1, HeapNodes
<1> QED
  BY <1>3, <1>4 DEF NodesOf

\* The invariant is what the run checks, and more.
LEMMA HeapInvShows ==
    ASSUME HeapInv
    PROVE  HeapConsistent
<1>1. IsHeap(tmevt_heap) /\ IndexOK
  BY DEF HeapInv
<1>2. DOMAIN tmevt_heap = 1 .. Len(tmevt_heap)
      /\ \A i \in 1 .. Len(tmevt_heap) : tmevt_heap[i].evt \in EVT
  BY <1>1, HeapNodes
<1>3. \A i \in 1 .. Len(tmevt_heap) : index[tmevt_heap[i].evt] = i
  BY <1>1, <1>2, NodeOfEvent DEF IndexOK
<1>4. \A i \in 1 .. Len(tmevt_heap) : i > 1 => LE(tmevt_heap[Parent(i)].time, tmevt_heap[i].time)
  BY <1>1 DEF IsHeap, InOrder
<1> QED
  BY <1>1, <1>2, <1>3, <1>4 DEF HeapConsistent

\* With the assumptions on the constants the clock is one that LE can order by.
LEMMA ClockIsOK ==
    ASSUME TimeAssumption, HeapTypeOK
    PROVE  ClockTypeOK
<1>1. MODULUS \in Nat /\ TMAX_RELTIM \in Nat /\ TIC_NUME \in Nat /\ TIC_DENO \in Nat \ {0}
      /\ TMAX_RELTIM + 2 * (TIC_NUME \div TIC_DENO + 1) + 1 < MODULUS
  BY DEF TimeAssumption, RangeAssumption, TicAssumption
<1>2. TIC_NUME \div TIC_DENO \in Nat
  BY <1>1
<1>3. MODULUS \in Nat \ {0}
  BY <1>1, <1>2
<1> QED
  BY <1>3 DEF ClockTypeOK, HeapTypeOK

\* A heap in order now is in order after a step that keeps min_time.
LEMMA HeapLater ==
    ASSUME NEW W, IsHeap(W), tmevt_heap' = W, min_time' = min_time
    PROVE  IsHeap(tmevt_heap)'
  BY DEF IsHeap, InOrder, OnceEach, LE, SinceMin, Node, EVTTIM

\* And after a step that moves min_time while nothing is due.
LEMMA HeapStaysInOrder ==
    ASSUME ClockTypeOK, IsHeap(tmevt_heap), NEW now \in EVTTIM, ~ Due(tmevt_heap, now),
           min_time' = now, tmevt_heap' = tmevt_heap
    PROVE  IsHeap(tmevt_heap)'
<1> DEFINE h == tmevt_heap
<1>1. h \in Seq(Node) /\ Len(h) \in Nat /\ DOMAIN h = 1 .. Len(h)
      /\ \A j \in 1 .. Len(h) : h[j] \in Node /\ h[j].time \in EVTTIM /\ h[j].evt \in EVT
  BY HeapNodes
<1>2. \A t \in EVTTIM : SinceMin(t) \in Int
  BY SinceMinIsNumber
<1>3. ASSUME NEW i \in 1 .. Len(h)
      PROVE  LE(now, h[i].time)
  <2>1. h # <<>> /\ 1 \in 1 .. Len(h)
    BY <1>1
  <2>2. ~ LE(h[1].time, now)
    BY <2>1 DEF Due
  <2>3. LE(h[1].time, h[i].time)
    BY RootIsFirst
  <2> QED
    BY <1>1, <1>2, <2>1, <2>2, <2>3 DEF LE
<1>4. \A i \in 1 .. Len(h) :
        (h[i].time - min_time') % MODULUS = SinceMin(h[i].time) - SinceMin(now)
  <2> SUFFICES ASSUME NEW i \in 1 .. Len(h)
               PROVE  (h[i].time - min_time') % MODULUS = SinceMin(h[i].time) - SinceMin(now)
    OBVIOUS
  <2> DEFINE t == h[i].time
  <2>1. t \in EVTTIM /\ LE(now, t)
    BY <1>1, <1>3
  <2> HIDE DEF t
  <2>2. (t - now) % MODULUS = SinceMin(t) - SinceMin(now)
    BY <2>1, MinMoves DEF SinceMin
  <2> QED
    BY <2>2 DEF t
<1>5. ASSUME NEW i \in 1 .. Len(h), i > 1
      PROVE  (h[Parent(i)].time - min_time') % MODULUS <= (h[i].time - min_time') % MODULUS
  <2>1. Parent(i) \in 1 .. Len(h)
    BY <1>1, <1>5 DEF Parent
  <2>2. SinceMin(h[Parent(i)].time) <= SinceMin(h[i].time)
    BY <1>5 DEF IsHeap, InOrder, LE
  <2>3. SinceMin(h[Parent(i)].time) \in Int /\ SinceMin(h[i].time) \in Int /\ SinceMin(now) \in Int
    BY <1>1, <1>2, <2>1
  <2> QED
    BY <1>4, <2>1, <2>2, <2>3
<1>6. InOrder(tmevt_heap)'
  BY <1>5 DEF InOrder, LE, SinceMin
<1>7. (tmevt_heap \in Seq(Node) /\ OnceEach(tmevt_heap))'
  BY DEF IsHeap, OnceEach, Node, EVTTIM
<1> QED
  BY <1>6, <1>7 DEF IsHeap

\* What was asked for has its type, and so has what is kept of it.
LEMMA AskedIsTyped ==
    ASSUME TimeAssumption, NEW a, NEW c, Asked(a, c),
           \A e \in EVT : a[e] \in RELTIM /\ c[e] \in Nat
    PROVE  reltim' \in [EVT -> RELTIM] /\ ticks' \in [EVT -> Nat]
<1>1. 0 \in RELTIM
  BY DEF TimeAssumption, RangeAssumption, RELTIM
<1>2. reltim' \in [EVT -> RELTIM]
  BY <1>1 DEF Asked
<1>3. ticks' \in [EVT -> Nat]
  BY DEF Asked
<1> QED
  BY <1>2, <1>3

\* The indexes that SetNodes writes are right.
LEMMA SetNodesKeepsIndex ==
    ASSUME NEW W, IsHeap(W), SetNodes(W)
    PROVE  IndexOK' /\ index' \in [EVT -> Nat] /\ tmevt_heap' = W
<1>1. \A e : InHeap(W, e) => NodeOf(W, e) \in 1 .. Len(W)
  BY NodeOfEvent
<1>2. Len(W) \in Nat
  BY HeapNodes
<1>3. tmevt_heap' = W /\ index' = [e \in EVT |-> IF InHeap(W, e) THEN NodeOf(W, e) ELSE 0]
  BY DEF SetNodes
<1>4. IndexOK'
  BY <1>3 DEF IndexOK, InHeap, NodeOf
<1>5. \A e \in EVT : (IF InHeap(W, e) THEN NodeOf(W, e) ELSE 0) \in Nat
  BY <1>1, <1>2
<1>6. index' \in [EVT -> Nat]
  BY <1>3, <1>5
<1> QED
  BY <1>3, <1>4, <1>6

\* base_time and the time of an event are times.
LEMMA PlusIsTime ==
    ASSUME TimeAssumption, HeapTypeOK
    PROVE  /\ base_time \in EVTTIM
           /\ \A time \in RELTIM : Plus(base_time, time) \in EVTTIM
<1>1. MODULUS \in Nat \ {0} /\ TMAX_RELTIM \in Nat
  BY ClockIsOK DEF ClockTypeOK, TimeAssumption, RangeAssumption
<1>2. \A a, d \in Int : Plus(a, d) \in EVTTIM
  BY <1>1 DEF Plus, EVTTIM
<1>3. next_time \in Int /\ EVTTIM \in SUBSET Int /\ RELTIM \in SUBSET Int
  BY <1>1 DEF HeapTypeOK, EVTTIM, RELTIM
<1>4. base_time \in EVTTIM
  BY <1>2, <1>3 DEF base_time
<1>5. \A time \in RELTIM : time \in Int /\ base_time \in Int
  BY <1>3, <1>4
<1> QED
  BY <1>2, <1>4, <1>5

\* The types are those of what each step changes.
LEMMA TypesOfParts ==
    ASSUME tmevt_heap' \in Seq(Node), index' \in [EVT -> Nat],
           current_time' \in EVTTIM, min_time' \in EVTTIM, next_time' \in EVTTIM,
           next_subtime' \in 0 .. TIC_DENO - 1, cback' \in EVT \cup {NoEvt},
           reltim' \in [EVT -> RELTIM], ticks' \in [EVT -> Nat]
    PROVE  TypeOK'
  BY DEF TypeOK, Node, EVTTIM, RELTIM

\* A heap that SetNodes writes, with min_time as it is, keeps the invariant.
LEMMA NewHeapKeeps ==
    ASSUME NEW W, IsHeap(W), SetNodes(W), UNCHANGED min_time
    PROVE  IsHeap(tmevt_heap)' /\ IndexOK' /\ tmevt_heap' \in Seq(Node) /\ index' \in [EVT -> Nat]
<1>1. IndexOK' /\ index' \in [EVT -> Nat] /\ tmevt_heap' = W
  BY SetNodesKeepsIndex
<1>2. IsHeap(tmevt_heap)'
  BY <1>1, HeapLater
<1>3. tmevt_heap' \in Seq(Node)
  BY <1>1 DEF IsHeap
<1> QED
  BY <1>1, <1>2, <1>3

LEMMA EnqueueKeeps ==
    ASSUME TimeAssumption, TimeInv, NEW e \in EVT, NEW time \in RELTIM, Enqueue(e, time)
    PROVE  TimeInv'
<1> DEFINE at == Plus(base_time, time)
           W == With(tmevt_heap, e, at)
<1>1. TypeOK /\ HeapTypeOK /\ HeapInv /\ IsHeap(tmevt_heap)
  BY HeapPart DEF TimeInv
<1>2. ClockTypeOK /\ at \in EVTTIM
  BY <1>1, ClockIsOK, PlusIsTime
<1>3. /\ ~ InHeap(tmevt_heap, e) /\ SetNodes(W) /\ UNCHANGED <<clockVars, cback>>
      /\ Asked([reltim EXCEPT ![e] = time], [ticks EXCEPT ![e] = 0])
  BY DEF Enqueue, Registered
<1> HIDE DEF at
<1>4. IsHeap(W)
  BY <1>1, <1>2, <1>3, WithIsHeap
<1> HIDE DEF W
<1>5. IsHeap(tmevt_heap)' /\ IndexOK' /\ tmevt_heap' \in Seq(Node) /\ index' \in [EVT -> Nat]
  BY <1>3, <1>4, NewHeapKeeps DEF clockVars
<1>6. reltim' \in [EVT -> RELTIM] /\ ticks' \in [EVT -> Nat]
  <2> DEFINE a == [reltim EXCEPT ![e] = time]
             c == [ticks EXCEPT ![e] = 0]
  <2>1. \A x \in EVT : a[x] \in RELTIM /\ c[x] \in Nat
    BY <1>1 DEF TypeOK
  <2> HIDE DEF a, c
  <2>2. Asked(a, c)
    BY <1>3 DEF a, c
  <2> QED
    BY <2>1, <2>2, AskedIsTyped
<1>7. TypeOK'
  BY <1>1, <1>3, <1>5, <1>6, TypesOfParts DEF TypeOK, clockVars
<1> QED
  BY <1>5, <1>7 DEF TimeInv

LEMMA DequeueKeeps ==
    ASSUME TimeAssumption, TimeInv, NEW e \in EVT, Dequeue(e)
    PROVE  TimeInv' /\ NodesOf(tmevt_heap)' = NodesOf(tmevt_heap) \ {tmevt_heap[index[e]]}
<1> DEFINE W == Without(tmevt_heap, index[e])
<1>1. TypeOK /\ HeapTypeOK /\ HeapInv /\ IsHeap(tmevt_heap) /\ IndexOK
  BY HeapPart DEF TimeInv
<1>2. ClockTypeOK
  BY <1>1, ClockIsOK
<1>3. /\ InHeap(tmevt_heap, e) /\ SetNodes(W) /\ UNCHANGED <<clockVars, cback>>
      /\ Asked(reltim, ticks)
  BY DEF Dequeue, Registered
<1>4. index[e] \in 1 .. Len(tmevt_heap)
  BY <1>1, <1>3, NodeOfEvent DEF IndexOK
<1>5. IsHeap(W) /\ NodesOf(W) = NodesOf(tmevt_heap) \ {tmevt_heap[index[e]]}
  BY <1>1, <1>2, <1>4, WithoutIsHeap
<1> HIDE DEF W
<1>6. IsHeap(tmevt_heap)' /\ IndexOK' /\ tmevt_heap' \in Seq(Node) /\ index' \in [EVT -> Nat]
  BY <1>3, <1>5, NewHeapKeeps DEF clockVars
<1>7. reltim' \in [EVT -> RELTIM] /\ ticks' \in [EVT -> Nat]
  BY <1>1, <1>3, AskedIsTyped DEF TypeOK
<1>8. TypeOK'
  BY <1>1, <1>3, <1>6, <1>7, TypesOfParts DEF TypeOK, clockVars
<1>9. NodesOf(tmevt_heap)' = NodesOf(W)
  BY <1>3 DEF SetNodes, NodesOf
<1> QED
  BY <1>5, <1>6, <1>8, <1>9 DEF TimeInv

\* A turn of the loop of signal_time keeps the heap in order, also when min_time
\* moves.
LEMMA TurnKeeps ==
    ASSUME TimeAssumption, TimeInv, NEW now \in EVTTIM, Turn(now)
    PROVE  /\ IsHeap(tmevt_heap)' /\ IndexOK' /\ tmevt_heap' \in Seq(Node) /\ index' \in [EVT -> Nat]
           /\ min_time' \in EVTTIM /\ cback' \in EVT \cup {NoEvt}
<1>1. TypeOK /\ HeapTypeOK /\ HeapInv /\ IsHeap(tmevt_heap) /\ IndexOK
  BY HeapPart DEF TimeInv
<1>2. ClockTypeOK
  BY <1>1, ClockIsOK
<1>3. CASE Due(tmevt_heap, now)
  <2> DEFINE W == Without(tmevt_heap, 1)
  <2>1. cback' = tmevt_heap[1].evt /\ SetNodes(W) /\ UNCHANGED min_time
    BY <1>3 DEF Turn
  <2>2. 1 \in 1 .. Len(tmevt_heap) /\ tmevt_heap[1].evt \in EVT
    <3>1. Len(tmevt_heap) \in Nat /\ tmevt_heap # <<>> /\ tmevt_heap \in Seq(Node)
      BY <1>1, <1>3, HeapNodes DEF Due
    <3>2. 1 \in 1 .. Len(tmevt_heap)
      BY <3>1
    <3> QED
      BY <1>1, <3>2, HeapNodes
  <2>3. IsHeap(W)
    BY <1>1, <1>2, <2>2, WithoutIsHeap
  <2> HIDE DEF W
  <2> QED
    BY <1>1, <2>1, <2>2, <2>3, NewHeapKeeps DEF TypeOK
<1>4. CASE ~ Due(tmevt_heap, now)
  <2>1. min_time' = now /\ cback' = NoEvt /\ tmevt_heap' = tmevt_heap /\ index' = index
    BY <1>4 DEF Turn, heapVars
  <2>2. IsHeap(tmevt_heap)'
    BY <1>1, <1>2, <1>4, <2>1, HeapStaysInOrder
  <2>3. IndexOK'
    BY <1>1, <2>1 DEF IndexOK, InHeap, NodeOf
  <2>4. tmevt_heap' \in Seq(Node) /\ index' \in [EVT -> Nat]
    BY <1>1, <2>1 DEF IsHeap, TypeOK
  <2> QED
    BY <2>1, <2>2, <2>3, <2>4
<1> QED
  BY <1>3, <1>4

\* The clock goes on within its types.
LEMMA AdvanceTyped ==
    ASSUME TimeAssumption, HeapTypeOK, Advance
    PROVE  current_time' \in EVTTIM /\ next_time' \in EVTTIM /\ next_subtime' \in 0 .. TIC_DENO - 1
<1>1. TIC_NUME \in Nat /\ TIC_DENO \in Nat \ {0}
  BY DEF TimeAssumption, TicAssumption
<1>2. MODULUS \in Nat \ {0}
  BY ClockIsOK DEF ClockTypeOK
<1>3. TIC_NUME % TIC_DENO \in 0 .. TIC_DENO - 1 /\ TIC_NUME \div TIC_DENO \in Int
  BY <1>1
<1> DEFINE r == TIC_NUME % TIC_DENO
           w == TIC_NUME \div TIC_DENO
           carry == IF next_subtime + r >= TIC_DENO THEN 1 ELSE 0
<1>4. /\ current_time' = next_time
      /\ next_time' = Plus(next_time, w + carry)
      /\ next_subtime' = (next_subtime + r) - carry * TIC_DENO
  BY DEF Advance
<1> HIDE DEF r, w
<1>5. r \in 0 .. TIC_DENO - 1 /\ w \in Int
  BY <1>3 DEF r, w
<1>6. next_subtime \in 0 .. TIC_DENO - 1 /\ next_time \in EVTTIM /\ next_time \in Int
  BY <1>2 DEF HeapTypeOK, EVTTIM
<1>7. next_subtime' \in 0 .. TIC_DENO - 1
  BY <1>1, <1>4, <1>5, <1>6
<1>8. next_time' \in EVTTIM
  <2>1. next_time + (w + carry) \in Int
    BY <1>5, <1>6
  <2> QED
    BY <1>2, <1>4, <2>1 DEF Plus, EVTTIM
<1> QED
  BY <1>4, <1>6, <1>7, <1>8

LEMMA SignalTimeKeeps ==
    ASSUME TimeAssumption, TimeInv, SignalTime
    PROVE  TimeInv'
<1>1. TypeOK /\ HeapTypeOK /\ HeapInv
  BY HeapPart DEF TimeInv
<1>2. Advance /\ Turn(current_time') /\ Asked(reltim, [e \in EVT |-> ticks[e] + 1])
  BY DEF SignalTime
<1>3. current_time' \in EVTTIM /\ next_time' \in EVTTIM /\ next_subtime' \in 0 .. TIC_DENO - 1
  BY <1>1, <1>2, AdvanceTyped
<1>4. /\ IsHeap(tmevt_heap)' /\ IndexOK' /\ tmevt_heap' \in Seq(Node) /\ index' \in [EVT -> Nat]
      /\ min_time' \in EVTTIM /\ cback' \in EVT \cup {NoEvt}
  <2> DEFINE now == current_time'
  <2>1. now \in EVTTIM /\ Turn(now)
    BY <1>2, <1>3
  <2> HIDE DEF now
  <2> QED
    BY <2>1, TurnKeeps
<1>5. reltim' \in [EVT -> RELTIM] /\ ticks' \in [EVT -> Nat]
  <2> DEFINE c == [e \in EVT |-> ticks[e] + 1]
  <2>1. \A e \in EVT : reltim[e] \in RELTIM /\ c[e] \in Nat
    BY <1>1 DEF TypeOK
  <2> HIDE DEF c
  <2>2. Asked(reltim, c)
    BY <1>2 DEF c
  <2> QED
    BY <2>1, <2>2, AskedIsTyped
<1>6. TypeOK'
  BY <1>3, <1>4, <1>5, TypesOfParts
<1> QED
  BY <1>4, <1>6 DEF TimeInv

LEMMA CallbackReturnsKeeps ==
    ASSUME TimeAssumption, TimeInv, CallbackReturns
    PROVE  TimeInv'
<1>1. TypeOK /\ HeapTypeOK /\ HeapInv
  BY HeapPart DEF TimeInv
<1>2. /\ Turn(current_time) /\ Asked(reltim, ticks)
      /\ UNCHANGED <<current_time, next_time, next_subtime>>
  BY DEF CallbackReturns
<1>3. current_time \in EVTTIM /\ next_time \in EVTTIM /\ next_subtime \in 0 .. TIC_DENO - 1
  BY <1>1 DEF TypeOK
<1>4. /\ IsHeap(tmevt_heap)' /\ IndexOK' /\ tmevt_heap' \in Seq(Node) /\ index' \in [EVT -> Nat]
      /\ min_time' \in EVTTIM /\ cback' \in EVT \cup {NoEvt}
  BY <1>2, <1>3, TurnKeeps
<1>5. reltim' \in [EVT -> RELTIM] /\ ticks' \in [EVT -> Nat]
  BY <1>1, <1>2, AskedIsTyped DEF TypeOK
<1>6. TypeOK'
  BY <1>2, <1>3, <1>4, <1>5, TypesOfParts
<1> QED
  BY <1>4, <1>6 DEF TimeInv

\* The heap is empty at first.
LEMMA TimeInitInv ==
    ASSUME TimeAssumption, Init
    PROVE  TimeInv
<1>1. TIC_NUME \in Nat /\ TIC_DENO \in Nat \ {0} /\ MODULUS \in Nat /\ TMAX_RELTIM \in Nat
      /\ TMAX_RELTIM + 2 * (TIC_NUME \div TIC_DENO + 1) + 1 < MODULUS
  BY DEF TimeAssumption, TicAssumption, RangeAssumption
<1>2. TIC_NUME \div TIC_DENO \in Nat /\ TIC_NUME % TIC_DENO \in 0 .. TIC_DENO - 1
  BY <1>1
<1>3. /\ tmevt_heap = <<>> /\ index = [e \in EVT |-> 0]
      /\ current_time = 0 /\ min_time = 0
      /\ next_time = TIC_NUME \div TIC_DENO /\ next_subtime = TIC_NUME % TIC_DENO
      /\ cback = NoEvt /\ reltim = [e \in EVT |-> 0] /\ ticks = [e \in EVT |-> 0]
  BY DEF Init, HeapInit
<1>4. next_time \in EVTTIM /\ 0 \in EVTTIM /\ 0 \in RELTIM
  BY <1>1, <1>2, <1>3 DEF EVTTIM, RELTIM
<1>5. tmevt_heap \in Seq(Node) /\ Len(tmevt_heap) = 0
  BY <1>3
<1>6. TypeOK
  BY <1>2, <1>3, <1>4, <1>5 DEF TypeOK, Node
<1>7. IsHeap(tmevt_heap)
  BY <1>5 DEF IsHeap, InOrder, OnceEach
<1>8. IndexOK
  BY <1>3 DEF IndexOK, InHeap
<1> QED
  BY <1>6, <1>7, <1>8 DEF TimeInv

\* Every step keeps the heap in order and each event at its index.
THEOREM TimeInvariance ==
    ASSUME TimeAssumption
    PROVE  Spec => []TimeInv
<1>1. Init => TimeInv
  BY TimeInitInv
<1>2. TimeInv /\ [Next]_vars => TimeInv'
  <2> SUFFICES ASSUME TimeInv, [Next]_vars
               PROVE  TimeInv'
    OBVIOUS
  <2>1. ASSUME NEW e \in EVT, Dequeue(e)
        PROVE  TimeInv'
    BY <2>1, DequeueKeeps
  <2>2. ASSUME NEW e \in EVT, NEW time \in RELTIM, Enqueue(e, time)
        PROVE  TimeInv'
    BY <2>2, EnqueueKeeps
  <2>3. CASE SignalTime
    BY <2>3, SignalTimeKeeps
  <2>4. CASE CallbackReturns
    BY <2>4, CallbackReturnsKeeps
  <2>5. CASE UNCHANGED vars
    BY <2>5 DEF vars, heapVars, clockVars, askVars, TimeInv, TypeOK, IsHeap, InOrder, OnceEach,
                IndexOK, InHeap, NodeOf, LE, SinceMin, Node, EVTTIM, RELTIM
  <2> QED
    BY <2>1, <2>2, <2>3, <2>4, <2>5 DEF Next
<1> QED
  BY <1>1, <1>2, PTL DEF Spec

-----------------------------------------------------------------------------
\* Time events: callbacks are neither early nor late

\* The numbers of ms in a tick, rounded down
WholeMs == TIC_NUME \div TIC_DENO

\* With the clock at cur, the next tick at nxt and sub, and mis[e] / TIC_DENO ms missing
\* at the next tick of the time of event e: the tick before the next is TIC_NUME /
\* TIC_DENO ms away but for the fraction it came in, and each node of h is as far from
\* the next tick as what is missing, rounded up to a full ms at its start.  No distance
\* from min reaches round the range of EVTTIM.
ScheduleFrom(min, h, cur, nxt, sub, mis) ==
    LET S(time) == (time - min) % MODULUS
        C == S(cur)
        A == S(nxt)
    IN  /\ C <= A /\ A - C <= WholeMs + 1 /\ C <= WholeMs + 1
        /\ TIC_NUME <= (A - C) * TIC_DENO + sub /\ (A - C) * TIC_DENO + sub < TIC_NUME + TIC_DENO
        /\ \A a \in NodesOf(h) :
             LET p == S(a.time)
                 off == ((p - A) * TIC_DENO - sub) - mis[a.evt]
             IN  p <= A + TMAX_RELTIM + 1 /\ 0 <= off /\ off < TIC_DENO

\* The same from min_time
OnSchedule(h, cur, nxt, sub, mis) ==
    LET C == SinceMin(cur)
        A == SinceMin(nxt)
    IN  /\ C <= A /\ A - C <= WholeMs + 1 /\ C <= WholeMs + 1
        /\ TIC_NUME <= (A - C) * TIC_DENO + sub /\ (A - C) * TIC_DENO + sub < TIC_NUME + TIC_DENO
        /\ \A a \in NodesOf(h) :
             LET p == SinceMin(a.time)
                 off == ((p - A) * TIC_DENO - sub) - mis[a.evt]
             IN  p <= A + TMAX_RELTIM + 1 /\ 0 <= off /\ off < TIC_DENO

LEMMA ScheduleIsFrom ==
    ASSUME NEW h, NEW cur, NEW nxt, NEW sub, NEW mis
    PROVE  OnSchedule(h, cur, nxt, sub, mis) <=> ScheduleFrom(min_time, h, cur, nxt, sub, mis)
  BY DEF OnSchedule, ScheduleFrom, SinceMin

\* What is missing of the times asked for
Missing(rel, tik) == [e \in EVT |-> rel[e] * TIC_DENO - tik[e] * TIC_NUME]

\* The inductive invariant of the times, in and out of the loop of signal_time
TimingInv ==
    /\ OnSchedule(tmevt_heap, current_time, next_time, next_subtime, Missing(reltim, ticks))
    /\ cback = NoEvt => /\ min_time = current_time
                        /\ \A a \in NodesOf(tmevt_heap) : SinceMin(a.time) >= 1

\* A time d ms after x is d ms further from min_time, unless that is all the way
\* round.
LEMMA PlusMoves ==
    ASSUME ClockTypeOK, NEW x \in EVTTIM, NEW d \in Nat, SinceMin(x) + d < MODULUS
    PROVE  SinceMin(Plus(x, d)) = SinceMin(x) + d
<1> DEFINE M == MODULUS
           m == min_time
           s == (x - m) % M
           q == (x - m) \div M
           y == (x + d) % M
           k == (x + d) \div M
<1>1. M \in Nat \ {0} /\ x \in Int /\ m \in Int /\ d \in Int
  BY DEF ClockTypeOK, EVTTIM
<1>2. s = SinceMin(x) /\ y = Plus(x, d) /\ SinceMin(Plus(x, d)) = (y - m) % M
  BY DEF SinceMin, Plus
<1>3. x - m = M * q + s /\ s \in 0 .. M - 1 /\ q \in Int
  <2>1. x - m \in Int
    BY <1>1
  <2> QED
    BY <1>1, <2>1, DivMod
<1>4. x + d = M * k + y /\ y \in 0 .. M - 1 /\ k \in Int
  <2>1. x + d \in Int
    BY <1>1
  <2> QED
    BY <1>1, <2>1, DivMod
<1>5. s + d < M
  BY <1>2
<1> HIDE DEF M, m, s, q, y, k
<1> DEFINE u == q - k
           r == s + d
<1>6. u \in Int /\ r \in 0 .. M - 1 /\ y - m \in Int
  BY <1>1, <1>3, <1>4, <1>5
<1>7. y - m = u * M + r
  <2>1. u * M = M * q - M * k
    BY <1>1, <1>3, <1>4
  <2>2. M * q \in Int /\ M * k \in Int
    BY <1>1, <1>3, <1>4
  <2>3. y - m = (x - m) + (d - M * k)
    BY <1>1, <1>4, <2>2
  <2> QED
    BY <1>1, <1>3, <1>4, <2>1, <2>2, <2>3
<1> DEFINE z == y - m
<1>9. u \in Int /\ r \in 0 .. M - 1 /\ z \in Int /\ z = u * M + r
  BY <1>6, <1>7
<1> HIDE DEF u, r, z
<1>10. z % M = r
  BY <1>1, <1>9, ModUnique
<1>8. (y - m) % M = r
  BY <1>10 DEF z
<1> QED
  BY <1>2, <1>8 DEF r

\* Numbers about a tick
LEMMA TickFacts ==
    ASSUME TimeAssumption
    PROVE  /\ TIC_NUME \in Nat /\ TIC_NUME >= 1 /\ TIC_DENO \in Nat /\ TIC_DENO >= 1
           /\ WholeMs \in Nat /\ TMAX_RELTIM \in Nat /\ MODULUS \in Nat
           /\ TMAX_RELTIM + 2 * (WholeMs + 1) + 1 < MODULUS
           /\ TIC_NUME % TIC_DENO \in 0 .. TIC_DENO - 1
           /\ TIC_NUME = WholeMs * TIC_DENO + (TIC_NUME % TIC_DENO)
<1>1. TIC_NUME \in Nat \ {0} /\ TIC_DENO \in Nat \ {0} /\ MODULUS \in Nat /\ TMAX_RELTIM \in Nat
      /\ TMAX_RELTIM + 2 * (TIC_NUME \div TIC_DENO + 1) + 1 < MODULUS
  BY DEF TimeAssumption, TicAssumption, RangeAssumption
<1>2. /\ TIC_NUME = TIC_DENO * (TIC_NUME \div TIC_DENO) + (TIC_NUME % TIC_DENO)
      /\ TIC_NUME % TIC_DENO \in 0 .. TIC_DENO - 1 /\ TIC_NUME \div TIC_DENO \in Nat
  <2>1. TIC_NUME \in Int /\ TIC_DENO \in Nat \ {0} /\ TIC_NUME \div TIC_DENO \in Nat
    BY <1>1
  <2> QED
    BY <2>1, DivMod
<1> DEFINE w == TIC_NUME \div TIC_DENO
           r == TIC_NUME % TIC_DENO
<1>3. w = WholeMs
  BY DEF WholeMs
<1>4. /\ TIC_NUME = TIC_DENO * w + r /\ r \in 0 .. TIC_DENO - 1 /\ w \in Nat
      /\ TMAX_RELTIM + 2 * (w + 1) + 1 < MODULUS
  BY <1>1, <1>2
<1> HIDE DEF w, r
<1>5. TIC_DENO * w = w * TIC_DENO
  BY <1>1, <1>4
<1>6. TIC_NUME = WholeMs * TIC_DENO + r
  BY <1>3, <1>4, <1>5
<1>7. r \in 0 .. TIC_DENO - 1 /\ WholeMs \in Nat /\ TMAX_RELTIM + 2 * (WholeMs + 1) + 1 < MODULUS
  BY <1>3, <1>4
<1> QED
  BY <1>1, <1>6, <1>7 DEF r

\* The distances that OnSchedule compares are numbers.
LEMMA ScheduleNumbers ==
    ASSUME TimeAssumption, HeapTypeOK, IsHeap(tmevt_heap)
    PROVE  /\ SinceMin(current_time) \in Nat /\ SinceMin(next_time) \in Nat
           /\ \A a \in NodesOf(tmevt_heap) : a.time \in EVTTIM /\ a.evt \in EVT /\ SinceMin(a.time) \in Nat
           /\ SinceMin(min_time) = 0
           /\ \A t \in EVTTIM : SinceMin(t) \in Nat
<1>1. ClockTypeOK
  BY ClockIsOK
<1>2. \A t \in EVTTIM : SinceMin(t) \in Nat
  BY <1>1, SinceMinIsNumber DEF EVTTIM
<1>3. \A a \in NodesOf(tmevt_heap) : a.time \in EVTTIM /\ a.evt \in EVT
  BY HeapNodes DEF NodesOf
<1>4. current_time \in EVTTIM /\ next_time \in EVTTIM
  BY DEF HeapTypeOK
<1>5. SinceMin(min_time) = 0
  <2>1. min_time \in Int /\ MODULUS \in Nat \ {0}
    BY <1>1 DEF ClockTypeOK, EVTTIM
  <2>2. min_time - min_time = 0 /\ 0 % MODULUS = 0
    BY <2>1
  <2> QED
    BY <2>2 DEF SinceMin
<1> QED
  BY <1>2, <1>3, <1>4, <1>5

\* Products of numbers
LEMMA Products ==
    ASSUME NEW a \in Int, NEW b \in Int, NEW d \in Int
    PROVE  a * d \in Int /\ (a - b) * d = a * d - b * d /\ (a + b) * d = a * d + b * d
           /\ (a - 1) * d = a * d - d /\ (a + 1) * d = a * d + d
  OBVIOUS

LEMMA ProductGrows ==
    ASSUME NEW a \in Int, NEW b \in Int, NEW d \in Nat, a <= b
    PROVE  a * d <= b * d
<1>1. (b - a) * d = b * d - a * d /\ a * d \in Int /\ b * d \in Int
  OBVIOUS
<1>2. (b - a) * d >= 0
  <2>1. b - a \in Nat
    OBVIOUS
  <2> DEFINE c == b - a
  <2> HIDE DEF c
  <2>2. c \in Nat
    BY <2>1 DEF c
  <2>3. c * d >= 0
    BY <2>2
  <2> QED
    BY <2>3 DEF c
<1> QED
  BY <1>1, <1>2

\* A node that is due has waited for as long as was asked for.
LEMMA DueHasWaited ==
    ASSUME NEW p \in Int, NEW A \in Int, NEW C \in Int, NEW sub \in Nat, NEW mis \in Int,
           NEW N \in Nat, NEW D \in Nat, p <= C, N <= (A - C) * D + sub,
           0 <= ((p - A) * D - sub) - mis
    PROVE  mis + N <= 0
<1> DEFINE pD == p * D
           aD == A * D
           cD == C * D
<1>1. pD \in Int /\ aD \in Int /\ cD \in Int
  OBVIOUS
<1>2. (A - C) * D = aD - cD /\ (p - A) * D = pD - aD
  BY Products
<1>3. pD <= cD
  BY ProductGrows
<1>4. N <= (aD - cD) + sub /\ 0 <= ((pD - aD) - sub) - mis
  BY <1>2
<1> HIDE DEF pD, aD, cD
<1> QED
  BY <1>1, <1>3, <1>4

\* A node that is not due has not waited for a millisecond more than that.
LEMMA NotDueIsNotLate ==
    ASSUME NEW p \in Int, NEW A \in Int, NEW C \in Int, NEW sub \in Nat, NEW mis \in Int,
           NEW N \in Nat, NEW D \in Nat, p >= C + 1, (A - C) * D + sub < N + D,
           ((p - A) * D - sub) - mis < D
    PROVE  mis + N > 1 - D
<1> DEFINE pD == p * D
           aD == A * D
           cD == C * D
<1>1. pD \in Int /\ aD \in Int /\ cD \in Int
  OBVIOUS
<1>2. (A - C) * D = aD - cD /\ (p - A) * D = pD - aD /\ (C + 1) * D = cD + D
  BY Products
<1>3. (C + 1) * D <= pD
  BY ProductGrows
<1>4. (aD - cD) + sub < N + D /\ ((pD - aD) - sub) - mis < D /\ cD + D <= pD
  BY <1>2, <1>3
<1> HIDE DEF pD, aD, cD
<1> QED
  BY <1>1, <1>4

\* The schedule tells nothing of the events that are not in the heap.
LEMMA ScheduleOf ==
    ASSUME NEW min, NEW h, NEW cur, NEW nxt, NEW sub, NEW mis, NEW other,
           ScheduleFrom(min, h, cur, nxt, sub, mis),
           \A a \in NodesOf(h) : other[a.evt] = mis[a.evt]
    PROVE  ScheduleFrom(min, h, cur, nxt, sub, other)
  BY DEF ScheduleFrom

\* The schedule when min_time catches up, for nothing is due
LEMMA ScheduleCatchesUp ==
    ASSUME TimeAssumption, HeapTypeOK, IsHeap(tmevt_heap),
           NEW cur \in EVTTIM, NEW nxt \in EVTTIM, NEW sub \in Int, NEW mis,
           OnSchedule(tmevt_heap, cur, nxt, sub, mis), ~ Due(tmevt_heap, cur),
           \A a \in NodesOf(tmevt_heap) : mis[a.evt] \in Int
    PROVE  /\ ScheduleFrom(cur, tmevt_heap, cur, nxt, sub, mis)
           /\ \A a \in NodesOf(tmevt_heap) : (a.time - cur) % MODULUS >= 1
<1> DEFINE S(t) == (t - cur) % MODULUS
           C == SinceMin(cur)
           A == SinceMin(nxt)
           H == NodesOf(tmevt_heap)
<1>1. ClockTypeOK
  BY ClockIsOK
<1>2. \A t \in EVTTIM : SinceMin(t) \in Nat
  BY ScheduleNumbers
<1>3. \A a \in H : a.time \in EVTTIM /\ a.evt \in EVT
  BY ScheduleNumbers
<1>4. ASSUME NEW t \in EVTTIM, LE(cur, t)
      PROVE  S(t) = SinceMin(t) - C
  BY <1>1, <1>4, Distance
<1>5. ASSUME NEW a \in H
      PROVE  C < SinceMin(a.time)
  <2>1. PICK i \in 1 .. Len(tmevt_heap) : a = tmevt_heap[i]
    BY HeapNodes DEF NodesOf
  <2>2. LE(tmevt_heap[1].time, a.time)
    BY <1>1, <2>1, RootIsFirst
  <2>3. Len(tmevt_heap) \in Nat /\ 1 \in 1 .. Len(tmevt_heap) /\ tmevt_heap # <<>>
    <3>1. Len(tmevt_heap) \in Nat /\ tmevt_heap \in Seq(Node)
      BY HeapNodes
    <3> QED
      BY <2>1, <3>1
  <2>4. tmevt_heap[1].time \in EVTTIM
    BY <2>3, HeapNodes
  <2>5. ~ LE(tmevt_heap[1].time, cur)
    BY <2>3 DEF Due
  <2> QED
    BY <1>2, <1>3, <2>2, <2>4, <2>5 DEF LE
<1>6. C <= A /\ A - C <= WholeMs + 1 /\ C <= WholeMs + 1
      /\ TIC_NUME <= (A - C) * TIC_DENO + sub /\ (A - C) * TIC_DENO + sub < TIC_NUME + TIC_DENO
      /\ \A a \in H :
           LET p == SinceMin(a.time)
               off == ((p - A) * TIC_DENO - sub) - mis[a.evt]
           IN  p <= A + TMAX_RELTIM + 1 /\ 0 <= off /\ off < TIC_DENO
  BY DEF OnSchedule
<1>7. S(nxt) = A - C /\ S(cur) = 0 /\ C \in Nat /\ A \in Nat
  <2>1. LE(cur, nxt) /\ LE(cur, cur)
    BY <1>2, <1>6 DEF LE
  <2>2. S(nxt) = A - C /\ S(cur) = C - C /\ C \in Nat /\ A \in Nat
    BY <1>2, <1>4, <2>1
  <2> HIDE DEF S, A, C
  <2> QED
    BY <2>2
<1>8. ASSUME NEW a \in H
      PROVE  S(a.time) = SinceMin(a.time) - C /\ S(a.time) >= 1 /\ SinceMin(a.time) \in Nat
  <2>1. LE(cur, a.time)
    BY <1>2, <1>3, <1>5 DEF LE
  <2>2. S(a.time) = SinceMin(a.time) - C /\ SinceMin(a.time) \in Nat /\ C < SinceMin(a.time)
    BY <1>2, <1>3, <1>4, <1>5, <2>1
  <2> HIDE DEF S, C
  <2> QED
    BY <1>7, <2>2
<1> HIDE DEF C, A, H
<1>9. WholeMs \in Nat /\ TIC_DENO \in Nat /\ TIC_NUME \in Nat /\ TMAX_RELTIM \in Nat
  BY TickFacts
<1>10. ASSUME NEW a \in H
       PROVE  LET p == S(a.time)
                  off == ((p - S(nxt)) * TIC_DENO - sub) - mis[a.evt]
              IN  p <= S(nxt) + TMAX_RELTIM + 1 /\ 0 <= off /\ off < TIC_DENO
  <2> DEFINE p == SinceMin(a.time)
             q == S(a.time)
             k == mis[a.evt]
  <2>1. p \in Nat /\ q = p - C /\ k \in Int
    BY <1>8 DEF H
  <2>2. /\ p <= A + TMAX_RELTIM + 1
        /\ 0 <= ((p - A) * TIC_DENO - sub) - k
        /\ ((p - A) * TIC_DENO - sub) - k < TIC_DENO
    BY <1>6
  <2> HIDE DEF p, q, k, S
  <2>3. q - S(nxt) = p - A
    BY <1>7, <2>1
  <2>4. q <= S(nxt) + TMAX_RELTIM + 1
    BY <1>7, <1>9, <2>1, <2>2
  <2> QED
    BY <2>1, <2>2, <2>3, <2>4 DEF q, k
<1>11. S(cur) <= S(nxt) /\ S(nxt) - S(cur) = A - C /\ S(cur) <= WholeMs + 1
  <2> HIDE DEF S
  <2> QED
    BY <1>6, <1>7, <1>9
<1>12. ScheduleFrom(cur, tmevt_heap, cur, nxt, sub, mis)
  BY <1>6, <1>10, <1>11 DEF ScheduleFrom, H
<1> QED
  BY <1>8, <1>12 DEF H

\* The events that stay in the heap keep what they asked for.
LEMMA AskedKeeps ==
    ASSUME NEW rel, NEW tik, Asked(rel, tik)
    PROVE  /\ \A a \in NodesOf(tmevt_heap)' : a.evt \in EVT =>
                reltim'[a.evt] = rel[a.evt] /\ ticks'[a.evt] = tik[a.evt]
           /\ cback' \in EVT => reltim'[cback'] = rel[cback'] /\ ticks'[cback'] = tik[cback']
<1>1. \A a \in NodesOf(tmevt_heap)' : InHeap(tmevt_heap', a.evt)
  BY DEF InHeap, NodesOf
<1> QED
  BY <1>1 DEF Asked

\* The schedule of fewer nodes
LEMMA ScheduleOfFewer ==
    ASSUME NEW h, NEW W, NEW cur, NEW nxt, NEW sub, NEW mis,
           OnSchedule(h, cur, nxt, sub, mis), NodesOf(W) \in SUBSET NodesOf(h)
    PROVE  OnSchedule(W, cur, nxt, sub, mis)
<1>1. \A a \in NodesOf(W) : a \in NodesOf(h)
  OBVIOUS
<1> QED
  BY <1>1 DEF OnSchedule

\* The schedule of the state that a step leads to
LEMMA ScheduleLater ==
    ASSUME NEW min, NEW W, NEW cur, NEW nxt, NEW sub, NEW rel, NEW tik,
           ScheduleFrom(min, W, cur, nxt, sub, Missing(rel, tik)),
           min_time' = min, tmevt_heap' = W,
           current_time' = cur, next_time' = nxt, next_subtime' = sub,
           \A a \in NodesOf(W) : a.evt \in EVT /\ reltim'[a.evt] = rel[a.evt] /\ ticks'[a.evt] = tik[a.evt]
    PROVE  OnSchedule(tmevt_heap, current_time, next_time, next_subtime, Missing(reltim, ticks))'
<1> DEFINE other == Missing(reltim', ticks')
           mis == Missing(rel, tik)
<1>1. \A a \in NodesOf(W) : other[a.evt] = mis[a.evt]
  BY DEF Missing
<1> HIDE DEF other, mis
<1>2. ScheduleFrom(min, W, cur, nxt, sub, mis)
  BY DEF mis
<1>3. ScheduleFrom(min, W, cur, nxt, sub, other)
  BY <1>1, <1>2, ScheduleOf
<1>4. ScheduleFrom(min_time', tmevt_heap', current_time', next_time', next_subtime', Missing(reltim', ticks'))
  BY <1>3 DEF other
<1>5. OnSchedule(tmevt_heap, current_time, next_time, next_subtime, Missing(reltim, ticks))'
      <=> ScheduleFrom(min_time', tmevt_heap', current_time', next_time', next_subtime', Missing(reltim', ticks'))
  BY DEF OnSchedule, ScheduleFrom, SinceMin, NodesOf, Missing, WholeMs
<1> QED
  BY <1>4, <1>5

\* A turn of the loop of signal_time keeps the schedule, and calls only events that
\* have waited long enough.
LEMMA TurnTimed ==
    ASSUME TimeAssumption, TimeInv, NEW now \in EVTTIM, NEW nxt \in EVTTIM, NEW sub \in Nat,
           NEW rel, NEW tik, \A e \in EVT : rel[e] \in Int /\ tik[e] \in Int,
           OnSchedule(tmevt_heap, now, nxt, sub, Missing(rel, tik)), Turn(now), Asked(rel, tik),
           current_time' = now, next_time' = nxt, next_subtime' = sub
    PROVE  /\ TimingInv'
           /\ cback' # NoEvt => (ticks'[cback'] - 1) * TIC_NUME >= rel[cback'] * TIC_DENO
<1> DEFINE h == tmevt_heap
           mis == Missing(rel, tik)
<1>0. TIC_NUME \in Nat /\ TIC_DENO \in Nat /\ TIC_NUME \in Int /\ TIC_DENO \in Int
  BY TickFacts
<1>5. ASSUME NEW e \in EVT
      PROVE  mis[e] = rel[e] * TIC_DENO - tik[e] * TIC_NUME /\ mis[e] \in Int
  <2>1. mis[e] = rel[e] * TIC_DENO - tik[e] * TIC_NUME
    BY DEF Missing
  <2>2. rel[e] * TIC_DENO \in Int /\ tik[e] * TIC_NUME \in Int
    BY <1>0, Products
  <2> HIDE DEF mis
  <2> QED
    BY <2>1, <2>2
<1> HIDE DEF mis
<1>1. TypeOK /\ HeapTypeOK /\ HeapInv /\ IsHeap(h) /\ ClockTypeOK
  BY HeapPart, ClockIsOK DEF TimeInv
<1>2. \A a \in NodesOf(h) : a.time \in EVTTIM /\ a.evt \in EVT /\ SinceMin(a.time) \in Nat
  BY <1>1, ScheduleNumbers
<1>3. CASE Due(h, now)
  <2> DEFINE W == Without(h, 1)
             e == h[1].evt
  <2>1. cback' = e /\ SetNodes(W) /\ min_time' = min_time
    BY <1>3 DEF Turn
  <2>2. 1 \in 1 .. Len(h) /\ h[1] \in NodesOf(h)
    <3>1. Len(h) \in Nat /\ h # <<>> /\ h \in Seq(Node) /\ DOMAIN h = 1 .. Len(h)
      BY <1>1, <1>3, HeapNodes DEF Due
    <3>2. 1 \in 1 .. Len(h)
      BY <3>1
    <3> QED
      BY <3>1, <3>2 DEF NodesOf
  <2>3. IsHeap(W) /\ NodesOf(W) \in SUBSET NodesOf(h)
    BY <1>1, <2>2, WithoutIsHeap
  <2> HIDE DEF W
  <2>4. tmevt_heap' = W /\ NodesOf(tmevt_heap)' = NodesOf(W)
    BY <2>1 DEF SetNodes, NodesOf
  <2>5. ScheduleFrom(min_time, W, now, nxt, sub, mis)
    <3>1. OnSchedule(tmevt_heap, now, nxt, sub, mis)
      BY DEF mis
    <3>2. OnSchedule(W, now, nxt, sub, mis)
      BY <2>3, <3>1, ScheduleOfFewer
    <3> QED
      BY <3>2, ScheduleIsFrom
  <2>6. \A a \in NodesOf(W) : a.evt \in EVT /\ reltim'[a.evt] = rel[a.evt] /\ ticks'[a.evt] = tik[a.evt]
    BY <1>2, <2>3, <2>4, AskedKeeps
  <2>7. OnSchedule(tmevt_heap, current_time, next_time, next_subtime, Missing(reltim, ticks))'
    BY <2>1, <2>4, <2>5, <2>6, ScheduleLater DEF mis
  <2>8. cback' # NoEvt
    BY <1>2, <2>1, <2>2 DEF TimeAssumption, NoEvtAssumption
  <2>9. (ticks'[e] - 1) * TIC_NUME >= rel[e] * TIC_DENO
    <3> DEFINE p == SinceMin(h[1].time)
               A == SinceMin(nxt)
               C == SinceMin(now)
    <3>1. p <= C
      BY <1>3 DEF Due, LE
    <3>2. /\ TIC_NUME <= (A - C) * TIC_DENO + sub
          /\ 0 <= ((p - A) * TIC_DENO - sub) - mis[e]
      BY <2>2 DEF OnSchedule, mis
    <3>3. p \in Int /\ A \in Int /\ C \in Int
      BY <1>1, <1>2, <2>2, SinceMinIsNumber
    <3>4. e \in EVT /\ rel[e] \in Int /\ tik[e] \in Int
      BY <1>2, <2>2
    <3>5. mis[e] \in Int /\ mis[e] = rel[e] * TIC_DENO - tik[e] * TIC_NUME
      BY <1>5, <3>4
    <3>6. ticks'[e] = tik[e]
      BY <2>1, <3>4, AskedKeeps
    <3> HIDE DEF p, A, C, e
    <3>7. mis[e] + TIC_NUME <= 0
      BY <1>0, <3>1, <3>2, <3>3, <3>5, DueHasWaited
    <3>8. (tik[e] - 1) * TIC_NUME >= rel[e] * TIC_DENO
      <4> DEFINE k == tik[e] q == rel[e]
      <4>1. k \in Int /\ q \in Int /\ (q * TIC_DENO - k * TIC_NUME) + TIC_NUME <= 0
        BY <3>4, <3>5, <3>7
      <4> HIDE DEF k, q
      <4>2. (k - 1) * TIC_NUME = k * TIC_NUME - TIC_NUME /\ k * TIC_NUME \in Int /\ q * TIC_DENO \in Int
        BY <1>0, <4>1, Products
      <4>3. (k - 1) * TIC_NUME >= q * TIC_DENO
        BY <1>0, <4>1, <4>2
      <4> QED
        BY <4>3 DEF k, q
    <3> QED
      BY <3>6, <3>8
  <2> HIDE DEF e
  <2> QED
    BY <2>1, <2>7, <2>8, <2>9 DEF TimingInv
<1>4. CASE ~ Due(h, now)
  <2>1. min_time' = now /\ cback' = NoEvt /\ tmevt_heap' = h
    BY <1>4 DEF Turn, heapVars
  <2>2. NodesOf(tmevt_heap)' = NodesOf(h)
    BY <2>1 DEF NodesOf
  <2>3. \A a \in NodesOf(h) : a.evt \in EVT /\ mis[a.evt] \in Int
                              /\ reltim'[a.evt] = rel[a.evt] /\ ticks'[a.evt] = tik[a.evt]
    BY <1>2, <1>5, <2>2, AskedKeeps
  <2>4. /\ ScheduleFrom(now, tmevt_heap, now, nxt, sub, mis)
        /\ \A a \in NodesOf(tmevt_heap) : (a.time - now) % MODULUS >= 1
    <3>1. OnSchedule(tmevt_heap, now, nxt, sub, mis) /\ sub \in Int
      BY DEF mis
    <3> QED
      BY <1>1, <1>4, <2>3, <3>1, ScheduleCatchesUp
  <2>5. OnSchedule(tmevt_heap, current_time, next_time, next_subtime, Missing(reltim, ticks))'
    BY <2>1, <2>3, <2>4, ScheduleLater DEF mis
  <2>6. (\A a \in NodesOf(tmevt_heap) : SinceMin(a.time) >= 1)'
    BY <2>1, <2>2, <2>4 DEF SinceMin
  <2> QED
    BY <2>1, <2>5, <2>6 DEF TimingInv
<1> QED
  BY <1>3, <1>4

\* A tick moves the schedule on by TIC_NUME / TIC_DENO ms.
LEMMA AdvanceTimed ==
    ASSUME TimeAssumption, HeapInv, Advance, min_time = current_time,
           NEW mis, \A e \in EVT : mis[e] \in Int,
           OnSchedule(tmevt_heap, current_time, next_time, next_subtime, mis)
    PROVE  OnSchedule(tmevt_heap, current_time', next_time', next_subtime',
                      [e \in EVT |-> mis[e] - TIC_NUME])
<1> DEFINE r == TIC_NUME % TIC_DENO
           w == WholeMs
           c == IF next_subtime + r >= TIC_DENO THEN 1 ELSE 0
           A == SinceMin(next_time)
           B == SinceMin(next_time')
           sub2 == next_subtime'
           less == [e \in EVT |-> mis[e] - TIC_NUME]
<1>1. HeapTypeOK /\ IsHeap(tmevt_heap) /\ ClockTypeOK
  BY ClockIsOK DEF HeapInv
<1>2. /\ TIC_NUME \in Nat /\ TIC_NUME >= 1 /\ TIC_DENO \in Nat /\ TIC_DENO >= 1
      /\ w \in Nat /\ TMAX_RELTIM \in Nat /\ MODULUS \in Nat
      /\ TMAX_RELTIM + 2 * (w + 1) + 1 < MODULUS
      /\ r \in 0 .. TIC_DENO - 1 /\ TIC_NUME = w * TIC_DENO + r
  BY TickFacts
<1>3. /\ current_time' = next_time
      /\ next_time' = Plus(next_time, w + c)
      /\ sub2 = (next_subtime + r) - c * TIC_DENO
  BY DEF Advance, WholeMs
<1> HIDE DEF r, w, sub2
<1>4. c \in {0, 1} /\ w + c \in Nat
  BY <1>2
<1> HIDE DEF c
<1>5. /\ SinceMin(current_time) = 0 /\ A \in Nat /\ next_time \in EVTTIM
      /\ \A a \in NodesOf(tmevt_heap) : a.time \in EVTTIM /\ a.evt \in EVT /\ SinceMin(a.time) \in Nat
  BY <1>1, ScheduleNumbers DEF HeapTypeOK
<1>6. /\ A <= w + 1
      /\ \A a \in NodesOf(tmevt_heap) :
           LET p == SinceMin(a.time)
               off == ((p - A) * TIC_DENO - next_subtime) - mis[a.evt]
           IN  p <= A + TMAX_RELTIM + 1 /\ 0 <= off /\ off < TIC_DENO
  <2>1. A - 0 <= w + 1
    BY <1>5 DEF OnSchedule, w
  <2> HIDE DEF A
  <2>2. A <= w + 1
    BY <1>2, <1>5, <2>1
  <2> QED
    BY <2>2 DEF OnSchedule, A
<1>7. B = A + (w + c)
  <2>1. A + (w + c) < MODULUS
    <3> HIDE DEF A
    <3> QED
      BY <1>2, <1>4, <1>5, <1>6
  <2> DEFINE d == w + c
  <2>2. d \in Nat /\ SinceMin(next_time) + d < MODULUS
    BY <1>4, <2>1
  <2> HIDE DEF d
  <2>3. SinceMin(Plus(next_time, d)) = SinceMin(next_time) + d
    BY <1>1, <1>5, <2>2, PlusMoves
  <2> QED
    BY <1>3, <2>3 DEF d
<1> HIDE DEF A, B
<1>8. next_subtime \in Nat /\ sub2 \in Int
  <2>1. next_subtime \in Nat
    BY <1>1, <1>2 DEF HeapTypeOK
  <2> QED
    BY <1>2, <1>3, <1>4, <2>1
\* The next tick is a tick later.
<1>9. (w + c) * TIC_DENO + sub2 = TIC_NUME + next_subtime
  <2>1. (w + c) * TIC_DENO = w * TIC_DENO + c * TIC_DENO /\ w * TIC_DENO \in Int /\ c * TIC_DENO \in Int
    BY <1>2, <1>4, Products
  <2> QED
    BY <1>2, <1>3, <1>8, <2>1
<1>10. /\ A <= B /\ B - A = w + c /\ B - A <= w + 1 /\ B \in Nat
       /\ TIC_NUME <= (B - A) * TIC_DENO + sub2 /\ (B - A) * TIC_DENO + sub2 < TIC_NUME + TIC_DENO
  <2>1. B - A = w + c /\ A <= B /\ B - A <= w + 1 /\ B \in Nat
    BY <1>2, <1>4, <1>5, <1>7
  <2>2. next_subtime < TIC_DENO
    BY <1>1, <1>2 DEF HeapTypeOK
  <2> QED
    BY <1>2, <1>8, <1>9, <2>1, <2>2
<1>11. ASSUME NEW a \in NodesOf(tmevt_heap)
       PROVE  LET p == SinceMin(a.time)
                  off == ((p - B) * TIC_DENO - sub2) - less[a.evt]
              IN  p <= B + TMAX_RELTIM + 1 /\ 0 <= off /\ off < TIC_DENO
  <2> DEFINE p == SinceMin(a.time)
             k == mis[a.evt]
  <2>1. p \in Int /\ k \in Int /\ a.evt \in EVT /\ less[a.evt] = k - TIC_NUME
    BY <1>5
  <2>2. /\ p <= A + TMAX_RELTIM + 1
        /\ 0 <= ((p - A) * TIC_DENO - next_subtime) - k
        /\ ((p - A) * TIC_DENO - next_subtime) - k < TIC_DENO
    BY <1>6
  <2> HIDE DEF p, k, less
  <2> DEFINE x == (p - A) * TIC_DENO
             v == (w + c) * TIC_DENO
  <2>3. (p - B) * TIC_DENO = x - v /\ x \in Int /\ v \in Int
    <3>1. p - B = (p - A) - (w + c) /\ p - A \in Int /\ w + c \in Int
      BY <1>4, <1>5, <1>10, <2>1
    <3> DEFINE s == p - A
               t == w + c
    <3>2. s \in Int /\ t \in Int /\ p - B = s - t
      BY <3>1
    <3> HIDE DEF s, t
    <3>3. (s - t) * TIC_DENO = s * TIC_DENO - t * TIC_DENO
          /\ s * TIC_DENO \in Int /\ t * TIC_DENO \in Int
      BY <1>2, <3>2, Products
    <3> QED
      BY <3>2, <3>3 DEF s, t
  <2> HIDE DEF x, v
  <2>4. v + sub2 = TIC_NUME + next_subtime
    BY <1>9 DEF v
  <2>5. 0 <= (x - next_subtime) - k /\ (x - next_subtime) - k < TIC_DENO
    BY <2>2 DEF x
  <2>6. /\ 0 <= ((x - v) - sub2) - (k - TIC_NUME)
        /\ ((x - v) - sub2) - (k - TIC_NUME) < TIC_DENO
    BY <1>2, <1>8, <2>1, <2>3, <2>4, <2>5
  <2>7. p <= B + TMAX_RELTIM + 1
    BY <1>2, <1>5, <1>10, <2>1, <2>2
  <2> QED
    BY <2>1, <2>3, <2>6, <2>7 DEF p
<1>12. SinceMin(current_time') = A
  BY <1>3 DEF A
<1>13. A <= WholeMs + 1 /\ B - A <= WholeMs + 1
  BY <1>6, <1>10 DEF w
<1> QED
  BY <1>10, <1>11, <1>12, <1>13 DEF OnSchedule, B, sub2

\* base_time is the next tick, rounded up to a full millisecond.
LEMMA BaseTimeMoves ==
    ASSUME TimeAssumption, HeapInv, NEW mis, NEW time \in RELTIM,
           OnSchedule(tmevt_heap, current_time, next_time, next_subtime, mis)
    PROVE  LET c == IF next_subtime > 0 THEN 1 ELSE 0
           IN  /\ SinceMin(base_time) = SinceMin(next_time) + c
               /\ SinceMin(Plus(base_time, time)) = SinceMin(next_time) + c + time
               /\ Plus(base_time, time) \in EVTTIM
<1> DEFINE c == IF next_subtime > 0 THEN 1 ELSE 0
           A == SinceMin(next_time)
           C == SinceMin(current_time)
<1>1. HeapTypeOK /\ IsHeap(tmevt_heap) /\ ClockTypeOK
  BY ClockIsOK DEF HeapInv
<1>2. /\ WholeMs \in Nat /\ TMAX_RELTIM \in Nat /\ MODULUS \in Nat
      /\ TMAX_RELTIM + 2 * (WholeMs + 1) + 1 < MODULUS
  BY TickFacts
<1>3. A \in Nat /\ C \in Nat /\ next_time \in EVTTIM
  BY <1>1, ScheduleNumbers DEF HeapTypeOK
<1>4. A - C <= WholeMs + 1 /\ C <= WholeMs + 1
  BY DEF OnSchedule
<1>5. base_time = Plus(next_time, c) /\ c \in Nat /\ c <= 1
  BY DEF base_time
<1>6. time \in Nat /\ time <= TMAX_RELTIM
  BY <1>2 DEF RELTIM
<1>7. A + c < MODULUS /\ A + c + time < MODULUS
  <2> HIDE DEF A, C, c
  <2> QED
    BY <1>2, <1>3, <1>4, <1>5, <1>6
<1>8. SinceMin(base_time) = A + c
  <2> HIDE DEF c
  <2>1. SinceMin(next_time) + c < MODULUS
    BY <1>7
  <2> QED
    BY <1>1, <1>3, <1>5, <2>1, PlusMoves
<1>9. base_time \in EVTTIM /\ Plus(base_time, time) \in EVTTIM
  BY <1>1, PlusIsTime
<1>10. SinceMin(Plus(base_time, time)) = A + c + time
  <2> HIDE DEF c, A
  <2>1. SinceMin(base_time) + time < MODULUS
    BY <1>7, <1>8
  <2>2. SinceMin(Plus(base_time, time)) = SinceMin(base_time) + time
    BY <1>1, <1>6, <1>9, <2>1, PlusMoves
  <2> QED
    BY <1>8, <2>2
<1> QED
  BY <1>8, <1>9, <1>10

\* An event registered for time ms after base_time is on schedule, time ms missing,
\* and it is in the future.
LEMMA NewOnSchedule ==
    ASSUME TimeAssumption, HeapInv, NEW mis, NEW e \in EVT, NEW time \in RELTIM,
           OnSchedule(tmevt_heap, current_time, next_time, next_subtime, mis),
           NEW W, NodesOf(W) \in SUBSET (NodesOf(tmevt_heap)
                                   \cup {[time |-> Plus(base_time, time), evt |-> e]}),
           NEW other, other[e] = time * TIC_DENO,
           \A a \in NodesOf(W) : a.evt # e => other[a.evt] = mis[a.evt],
           \A a \in NodesOf(W) : a.evt = e => a.time = Plus(base_time, time)
    PROVE  /\ ScheduleFrom(min_time, W, current_time, next_time, next_subtime, other)
           /\ Plus(base_time, time) \in EVTTIM
           /\ min_time = current_time => SinceMin(Plus(base_time, time)) >= 1
<1> DEFINE at == Plus(base_time, time)
           c == IF next_subtime > 0 THEN 1 ELSE 0
           A == SinceMin(next_time)
           C == SinceMin(current_time)
<1>1. HeapTypeOK /\ IsHeap(tmevt_heap) /\ ClockTypeOK
  BY ClockIsOK DEF HeapInv
<1>2. at \in EVTTIM /\ SinceMin(at) = A + c + time
  BY BaseTimeMoves
<1> HIDE DEF at
<1>3. /\ TIC_NUME \in Nat /\ TIC_NUME >= 1 /\ TIC_DENO \in Nat /\ TIC_DENO >= 1
      /\ TMAX_RELTIM \in Nat /\ time \in Nat /\ time <= TMAX_RELTIM
      /\ next_subtime \in Nat /\ next_subtime < TIC_DENO
  <2>1. TIC_NUME \in Nat /\ TIC_NUME >= 1 /\ TIC_DENO \in Nat /\ TIC_DENO >= 1 /\ TMAX_RELTIM \in Nat
    BY TickFacts
  <2> QED
    BY <1>1, <2>1 DEF HeapTypeOK, RELTIM
<1>4. A \in Nat /\ C \in Nat /\ SinceMin(min_time) = 0
  BY <1>1, ScheduleNumbers
<1>5. c \in {0, 1} /\ (next_subtime > 0 => c = 1) /\ (next_subtime = 0 => c = 0)
  BY <1>3
<1>6. TIC_NUME <= (A - C) * TIC_DENO + next_subtime
  BY DEF OnSchedule
<1> HIDE DEF A, C, c
<1>7. LET p == SinceMin(at)
          off == ((p - A) * TIC_DENO - next_subtime) - time * TIC_DENO
      IN  p <= A + TMAX_RELTIM + 1 /\ 0 <= off /\ off < TIC_DENO
  <2> DEFINE p == SinceMin(at)
             cD == c * TIC_DENO
             tD == time * TIC_DENO
  <2>1. p - A = c + time /\ p <= A + TMAX_RELTIM + 1
    BY <1>2, <1>3, <1>4, <1>5
  <2>2. (c + time) * TIC_DENO = cD + tD /\ cD \in Int /\ tD \in Int
    BY <1>3, <1>5, Products
  <2>3. cD = (IF next_subtime > 0 THEN TIC_DENO ELSE 0)
    BY <1>3, <1>5
  <2> HIDE DEF p, cD, tD
  <2>4. /\ 0 <= ((cD + tD) - next_subtime) - tD
        /\ ((cD + tD) - next_subtime) - tD < TIC_DENO
    BY <1>3, <2>2, <2>3
  <2>5. /\ 0 <= ((c + time) * TIC_DENO - next_subtime) - time * TIC_DENO
        /\ ((c + time) * TIC_DENO - next_subtime) - time * TIC_DENO < TIC_DENO
    BY <2>2, <2>4 DEF tD
  <2> QED
    BY <2>1, <2>5 DEF p
<1>8. \A a \in NodesOf(W) : a.evt # e => a \in NodesOf(tmevt_heap)
  <2>1. \A a \in NodesOf(W) : a \in NodesOf(tmevt_heap) \/ a = [time |-> Plus(base_time, time), evt |-> e]
    OBVIOUS
  <2>2. [time |-> Plus(base_time, time), evt |-> e].evt = e
    OBVIOUS
  <2> QED
    BY <2>1, <2>2
<1>9. OnSchedule(W, current_time, next_time, next_subtime, other)
  <2>1. ASSUME NEW a \in NodesOf(W)
        PROVE  LET p == SinceMin(a.time)
                   off == ((p - A) * TIC_DENO - next_subtime) - other[a.evt]
               IN  p <= A + TMAX_RELTIM + 1 /\ 0 <= off /\ off < TIC_DENO
    <3>1. CASE a.evt = e
      BY <1>7, <3>1 DEF at
    <3>2. CASE a.evt # e
      <4>1. a \in NodesOf(tmevt_heap) /\ other[a.evt] = mis[a.evt]
        BY <1>8, <3>2
      <4> QED
        BY <4>1 DEF OnSchedule, A
    <3> QED
      BY <3>1, <3>2
  <2> QED
    BY <2>1 DEF OnSchedule, A
<1>10. ASSUME min_time = current_time
       PROVE  SinceMin(at) >= 1
  <2>1. C = 0
    BY <1>4, <1>10 DEF C
  <2>2. A >= 1 \/ next_subtime > 0
    <3> SUFFICES ASSUME A = 0, next_subtime = 0
                 PROVE  FALSE
      BY <1>3, <1>4
    <3>1. (A - C) * TIC_DENO = 0
      BY <1>3, <2>1
    <3> QED
      BY <1>3, <1>6, <3>1
  <2> QED
    BY <1>2, <1>3, <1>4, <1>5, <2>2
<1> QED
  BY <1>2, <1>9, <1>10, ScheduleIsFrom DEF at

\* An event that is registered is on schedule.
LEMMA EnqueueTimed ==
    ASSUME TimeAssumption, TimeInv, TimingInv, NEW e \in EVT, NEW time \in RELTIM, Enqueue(e, time)
    PROVE  TimingInv'
<1> DEFINE at == Plus(base_time, time)
           W == With(tmevt_heap, e, at)
           new == [time |-> at, evt |-> e]
           rel == [reltim EXCEPT ![e] = time]
           tik == [ticks EXCEPT ![e] = 0]
           mis == Missing(reltim, ticks)
           other == Missing(rel, tik)
<1>1. TypeOK /\ HeapTypeOK /\ HeapInv /\ IsHeap(tmevt_heap) /\ ClockTypeOK
  BY ClockIsOK, HeapPart DEF TimeInv
<1>2. ~ InHeap(tmevt_heap, e) /\ SetNodes(W) /\ UNCHANGED <<clockVars, cback>> /\ Asked(rel, tik)
  BY DEF Enqueue, Registered
<1>3. at \in EVTTIM
  BY <1>1, PlusIsTime
<1> HIDE DEF at
<1>4. IsHeap(W) /\ NodesOf(W) = NodesOf(tmevt_heap) \cup {new}
  BY <1>1, <1>2, <1>3, WithIsHeap
<1> HIDE DEF W
<1>5. tmevt_heap' = W /\ NodesOf(tmevt_heap)' = NodesOf(W)
  BY <1>2 DEF SetNodes, NodesOf
<1>6. \A a \in NodesOf(tmevt_heap) : a.evt \in EVT /\ a.evt # e /\ a.time \in EVTTIM
  BY <1>1, <1>2, ScheduleNumbers DEF InHeap, NodesOf
<1>7. /\ new.evt = e /\ new.time = at /\ rel[e] = time /\ tik[e] = 0
      /\ \A a \in NodesOf(tmevt_heap) : rel[a.evt] = reltim[a.evt] /\ tik[a.evt] = ticks[a.evt]
  BY <1>1, <1>6 DEF TypeOK
<1>8. \A a \in NodesOf(W) : a.evt = e => a.time = at
  BY <1>4, <1>6, <1>7
<1> HIDE DEF new, rel, tik
<1>9. \A a \in NodesOf(W) : a.evt \in EVT /\ reltim'[a.evt] = rel[a.evt] /\ ticks'[a.evt] = tik[a.evt]
  BY <1>2, <1>4, <1>5, <1>6, <1>7, AskedKeeps
<1>10. other[e] = time * TIC_DENO
  <2>1. TIC_NUME \in Nat /\ TIC_DENO \in Nat /\ time \in Nat
    BY TickFacts DEF RELTIM
  <2>2. other[e] = time * TIC_DENO - 0 * TIC_NUME
    BY <1>7 DEF Missing
  <2> HIDE DEF other
  <2> QED
    BY <2>1, <2>2
<1>11. \A a \in NodesOf(W) : a.evt # e => other[a.evt] = mis[a.evt]
  BY <1>4, <1>6, <1>7 DEF Missing
<1>12. OnSchedule(tmevt_heap, current_time, next_time, next_subtime, mis)
  BY DEF TimingInv
<1> HIDE DEF mis, other
<1>13. /\ ScheduleFrom(min_time, W, current_time, next_time, next_subtime, other)
       /\ min_time = current_time => SinceMin(at) >= 1
  <2>1. NodesOf(W) \in SUBSET (NodesOf(tmevt_heap) \cup {[time |-> Plus(base_time, time), evt |-> e]})
    BY <1>4 DEF new, at
  <2>2. \A a \in NodesOf(W) : a.evt = e => a.time = Plus(base_time, time)
    BY <1>8 DEF at
  <2>3. /\ ScheduleFrom(min_time, W, current_time, next_time, next_subtime, other)
        /\ min_time = current_time => SinceMin(Plus(base_time, time)) >= 1
    BY <1>1, <1>10, <1>11, <1>12, <2>1, <2>2, NewOnSchedule
  <2> QED
    BY <2>3 DEF at
<1>14. OnSchedule(tmevt_heap, current_time, next_time, next_subtime, Missing(reltim, ticks))'
  BY <1>2, <1>5, <1>9, <1>13, ScheduleLater DEF clockVars, other
<1>15. ASSUME cback' = NoEvt
       PROVE  (min_time = current_time /\ \A a \in NodesOf(tmevt_heap) : SinceMin(a.time) >= 1)'
  <2>1. min_time = current_time /\ \A a \in NodesOf(tmevt_heap) : SinceMin(a.time) >= 1
    BY <1>2, <1>15 DEF TimingInv
  <2>2. \A a \in NodesOf(W) : SinceMin(a.time) >= 1
    BY <1>4, <1>7, <1>13, <2>1
  <2> QED
    BY <1>2, <1>5, <2>1, <2>2 DEF SinceMin, clockVars
<1> QED
  BY <1>14, <1>15 DEF TimingInv

\* The others stay on schedule when one is removed.
LEMMA DequeueTimed ==
    ASSUME TimeAssumption, TimeInv, TimingInv, NEW e \in EVT, Dequeue(e)
    PROVE  TimingInv'
<1> DEFINE W == Without(tmevt_heap, index[e])
<1>1. TypeOK /\ HeapTypeOK /\ HeapInv /\ IsHeap(tmevt_heap)
  BY HeapPart DEF TimeInv
<1>2. SetNodes(W) /\ UNCHANGED <<clockVars, cback>> /\ Asked(reltim, ticks)
  BY DEF Dequeue
<1> HIDE DEF W
<1>3. tmevt_heap' = W /\ NodesOf(tmevt_heap)' = NodesOf(W)
  BY <1>2 DEF SetNodes, NodesOf
<1>4. NodesOf(W) \in SUBSET NodesOf(tmevt_heap)
  BY <1>3, DequeueKeeps
<1>5. \A a \in NodesOf(W) : a.evt \in EVT /\ reltim'[a.evt] = reltim[a.evt] /\ ticks'[a.evt] = ticks[a.evt]
  BY <1>1, <1>2, <1>3, <1>4, AskedKeeps, ScheduleNumbers
<1>6. ScheduleFrom(min_time, W, current_time, next_time, next_subtime, Missing(reltim, ticks))
  BY <1>4, ScheduleOfFewer, ScheduleIsFrom DEF TimingInv
<1>7. OnSchedule(tmevt_heap, current_time, next_time, next_subtime, Missing(reltim, ticks))'
  BY <1>2, <1>3, <1>5, <1>6, ScheduleLater DEF clockVars
<1>8. ASSUME cback' = NoEvt
      PROVE  (min_time = current_time /\ \A a \in NodesOf(tmevt_heap) : SinceMin(a.time) >= 1)'
  <2>1. min_time = current_time /\ \A a \in NodesOf(tmevt_heap) : SinceMin(a.time) >= 1
    BY <1>2, <1>8 DEF TimingInv
  <2>2. \A a \in NodesOf(W) : SinceMin(a.time) >= 1
    BY <1>4, <2>1
  <2> QED
    BY <1>2, <1>3, <2>1, <2>2 DEF SinceMin, clockVars
<1> QED
  BY <1>7, <1>8 DEF TimingInv

\* signal_time keeps the schedule and is early with nothing.
LEMMA SignalTimeTimed ==
    ASSUME TimeAssumption, TimeInv, TimingInv, SignalTime
    PROVE  TimingInv' /\ CalledInTime
<1> DEFINE now == current_time'
           nxt == next_time'
           sub == next_subtime'
           tik == [e \in EVT |-> ticks[e] + 1]
<1>1. TypeOK /\ HeapTypeOK /\ HeapInv
  BY HeapPart DEF TimeInv
<1>2. cback = NoEvt /\ Advance /\ Turn(now) /\ Asked(reltim, tik)
  BY DEF SignalTime
<1>3. now \in EVTTIM /\ nxt \in EVTTIM /\ sub \in Nat
  <2>1. now \in EVTTIM /\ nxt \in EVTTIM /\ sub \in 0 .. TIC_DENO - 1
    BY <1>1, <1>2, AdvanceTyped
  <2> QED
    BY <2>1
<1>5. \A e \in EVT : reltim[e] \in Int /\ tik[e] \in Int
  <2>1. TMAX_RELTIM \in Nat
    BY TickFacts
  <2> QED
    BY <1>1, <2>1 DEF TypeOK, RELTIM
<1>4. OnSchedule(tmevt_heap, now, nxt, sub, Missing(reltim, tik))
  <2> DEFINE mis == Missing(reltim, ticks)
             less == [e \in EVT |-> mis[e] - TIC_NUME]
  <2>1. TIC_NUME \in Nat /\ TIC_DENO \in Nat /\ TIC_NUME \in Int /\ TIC_DENO \in Int
    BY TickFacts
  <2>2. ASSUME NEW e \in EVT
        PROVE  mis[e] \in Int /\ mis[e] - TIC_NUME = reltim[e] * TIC_DENO - tik[e] * TIC_NUME
    <3> DEFINE q == reltim[e] k == ticks[e]
    <3>1. q \in Int /\ k \in Int
      BY <1>1, <1>5 DEF TypeOK
    <3>2. mis[e] = q * TIC_DENO - k * TIC_NUME /\ tik[e] = k + 1
      BY DEF Missing
    <3> HIDE DEF q, k, mis, tik
    <3>3. q * TIC_DENO \in Int /\ k * TIC_NUME \in Int /\ (k + 1) * TIC_NUME = k * TIC_NUME + TIC_NUME
      BY <2>1, <3>1, Products
    <3>4. mis[e] \in Int /\ mis[e] - TIC_NUME = q * TIC_DENO - tik[e] * TIC_NUME
      BY <2>1, <3>2, <3>3
    <3> QED
      BY <3>4 DEF q
  <2>3. less = Missing(reltim, tik)
    <3> HIDE DEF mis, tik
    <3> QED
      BY <2>2 DEF Missing
  <2>4. OnSchedule(tmevt_heap, current_time, next_time, next_subtime, mis) /\ min_time = current_time
    BY <1>2 DEF TimingInv
  <2> HIDE DEF mis
  <2>5. OnSchedule(tmevt_heap, current_time', next_time', next_subtime', less)
    BY <1>1, <1>2, <2>2, <2>4, AdvanceTimed
  <2> HIDE DEF less, tik
  <2> QED
    BY <2>3, <2>5
<1> HIDE DEF now, nxt, sub, tik
<1>6. current_time' = now /\ next_time' = nxt /\ next_subtime' = sub
  BY DEF now, nxt, sub
<1>7. /\ TimingInv'
      /\ cback' # NoEvt => (ticks'[cback'] - 1) * TIC_NUME >= reltim[cback'] * TIC_DENO
  BY <1>2, <1>3, <1>4, <1>5, <1>6, TurnTimed
<1> QED
  BY <1>7 DEF CalledInTime

LEMMA CallbackReturnsTimed ==
    ASSUME TimeAssumption, TimeInv, TimingInv, CallbackReturns
    PROVE  TimingInv' /\ CalledInTime
<1>1. TypeOK /\ HeapTypeOK /\ HeapInv
  BY HeapPart DEF TimeInv
<1>2. Turn(current_time) /\ Asked(reltim, ticks) /\ UNCHANGED <<current_time, next_time, next_subtime>>
  BY DEF CallbackReturns
<1>3. current_time \in EVTTIM /\ next_time \in EVTTIM /\ next_subtime \in Nat
  BY <1>1 DEF TypeOK
<1>4. OnSchedule(tmevt_heap, current_time, next_time, next_subtime, Missing(reltim, ticks))
  BY DEF TimingInv
<1>5. \A e \in EVT : reltim[e] \in Int /\ ticks[e] \in Int
  <2>1. TMAX_RELTIM \in Nat
    BY TickFacts
  <2> QED
    BY <1>1, <2>1 DEF TypeOK, RELTIM
<1>6. /\ TimingInv'
      /\ cback' # NoEvt => (ticks'[cback'] - 1) * TIC_NUME >= reltim[cback'] * TIC_DENO
  BY <1>2, <1>3, <1>4, <1>5, TurnTimed
<1> QED
  BY <1>6 DEF CalledInTime

\* Nothing is registered at first, and the first tick is a tick away.
LEMMA TimingInit ==
    ASSUME TimeAssumption, Init
    PROVE  TimingInv
<1>1. /\ tmevt_heap = <<>> /\ current_time = 0 /\ min_time = 0 /\ cback = NoEvt
      /\ next_time = WholeMs /\ next_subtime = TIC_NUME % TIC_DENO
  BY DEF Init, HeapInit, WholeMs
<1>2. /\ TIC_NUME \in Nat /\ TIC_DENO \in Nat /\ TIC_DENO >= 1 /\ WholeMs \in Nat /\ MODULUS \in Nat
      /\ WholeMs < MODULUS /\ TIC_NUME % TIC_DENO \in 0 .. TIC_DENO - 1
      /\ TIC_NUME = WholeMs * TIC_DENO + (TIC_NUME % TIC_DENO)
  <2> DEFINE r == TIC_NUME % TIC_DENO
  <2>1. /\ TIC_NUME \in Nat /\ TIC_DENO \in Nat /\ TIC_DENO >= 1
        /\ WholeMs \in Nat /\ TMAX_RELTIM \in Nat /\ MODULUS \in Nat
        /\ TMAX_RELTIM + 2 * (WholeMs + 1) + 1 < MODULUS
        /\ r \in 0 .. TIC_DENO - 1 /\ TIC_NUME = WholeMs * TIC_DENO + r
    BY TickFacts
  <2> HIDE DEF r
  <2>2. WholeMs < MODULUS
    BY <2>1
  <2> QED
    BY <2>1, <2>2 DEF r
<1>3. SinceMin(0) = 0 /\ SinceMin(WholeMs) = WholeMs
  <2>1. WholeMs \in 0 .. MODULUS - 1 /\ 0 \in 0 .. MODULUS - 1 /\ MODULUS \in Nat \ {0}
    BY <1>2
  <2>2. \A a \in 0 .. MODULUS - 1 : a - 0 = a /\ a % MODULUS = a
    BY <2>1
  <2> QED
    BY <1>1, <2>1, <2>2 DEF SinceMin
<1>4. NodesOf(tmevt_heap) = {}
  BY <1>1 DEF NodesOf
<1>5. (WholeMs - 0) * TIC_DENO = WholeMs * TIC_DENO /\ WholeMs * TIC_DENO \in Int
  BY <1>2
<1>6. /\ 0 <= WholeMs /\ WholeMs - 0 <= WholeMs + 1 /\ 0 <= WholeMs + 1
      /\ TIC_NUME <= (WholeMs - 0) * TIC_DENO + next_subtime
      /\ (WholeMs - 0) * TIC_DENO + next_subtime < TIC_NUME + TIC_DENO
  BY <1>1, <1>2, <1>5
<1> QED
  BY <1>1, <1>3, <1>4, <1>6 DEF TimingInv, OnSchedule

\* Every step keeps the invariants, and no callback is early.
LEMMA EventStep ==
    ASSUME TimeAssumption, TimeInv, TimingInv, Next
    PROVE  TimeInv' /\ TimingInv' /\ CalledInTime
<1>1. ASSUME NEW e \in EVT, Dequeue(e)
      PROVE  TimeInv' /\ TimingInv' /\ CalledInTime
  BY <1>1, DequeueKeeps, DequeueTimed DEF Dequeue, CalledInTime
<1>2. ASSUME NEW e \in EVT, NEW time \in RELTIM, Enqueue(e, time)
      PROVE  TimeInv' /\ TimingInv' /\ CalledInTime
  BY <1>2, EnqueueKeeps, EnqueueTimed DEF Enqueue, CalledInTime
<1>3. CASE SignalTime
  BY <1>3, SignalTimeKeeps, SignalTimeTimed
<1>4. CASE CallbackReturns
  BY <1>4, CallbackReturnsKeeps, CallbackReturnsTimed
<1> QED
  BY <1>1, <1>2, <1>3, <1>4 DEF Next

\* Nothing changes.
LEMMA EventStutter ==
    ASSUME TimeInv, TimingInv, UNCHANGED vars
    PROVE  TimeInv' /\ TimingInv'
<1>1. UNCHANGED <<tmevt_heap, index, current_time, min_time, next_time, next_subtime, cback,
                  reltim, ticks>>
  BY DEF vars, heapVars, clockVars, askVars
<1>2. TimeInv'
  BY <1>1 DEF TimeInv, TypeOK, IsHeap, InOrder, OnceEach, IndexOK, InHeap, NodeOf, LE,
              SinceMin, Node, EVTTIM, RELTIM
<1>3. TimingInv'
  BY <1>1 DEF TimingInv, OnSchedule, NodesOf, SinceMin, WholeMs
<1> QED
  BY <1>2, <1>3

\* The heap is in order and on schedule in every state.
THEOREM TimingInvariance ==
    ASSUME TimeAssumption
    PROVE  Spec => [](TimeInv /\ TimingInv)
<1>1. Init => TimeInv /\ TimingInv
  BY TimeInitInv, TimingInit
<1>2. TimeInv /\ TimingInv /\ [Next]_vars => (TimeInv /\ TimingInv)'
  <2> SUFFICES ASSUME TimeInv, TimingInv, [Next]_vars
               PROVE  TimeInv' /\ TimingInv'
    OBVIOUS
  <2>1. CASE Next
    BY <2>1, EventStep
  <2>2. CASE UNCHANGED vars
    BY <2>2, EventStutter
  <2> QED
    BY <2>1, <2>2
<1> QED
  BY <1>1, <1>2, PTL DEF Spec

\* What OnSchedule says of the node of an event, when signal_time has ended
LEMMA ScheduleOfEvent ==
    ASSUME TimeAssumption, TimeInv, TimingInv, NEW e \in EVT, Registered(e), cback = NoEvt
    PROVE  LET p == SinceMin(tmevt_heap[index[e]].time)
               A == SinceMin(next_time)
               off == ((p - A) * TIC_DENO - next_subtime) - (reltim[e] * TIC_DENO - ticks[e] * TIC_NUME)
           IN  /\ p \in Nat /\ A \in Nat /\ p >= 1 /\ p <= A + TMAX_RELTIM + 1
               /\ tmevt_heap[index[e]].time \in EVTTIM
               /\ 0 <= off /\ off < TIC_DENO
               /\ TIC_NUME <= A * TIC_DENO + next_subtime
               /\ A * TIC_DENO + next_subtime < TIC_NUME + TIC_DENO
               /\ A <= WholeMs + 1
<1> DEFINE a == tmevt_heap[index[e]]
           p == SinceMin(a.time)
           A == SinceMin(next_time)
           C == SinceMin(current_time)
<1>1. TypeOK /\ HeapTypeOK /\ HeapInv /\ IsHeap(tmevt_heap)
  BY HeapPart DEF TimeInv
<1>2. a \in NodesOf(tmevt_heap) /\ a.evt = e
  BY RegisteredNode, HeapPart
<1>3. a.time \in EVTTIM /\ p \in Nat /\ A \in Nat /\ SinceMin(min_time) = 0
  BY <1>1, <1>2, ScheduleNumbers
<1>4. C = 0 /\ p >= 1
  BY <1>2, <1>3 DEF TimingInv
<1>5. /\ A - C <= WholeMs + 1
      /\ TIC_NUME <= (A - C) * TIC_DENO + next_subtime
      /\ (A - C) * TIC_DENO + next_subtime < TIC_NUME + TIC_DENO
      /\ p <= A + TMAX_RELTIM + 1
      /\ 0 <= ((p - A) * TIC_DENO - next_subtime) - (reltim[e] * TIC_DENO - ticks[e] * TIC_NUME)
      /\ ((p - A) * TIC_DENO - next_subtime) - (reltim[e] * TIC_DENO - ticks[e] * TIC_NUME) < TIC_DENO
  BY <1>2 DEF TimingInv, OnSchedule, Missing
<1> HIDE DEF a, p, A, C
<1>6. A - C = A
  BY <1>3, <1>4
<1>7. /\ A <= WholeMs + 1
      /\ TIC_NUME <= A * TIC_DENO + next_subtime
      /\ A * TIC_DENO + next_subtime < TIC_NUME + TIC_DENO
  BY <1>5, <1>6
<1> QED
  BY <1>3, <1>4, <1>5, <1>7 DEF a, p, A

\* Nobody in the heap is late.
LEMMA NobodyLate ==
    ASSUME TimeAssumption, TimeInv, TimingInv
    PROVE  NeverLate
<1> SUFFICES ASSUME NEW e \in EVT, Registered(e), cback = NoEvt
             PROVE  Waited(e) < (reltim[e] + 1) * TIC_DENO - 1
  BY DEF NeverLate
<1> DEFINE p == SinceMin(tmevt_heap[index[e]].time)
           A == SinceMin(next_time)
           rel == reltim[e]
           tik == ticks[e]
<1>1. /\ p \in Nat /\ A \in Nat /\ p >= 1
      /\ ((p - A) * TIC_DENO - next_subtime) - (rel * TIC_DENO - tik * TIC_NUME) < TIC_DENO
      /\ A * TIC_DENO + next_subtime < TIC_NUME + TIC_DENO
  BY ScheduleOfEvent
<1>2. TIC_NUME \in Nat /\ TIC_DENO \in Nat /\ next_subtime \in Nat /\ rel \in Int /\ tik \in Int
  BY TickFacts DEF TimeInv, TypeOK, RELTIM
<1>3. Waited(e) = (tik - 1) * TIC_NUME
  BY DEF Waited
<1> HIDE DEF p, A, rel, tik
<1>4. p >= 0 + 1 /\ 0 \in Int /\ p \in Int /\ A \in Int /\ (A - 0) * TIC_DENO + next_subtime < TIC_NUME + TIC_DENO
  <2>1. A - 0 = A
    BY <1>1
  <2> QED
    BY <1>1, <2>1
<1>5. (rel * TIC_DENO - tik * TIC_NUME) + TIC_NUME > 1 - TIC_DENO
  <2> DEFINE mis == rel * TIC_DENO - tik * TIC_NUME
  <2>1. mis \in Int /\ ((p - A) * TIC_DENO - next_subtime) - mis < TIC_DENO
    BY <1>1, <1>2
  <2> HIDE DEF mis
  <2>2. mis + TIC_NUME > 1 - TIC_DENO
    BY <1>2, <1>4, <2>1, NotDueIsNotLate
  <2> QED
    BY <2>2 DEF mis
<1>6. (tik - 1) * TIC_NUME < (rel + 1) * TIC_DENO - 1
  <2>1. (tik - 1) * TIC_NUME = tik * TIC_NUME - TIC_NUME /\ (rel + 1) * TIC_DENO = rel * TIC_DENO + TIC_DENO
        /\ tik * TIC_NUME \in Int /\ rel * TIC_DENO \in Int
    <3>1. TIC_NUME \in Int /\ TIC_DENO \in Int
      BY <1>2
    <3> QED
      BY <1>2, <3>1, Products
  <2> QED
    BY <1>2, <1>5, <2>1
<1> QED
  BY <1>3, <1>6 DEF rel

\* The time left is what is missing, but for a fraction of a millisecond: as numbers,
\* with the product of a distance and TIC_DENO as one number
LEMMA LeftNumbers ==
    ASSUME NEW D \in Nat, NEW sub \in Nat, sub < D, NEW pD \in Int, NEW missing \in Int,
           NEW cD \in Int, sub > 0 => cD = D, sub = 0 => cD = 0,
           0 <= (pD - sub) - missing, (pD - sub) - missing < D
    PROVE  /\ missing - D < pD - cD
           /\ pD - cD < D + (IF missing > 0 THEN missing ELSE 0)
           /\ pD <= 0 => missing - D < 0 /\ 0 < D + (IF missing > 0 THEN missing ELSE 0)
  OBVIOUS

\* The time left that is reported is what is missing.
LEMMA LeftMissing ==
    ASSUME TimeAssumption, TimeInv, TimingInv
    PROVE  LeftIsMissing
<1> SUFFICES ASSUME NEW e \in EVT, Registered(e), cback = NoEvt
             PROVE  LET missing == reltim[e] * TIC_DENO - ticks[e] * TIC_NUME
                        left == Lefttim(e) * TIC_DENO
                    IN  /\ missing - TIC_DENO < left
                        /\ left < TIC_DENO + IF missing > 0 THEN missing ELSE 0
  BY DEF LeftIsMissing
<1> DEFINE time == tmevt_heap[index[e]].time
           p == SinceMin(time)
           A == SinceMin(next_time)
           c == IF next_subtime > 0 THEN 1 ELSE 0
           D == TIC_DENO
           missing == reltim[e] * TIC_DENO - ticks[e] * TIC_NUME
           pD == (p - A) * D
           cD == c * D
<1>1. /\ p \in Nat /\ A \in Nat /\ time \in EVTTIM
      /\ 0 <= (pD - next_subtime) - missing /\ (pD - next_subtime) - missing < D
  BY ScheduleOfEvent
<1>2. D \in Nat /\ D >= 1 /\ next_subtime \in Nat /\ next_subtime < D /\ missing \in Int
  <2>1. /\ TIC_NUME \in Nat /\ TIC_DENO \in Nat /\ TIC_DENO >= 1
        /\ reltim[e] \in Int /\ ticks[e] \in Int /\ next_subtime \in 0 .. TIC_DENO - 1
    BY TickFacts DEF TimeInv, TypeOK, RELTIM
  <2> QED
    BY <2>1
<1>3. c \in {0, 1} /\ (next_subtime > 0 => c = 1) /\ (next_subtime = 0 => c = 0)
  BY <1>2
<1> HIDE DEF missing
<1>4. /\ pD \in Int /\ cD \in Int
      /\ (next_subtime > 0 => cD = D) /\ (next_subtime = 0 => cD = 0)
  BY <1>1, <1>2, <1>3
<1>5. /\ missing - D < pD - cD
      /\ pD - cD < D + (IF missing > 0 THEN missing ELSE 0)
      /\ pD <= 0 => missing - D < 0 /\ 0 < D + (IF missing > 0 THEN missing ELSE 0)
  <2> HIDE DEF D, pD, cD
  <2> QED
    BY <1>1, <1>2, <1>4, LeftNumbers
<1>6. CASE p <= A
  <2>1. Lefttim(e) = 0
    BY <1>6 DEF Lefttim, LE
  <2>2. pD <= 0
    <3>1. p \in Int /\ A \in Int /\ D \in Nat /\ D \in Int /\ p <= A
      BY <1>1, <1>2, <1>6
    <3> HIDE DEF p, A, D
    <3>2. p * D <= A * D
      BY <3>1, ProductGrows
    <3>3. pD = p * D - A * D /\ p * D \in Int /\ A * D \in Int
      BY <3>1, Products
    <3> HIDE DEF pD
    <3> QED
      BY <3>2, <3>3
  <2>3. Lefttim(e) * D = 0
    BY <1>2, <2>1
  <2> QED
    BY <1>5, <2>2, <2>3 DEF missing, D
<1>7. CASE ~ (p <= A)
  <2>1. Lefttim(e) = (time - base_time) % MODULUS
    BY <1>7 DEF Lefttim, LE
  <2>0. HeapInv /\ OnSchedule(tmevt_heap, current_time, next_time, next_subtime, Missing(reltim, ticks))
    BY HeapPart DEF TimingInv
  <2>2. SinceMin(base_time) = A + c /\ base_time \in EVTTIM
    <3>1. 0 \in RELTIM
      BY TickFacts DEF RELTIM
    <3>2. SinceMin(base_time) = A + c
      BY <2>0, <3>1, BaseTimeMoves
    <3>3. base_time \in EVTTIM
      BY HeapPart, PlusIsTime
    <3> QED
      BY <3>2, <3>3
  <2>3. LE(base_time, time)
    BY <1>1, <1>3, <1>7, <2>2 DEF LE
  <2>4. (time - base_time) % MODULUS = p - (A + c)
    BY <1>1, <2>2, <2>3, Distance, ClockIsOK, HeapPart
  <2>5. Lefttim(e) = (p - A) - c
    <3> HIDE DEF p, A, c, time
    <3> QED
      BY <1>1, <1>3, <2>1, <2>4
  <2>6. ((p - A) - c) * D = pD - cD
    <3> DEFINE d == p - A
    <3>1. d \in Int /\ c \in Int /\ D \in Int
      BY <1>1, <1>2, <1>3
    <3> HIDE DEF d, c, D
    <3>2. (d - c) * D = d * D - c * D
      BY <3>1, Products
    <3> QED
      BY <3>2 DEF d
  <2> QED
    BY <1>5, <2>5, <2>6 DEF missing, D
<1> QED
  BY <1>6, <1>7


\* The properties follow: in a heap of any size no node is due before its parent, also
\* when the times have wrapped round; when signal_time has ended no event is left that
\* is due, whatever the callbacks did meanwhile, and tmevt_lefttim reports what is missing.
LEMMA TimeInvShows ==
    ASSUME TimeAssumption, TimeInv, TimingInv
    PROVE  TimeConsistent /\ NobodyIsLate
<1>1. TimeConsistent
  BY HeapPart, HeapInvShows DEF TimeConsistent
<1>2. NobodyIsLate
  BY NobodyLate, LeftMissing DEF NobodyIsLate
<1> QED
  BY <1>1, <1>2

-----------------------------------------------------------------------------
\* Cyclic and alarm handlers

\* What is missing, at the next tick, of the time of the next call of each handler
Rest(a) == [h \in EVT |-> a[h] - TIC_NUME]

\* A cyclic handler knows the time of its node.
TimesKept == \A a \in NodesOf(tmevt_heap) : a.evt \in CYC => a.time = evttim[a.evt]

\* The inductive invariant of the handlers: of the heap and of who is registered,
HdrInv == HeapInv /\ CycAlmTypeOK /\ EventsAreAccountedFor /\ TimesKept

\* and of their times.
HdrTimingInv ==
    /\ OnSchedule(tmevt_heap, current_time, next_time, next_subtime, Rest(ahead))
    /\ cback = NoEvt => /\ min_time = current_time
                        /\ \A a \in NodesOf(tmevt_heap) : ahead[a.evt] > - TIC_DENO
    /\ cback \in CYC => ahead[cback] <= cyctim[cback] * TIC_DENO
    /\ cback \in ALM /\ ~ Registered(cback) => ahead[cback] <= 0

\* The heap without a handler
LEMMA ApartIsHeap ==
    ASSUME TimeAssumption, HeapInv, NEW e \in EVT
    PROVE  /\ IsHeap(Apart(e)) /\ ~ InHeap(Apart(e), e)
           /\ NodesOf(Apart(e)) = {a \in NodesOf(tmevt_heap) : a.evt # e}
<1>1. HeapTypeOK /\ IsHeap(tmevt_heap) /\ ClockTypeOK
  BY ClockIsOK DEF HeapInv
<1>2. NodesOf(Apart(e)) = {a \in NodesOf(tmevt_heap) : a.evt # e} /\ IsHeap(Apart(e))
  <2>1. CASE Registered(e)
    <3> DEFINE n == index[e]
               W == Without(tmevt_heap, n)
    <3>1. n \in 1 .. Len(tmevt_heap) /\ tmevt_heap[n].evt = e
      BY <2>1, RegisteredNode
    <3>2. IsHeap(W) /\ NodesOf(W) = NodesOf(tmevt_heap) \ {tmevt_heap[n]}
      BY <1>1, <3>1, WithoutIsHeap
    <3>3. Apart(e) = W
      BY <2>1 DEF Apart
    <3> HIDE DEF W, n
    <3>4. \A a \in NodesOf(tmevt_heap) : a.evt = e => a = tmevt_heap[n]
      <4> SUFFICES ASSUME NEW a \in NodesOf(tmevt_heap), a.evt = e
                   PROVE  a = tmevt_heap[n]
        OBVIOUS
      <4>1. PICK i \in 1 .. Len(tmevt_heap) : a = tmevt_heap[i]
        BY <1>1, HeapNodes DEF NodesOf
      <4>2. i = n
        BY <1>1, <3>1, <4>1 DEF IsHeap, OnceEach
      <4> QED
        BY <4>1, <4>2
    <3> QED
      BY <3>1, <3>2, <3>3, <3>4
  <2>2. CASE ~ Registered(e)
    <3>1. \A a \in NodesOf(tmevt_heap) : a.evt # e
      BY <2>2 DEF Registered, InHeap, NodesOf
    <3>2. Apart(e) = tmevt_heap
      BY <2>2 DEF Apart
    <3> QED
      BY <1>1, <3>1, <3>2
  <2> QED
    BY <2>1, <2>2
<1>3. ~ InHeap(Apart(e), e)
  BY <1>2 DEF InHeap, NodesOf
<1> QED
  BY <1>2, <1>3

\* A handler that is not registered need not be taken out.
LEMMA ApartOfOthers ==
    ASSUME HeapInv, NEW e \in EVT, ~ Registered(e)
    PROVE  Apart(e) = tmevt_heap /\ (UNCHANGED heapVars => SetNodes(Apart(e)))
<1>1. Apart(e) = tmevt_heap
  BY DEF Apart
<1>2. UNCHANGED heapVars => SetNodes(tmevt_heap)
  BY DEF heapVars, SetNodes, HeapInv, IndexOK
<1> QED
  BY <1>1, <1>2

\* What Ahead keeps
LEMMA AheadKeeps ==
    ASSUME NEW a, Ahead(a), \A h \in EVT : a[h] \in Int
    PROVE  /\ ahead' \in [EVT -> Int]
           /\ \A h \in EVT : cback' = h => ahead'[h] = a[h]
           /\ \A x \in NodesOf(tmevt_heap)' : x.evt \in EVT => ahead'[x.evt] = a[x.evt]
<1>1. \A x \in NodesOf(tmevt_heap)' : InHeap(tmevt_heap', x.evt)
  BY DEF InHeap, NodesOf
<1>2. ahead' = [h \in EVT |-> IF InHeap(tmevt_heap', h) \/ cback' = h THEN a[h] ELSE 0]
  BY DEF Ahead
<1>3. \A h \in EVT : (IF InHeap(tmevt_heap', h) \/ cback' = h THEN a[h] ELSE 0) \in Int
  OBVIOUS
<1> QED
  BY <1>1, <1>2, <1>3

\* The schedule of the state that a step leads to
LEMMA HdrScheduleLater ==
    ASSUME NEW min, NEW W, NEW cur, NEW nxt, NEW sub, NEW a,
           ScheduleFrom(min, W, cur, nxt, sub, Rest(a)),
           min_time' = min, tmevt_heap' = W,
           current_time' = cur, next_time' = nxt, next_subtime' = sub,
           \A x \in NodesOf(W) : x.evt \in EVT /\ ahead'[x.evt] = a[x.evt]
    PROVE  OnSchedule(tmevt_heap, current_time, next_time, next_subtime, Rest(ahead))'
<1> DEFINE other == Rest(ahead')
           mis == Rest(a)
<1>1. \A x \in NodesOf(W) : other[x.evt] = mis[x.evt]
  BY DEF Rest
<1> HIDE DEF other, mis
<1>2. ScheduleFrom(min, W, cur, nxt, sub, mis)
  BY DEF mis
<1>3. ScheduleFrom(min, W, cur, nxt, sub, other)
  BY <1>1, <1>2, ScheduleOf
<1>4. ScheduleFrom(min_time', tmevt_heap', current_time', next_time', next_subtime', Rest(ahead'))
  BY <1>3 DEF other
<1>5. OnSchedule(tmevt_heap, current_time, next_time, next_subtime, Rest(ahead))'
      <=> ScheduleFrom(min_time', tmevt_heap', current_time', next_time', next_subtime', Rest(ahead'))
  BY DEF OnSchedule, ScheduleFrom, SinceMin, NodesOf, Rest, WholeMs
<1> QED
  BY <1>4, <1>5

\* The heap invariant of the state that a step without signal_time leads to
LEMMA HeapInvLater ==
    ASSUME HeapInv, NEW W, IsHeap(W), SetNodes(W), UNCHANGED clockVars
    PROVE  HeapInv' /\ tmevt_heap' = W /\ NodesOf(tmevt_heap)' = NodesOf(W)
<1>1. UNCHANGED <<current_time, min_time, next_time, next_subtime>>
  BY DEF clockVars
<1>2. IsHeap(tmevt_heap)' /\ IndexOK' /\ tmevt_heap' \in Seq(Node) /\ index' \in [EVT -> Nat]
  BY <1>1, NewHeapKeeps
<1>3. HeapTypeOK'
  BY <1>1, <1>2 DEF HeapInv, HeapTypeOK, Node, EVTTIM
<1>4. tmevt_heap' = W
  BY DEF SetNodes
<1> QED
  BY <1>2, <1>3, <1>4 DEF HeapInv, NodesOf


\* Who is registered, in terms of the nodes
LEMMA RegisteredInHeap ==
    ASSUME IsHeap(tmevt_heap)
    PROVE  \A e : Registered(e) <=> \E a \in NodesOf(tmevt_heap) : a.evt = e
  BY NodeOfEvent DEF Registered

LEMMA RegisteredLater ==
    ASSUME HeapInv'
    PROVE  \A e : Registered(e)' <=> \E a \in NodesOf(tmevt_heap)' : a.evt = e
  BY DEF Registered, InHeap, NodesOf

\* A handler is taken out and put in again, d ms after base_time.
LEMMA StartTimed ==
    ASSUME TimeAssumption, HeapInv, HdrTimingInv, ahead \in [EVT -> Int],
           NEW e \in EVT, NEW d \in RELTIM,
           SetNodes(With(Apart(e), e, Plus(base_time, d))), UNCHANGED <<clockVars, cback>>,
           Ahead([ahead EXCEPT ![e] = FromNextTick(d)])
    PROVE  /\ HeapInv' /\ ahead' \in [EVT -> Int] /\ Plus(base_time, d) \in EVTTIM
           /\ \A a \in NodesOf(tmevt_heap)' : \/ a.evt = e /\ a.time = Plus(base_time, d)
                                              \/ a.evt # e /\ a \in NodesOf(tmevt_heap)
           /\ \A h : Registered(h)' <=> Registered(h) \/ h = e
           /\ OnSchedule(tmevt_heap, current_time, next_time, next_subtime, Rest(ahead))'
           /\ (cback = NoEvt => min_time = current_time
                                /\ \A a \in NodesOf(tmevt_heap) : ahead[a.evt] > - TIC_DENO)'
           /\ \A h \in EVT : cback = h /\ h # e => ahead'[h] = ahead[h]
<1> DEFINE at == Plus(base_time, d)
           W == With(Apart(e), e, at)
           new == [time |-> at, evt |-> e]
           up == [ahead EXCEPT ![e] = FromNextTick(d)]
           mis == Rest(ahead)
           other == Rest(up)
<1>1. HeapTypeOK /\ IsHeap(tmevt_heap) /\ ClockTypeOK
  BY ClockIsOK DEF HeapInv
<1>2. at \in EVTTIM
  BY <1>1, PlusIsTime
<1>3. /\ IsHeap(Apart(e)) /\ ~ InHeap(Apart(e), e)
      /\ NodesOf(Apart(e)) = {a \in NodesOf(tmevt_heap) : a.evt # e}
  BY ApartIsHeap
<1>4. new.evt = e /\ new.time = at
  OBVIOUS
<1>5. SetNodes(W) /\ Ahead(up) /\ UNCHANGED <<clockVars, cback>>
  OBVIOUS
<1> HIDE DEF at
<1>6. IsHeap(W) /\ NodesOf(W) = NodesOf(Apart(e)) \cup {new}
  BY <1>1, <1>2, <1>3, WithIsHeap
<1> HIDE DEF W, new
<1>7. HeapInv' /\ tmevt_heap' = W /\ NodesOf(tmevt_heap)' = NodesOf(W)
  BY <1>5, <1>6, HeapInvLater
<1>8. \A a \in NodesOf(W) : \/ a.evt = e /\ a.time = at
                            \/ a.evt # e /\ a \in NodesOf(tmevt_heap)
  BY <1>3, <1>4, <1>6
<1>9. \A h : Registered(h)' <=> Registered(h) \/ h = e
  BY <1>1, <1>3, <1>4, <1>6, <1>7, RegisteredInHeap, RegisteredLater
<1>10. /\ TIC_NUME \in Int /\ TIC_NUME >= 1 /\ TIC_DENO \in Int /\ TIC_DENO >= 1
       /\ d \in Int /\ d >= 0 /\ d * TIC_DENO \in Int /\ d * TIC_DENO >= 0
  <2>1. TIC_NUME \in Nat /\ TIC_NUME >= 1 /\ TIC_DENO \in Nat /\ TIC_DENO >= 1 /\ d \in Nat
    BY TickFacts DEF RELTIM
  <2>2. 0 * TIC_DENO <= d * TIC_DENO /\ 0 * TIC_DENO = 0 /\ d * TIC_DENO \in Int
    BY <2>1, ProductGrows
  <2> QED
    BY <2>1, <2>2
<1>11. up[e] = d * TIC_DENO + TIC_NUME /\ \A h \in EVT : h # e => up[h] = ahead[h]
  BY DEF FromNextTick
<1>12. \A h \in EVT : up[h] \in Int
  BY <1>10, <1>11
<1> HIDE DEF up
<1>13. /\ ahead' \in [EVT -> Int]
       /\ \A h \in EVT : cback' = h => ahead'[h] = up[h]
       /\ \A x \in NodesOf(W) : x.evt \in EVT => ahead'[x.evt] = up[x.evt]
  BY <1>5, <1>7, <1>12, AheadKeeps
<1>14. \A x \in NodesOf(W) : x.evt \in EVT
  BY <1>1, <1>8, ScheduleNumbers
<1>15. /\ ScheduleFrom(min_time, W, current_time, next_time, next_subtime, other)
       /\ at \in EVTTIM
  <2>1. NodesOf(W) \in SUBSET (NodesOf(tmevt_heap) \cup {[time |-> Plus(base_time, d), evt |-> e]})
    BY <1>3, <1>6 DEF new, at
  <2>2. \A a \in NodesOf(W) : a.evt = e => a.time = Plus(base_time, d)
    BY <1>8 DEF at
  <2>3. other[e] = d * TIC_DENO
    <3>1. other[e] = (d * TIC_DENO + TIC_NUME) - TIC_NUME
      BY <1>11 DEF Rest
    <3> QED
      BY <1>10, <3>1
  <2>4. \A a \in NodesOf(W) : a.evt # e => other[a.evt] = mis[a.evt]
    BY <1>11, <1>14 DEF Rest
  <2>5. OnSchedule(tmevt_heap, current_time, next_time, next_subtime, mis)
    BY DEF HdrTimingInv
  <2> HIDE DEF mis, other
  <2>6. ScheduleFrom(min_time, W, current_time, next_time, next_subtime, other)
    BY <1>1, <2>1, <2>2, <2>3, <2>4, <2>5, NewOnSchedule
  <2> QED
    BY <1>2, <2>6
<1>16. OnSchedule(tmevt_heap, current_time, next_time, next_subtime, Rest(ahead))'
  <2>1. \A x \in NodesOf(W) : x.evt \in EVT /\ ahead'[x.evt] = up[x.evt]
    BY <1>13, <1>14
  <2>2. ScheduleFrom(min_time, W, current_time, next_time, next_subtime, Rest(up))
    BY <1>15
  <2> QED
    BY <1>5, <1>7, <2>1, <2>2, HdrScheduleLater DEF clockVars
<1>17. ASSUME cback' = NoEvt
       PROVE  (min_time = current_time /\ \A a \in NodesOf(tmevt_heap) : ahead[a.evt] > - TIC_DENO)'
  <2>1. min_time = current_time /\ \A a \in NodesOf(tmevt_heap) : ahead[a.evt] > - TIC_DENO
    BY <1>5, <1>17 DEF HdrTimingInv
  <2>2. \A a \in NodesOf(W) : ahead'[a.evt] > - TIC_DENO
    <3> SUFFICES ASSUME NEW a \in NodesOf(W)
                 PROVE  ahead'[a.evt] > - TIC_DENO
      OBVIOUS
    <3>1. ahead'[a.evt] = up[a.evt]
      BY <1>13, <1>14
    <3>2. CASE a.evt = e
      BY <1>10, <1>11, <3>1, <3>2
    <3>3. CASE a.evt # e
      <4>1. up[a.evt] = ahead[a.evt] /\ a \in NodesOf(tmevt_heap)
        BY <1>8, <1>11, <1>14, <3>3
      <4> QED
        BY <2>1, <3>1, <4>1
    <3> QED
      BY <3>2, <3>3
  <2> QED
    BY <1>5, <1>7, <2>1, <2>2 DEF clockVars
<1>18. \A h \in EVT : cback = h /\ h # e => ahead'[h] = ahead[h]
  BY <1>5, <1>11, <1>13
<1> QED
  BY <1>7, <1>8, <1>9, <1>13, <1>15, <1>16, <1>17, <1>18 DEF at

\* A handler is taken out.
LEMMA StopTimed ==
    ASSUME TimeAssumption, HeapInv, HdrTimingInv, ahead \in [EVT -> Int],
           NEW e \in EVT, SetNodes(Apart(e)), UNCHANGED <<clockVars, cback>>,
           NEW a, Ahead(a), \A h \in EVT : a[h] \in Int /\ (h # e => a[h] = ahead[h])
    PROVE  /\ HeapInv' /\ ahead' \in [EVT -> Int]
           /\ NodesOf(tmevt_heap)' = {x \in NodesOf(tmevt_heap) : x.evt # e}
           /\ \A h : Registered(h)' <=> Registered(h) /\ h # e
           /\ OnSchedule(tmevt_heap, current_time, next_time, next_subtime, Rest(ahead))'
           /\ (cback = NoEvt => min_time = current_time
                                /\ \A x \in NodesOf(tmevt_heap) : ahead[x.evt] > - TIC_DENO)'
           /\ \A h \in EVT : cback = h => ahead'[h] = a[h]
<1> DEFINE W == Apart(e)
<1>1. HeapTypeOK /\ IsHeap(tmevt_heap) /\ ClockTypeOK
  BY ClockIsOK DEF HeapInv
<1>2. IsHeap(W) /\ NodesOf(W) = {x \in NodesOf(tmevt_heap) : x.evt # e}
  BY ApartIsHeap
<1>3. SetNodes(W)
  OBVIOUS
<1> HIDE DEF W
<1>4. HeapInv' /\ tmevt_heap' = W /\ NodesOf(tmevt_heap)' = NodesOf(W)
  BY <1>2, <1>3, HeapInvLater
<1>5. \A h : Registered(h)' <=> Registered(h) /\ h # e
  BY <1>1, <1>2, <1>4, RegisteredInHeap, RegisteredLater
<1>6. /\ ahead' \in [EVT -> Int]
      /\ \A h \in EVT : cback' = h => ahead'[h] = a[h]
      /\ \A x \in NodesOf(W) : x.evt \in EVT => ahead'[x.evt] = a[x.evt]
  BY <1>4, AheadKeeps
<1>7. \A x \in NodesOf(W) : x.evt \in EVT /\ ahead'[x.evt] = ahead[x.evt] /\ x \in NodesOf(tmevt_heap)
  BY <1>1, <1>2, <1>6, ScheduleNumbers
<1>8. OnSchedule(tmevt_heap, current_time, next_time, next_subtime, Rest(ahead))'
  <2>1. OnSchedule(tmevt_heap, current_time, next_time, next_subtime, Rest(ahead))
    BY DEF HdrTimingInv
  <2>2. NodesOf(W) \in SUBSET NodesOf(tmevt_heap)
    BY <1>7
  <2>3. ScheduleFrom(min_time, W, current_time, next_time, next_subtime, Rest(ahead))
    BY <2>1, <2>2, ScheduleOfFewer, ScheduleIsFrom
  <2> QED
    BY <1>4, <1>7, <2>3, HdrScheduleLater DEF clockVars
<1>9. ASSUME cback' = NoEvt
      PROVE  (min_time = current_time /\ \A x \in NodesOf(tmevt_heap) : ahead[x.evt] > - TIC_DENO)'
  <2>1. min_time = current_time /\ \A x \in NodesOf(tmevt_heap) : ahead[x.evt] > - TIC_DENO
    BY <1>9 DEF HdrTimingInv
  <2> QED
    BY <1>4, <1>7, <2>1 DEF clockVars
<1> QED
  BY <1>2, <1>4, <1>5, <1>6, <1>8, <1>9


\* The types are those of what each step changes.
LEMMA CycAlmTypesOfParts ==
    ASSUME exist' \in SUBSET EVT, cycsta' \in SUBSET CYC, almsta' \in SUBSET ALM,
           cyctim' \in [CYC -> RELTIM], cycphs' \in [CYC -> RELTIM],
           evttim' \in [CYC -> EVTTIM], ahead' \in [EVT -> Int],
           cback' \in exist' \cup {NoEvt}, HeapInv'
    PROVE  CycAlmTypeOK'
<1>1. next_subtime' \in 0 .. TIC_DENO - 1
  BY DEF HeapInv, HeapTypeOK
<1> QED
  BY <1>1 DEF CycAlmTypeOK, EVTTIM, RELTIM

\* Who is registered is what cycsta and almsta say.
LEMMA StaSaysIt ==
    ASSUME HdrAssumption, HdrInv
    PROVE  /\ \A h \in EVT : Registered(h) <=> h \in cycsta \cup almsta
           /\ \A c \in CYC : Registered(c) <=> c \in cycsta
           /\ \A a \in ALM : Registered(a) <=> a \in almsta
           /\ CYC \in SUBSET EVT /\ ALM \in SUBSET EVT
           /\ \A c \in CYC : c \notin ALM
  BY DEF HdrAssumption, HdrInv, EventsAreAccountedFor, CycAlmTypeOK

\* The starts of handlers keep the invariant.
LEMMA EnqueueCycKeeps ==
    ASSUME TimeAssumption, HdrAssumption, HdrInv, HdrTimingInv, NEW c \in CYC, NEW d \in RELTIM,
           cback = NoEvt, EnqueueCyc(Apart(c), c, d), UNCHANGED <<clockVars, cback, almsta>>,
           cycsta' = cycsta \cup {c}, exist' \in SUBSET EVT, exist \cup {c} \in SUBSET exist',
           cyctim' \in [CYC -> RELTIM], cycphs' \in [CYC -> RELTIM]
    PROVE  HdrInv' /\ HdrTimingInv'
<1> DEFINE at == Plus(base_time, d)
<1>1. HeapInv /\ CycAlmTypeOK /\ EventsAreAccountedFor /\ TimesKept /\ c \in EVT /\ NoEvt \notin EVT
  BY StaSaysIt DEF HdrInv, TimeAssumption, NoEvtAssumption
<1>2. /\ SetNodes(With(Apart(c), c, at)) /\ evttim' = [evttim EXCEPT ![c] = at]
      /\ Ahead([ahead EXCEPT ![c] = FromNextTick(d)])
  BY DEF EnqueueCyc
<1>3. /\ HeapInv' /\ ahead' \in [EVT -> Int] /\ at \in EVTTIM
      /\ \A a \in NodesOf(tmevt_heap)' : \/ a.evt = c /\ a.time = at
                                         \/ a.evt # c /\ a \in NodesOf(tmevt_heap)
      /\ \A h : Registered(h)' <=> Registered(h) \/ h = c
      /\ OnSchedule(tmevt_heap, current_time, next_time, next_subtime, Rest(ahead))'
      /\ (cback = NoEvt => min_time = current_time
                           /\ \A a \in NodesOf(tmevt_heap) : ahead[a.evt] > - TIC_DENO)'
  <2>1. ahead \in [EVT -> Int]
    BY <1>1 DEF CycAlmTypeOK
  <2> QED
    BY <1>1, <1>2, <2>1, StartTimed
<1> HIDE DEF at
<1>4. evttim \in [CYC -> EVTTIM] /\ evttim' \in [CYC -> EVTTIM]
  BY <1>1, <1>2, <1>3 DEF CycAlmTypeOK
<1>5. CycAlmTypeOK'
  BY <1>1, <1>3, <1>4, CycAlmTypesOfParts DEF CycAlmTypeOK
<1>6. EventsAreAccountedFor'
  <2>1. {h \in EVT : Registered(h)'} = cycsta' \cup almsta'
    BY <1>1, <1>3 DEF EventsAreAccountedFor
  <2>2. cycsta' \cup almsta' \subseteq exist'
    BY <1>1 DEF EventsAreAccountedFor
  <2> QED
    BY <2>1, <2>2 DEF EventsAreAccountedFor
<1>7. TimesKept'
  <2> SUFFICES ASSUME NEW a \in NodesOf(tmevt_heap)', a.evt \in CYC
               PROVE  a.time = evttim'[a.evt]
    BY DEF TimesKept
  <2>1. CASE a.evt = c
    BY <1>2, <1>3, <1>4, <2>1
  <2>2. CASE a.evt # c
    BY <1>1, <1>2, <1>3, <1>4, <2>2 DEF TimesKept
  <2> QED
    BY <2>1, <2>2
<1>8. cback' = NoEvt /\ NoEvt \notin CYC /\ NoEvt \notin ALM
  BY <1>1 DEF HdrAssumption
<1> QED
  BY <1>3, <1>5, <1>6, <1>7, <1>8 DEF HdrInv, HdrTimingInv

LEMMA AcreCycKeeps ==
    ASSUME TimeAssumption, HdrAssumption, HdrInv, HdrTimingInv,
           NEW c \in CYC, NEW tim \in RELTIM, NEW phs \in RELTIM, NEW sta \in BOOLEAN,
           AcreCyc(c, tim, phs, sta)
    PROVE  HdrInv' /\ HdrTimingInv'
<1>1. HeapInv /\ CycAlmTypeOK /\ EventsAreAccountedFor /\ TimesKept /\ c \in EVT /\ ~ Registered(c)
  BY StaSaysIt DEF HdrInv, AcreCyc, EventsAreAccountedFor
<1>2. /\ cback = NoEvt /\ c \in DynHdr \ exist /\ UNCHANGED <<clockVars, cback, almsta>>
      /\ exist' = exist \cup {c}
      /\ cyctim' = [cyctim EXCEPT ![c] = tim] /\ cycphs' = [cycphs EXCEPT ![c] = phs]
      /\ IF sta THEN cycsta' = cycsta \cup {c} /\ EnqueueCyc(tmevt_heap, c, phs)
                ELSE UNCHANGED <<heapVars, cycsta, evttim, ahead>>
  BY DEF AcreCyc, TskCtx
<1>3. /\ cyctim' \in [CYC -> RELTIM] /\ cycphs' \in [CYC -> RELTIM]
      /\ exist' \in SUBSET EVT /\ exist \cup {c} \in SUBSET exist'
  BY <1>1, <1>2 DEF CycAlmTypeOK
<1>4. CASE sta
  <2>1. EnqueueCyc(Apart(c), c, phs)
    BY <1>1, <1>2, <1>4, ApartOfOthers
  <2> QED
    BY <1>2, <1>3, <1>4, <2>1, EnqueueCycKeeps
<1>5. CASE ~ sta
  <2>1. UNCHANGED <<tmevt_heap, index, current_time, min_time, next_time, next_subtime, cback,
                    cycsta, almsta, evttim, ahead>>
    BY <1>2, <1>5 DEF heapVars, clockVars
  <2>2. HeapInv'
    BY <1>1, <2>1 DEF HeapInv, HeapTypeOK, IsHeap, InOrder, OnceEach, IndexOK, InHeap, NodeOf, LE,
                      SinceMin, Node, EVTTIM
  <2>3. CycAlmTypeOK'
    BY <1>1, <1>3, <2>1, <2>2, CycAlmTypesOfParts DEF CycAlmTypeOK
  <2>4. EventsAreAccountedFor'
    BY <1>1, <1>3, <2>1 DEF EventsAreAccountedFor, Registered, InHeap
  <2>5. TimesKept'
    BY <1>1, <2>1 DEF TimesKept, NodesOf
  <2>6. HdrTimingInv'
    <3>1. cback' = NoEvt /\ NoEvt \notin CYC /\ NoEvt \notin ALM
      BY <1>2, <2>1 DEF HdrAssumption, TimeAssumption, NoEvtAssumption
    <3>2. OnSchedule(tmevt_heap, current_time, next_time, next_subtime, Rest(ahead))'
      BY <2>1 DEF HdrTimingInv, OnSchedule, NodesOf, Rest, SinceMin, WholeMs
    <3>3. (min_time = current_time /\ \A a \in NodesOf(tmevt_heap) : ahead[a.evt] > - TIC_DENO)'
      BY <1>2, <2>1 DEF HdrTimingInv, NodesOf
    <3> QED
      BY <3>1, <3>2, <3>3 DEF HdrTimingInv
  <2> QED
    BY <2>2, <2>3, <2>4, <2>5, <2>6 DEF HdrInv
<1> QED
  BY <1>4, <1>5

LEMMA AcreAlmKeeps ==
    ASSUME TimeAssumption, HdrAssumption, HdrInv, HdrTimingInv, NEW a \in ALM, AcreAlm(a)
    PROVE  HdrInv' /\ HdrTimingInv'
<1>1. HeapInv /\ CycAlmTypeOK /\ EventsAreAccountedFor /\ TimesKept /\ a \in EVT
  BY StaSaysIt DEF HdrInv
<1>2. /\ cback = NoEvt /\ exist' = exist \cup {a}
      /\ UNCHANGED <<tmevt_heap, index, current_time, min_time, next_time, next_subtime, cback,
                     cyctim, cycphs, cycsta, almsta, evttim, ahead>>
  BY DEF AcreAlm, TskCtx, heapVars, clockVars, staVars
<1>3. HeapInv'
  BY <1>1, <1>2 DEF HeapInv, HeapTypeOK, IsHeap, InOrder, OnceEach, IndexOK, InHeap, NodeOf, LE,
                    SinceMin, Node, EVTTIM
<1>4. CycAlmTypeOK'
  BY <1>1, <1>2, <1>3, CycAlmTypesOfParts DEF CycAlmTypeOK
<1>5. EventsAreAccountedFor'
  BY <1>1, <1>2 DEF EventsAreAccountedFor, Registered, InHeap
<1>6. TimesKept'
  BY <1>1, <1>2 DEF TimesKept, NodesOf
<1>7. HdrTimingInv'
  BY <1>2 DEF HdrTimingInv, OnSchedule, NodesOf, Rest, SinceMin, WholeMs, Registered, InHeap
<1> QED
  BY <1>3, <1>4, <1>5, <1>6, <1>7 DEF HdrInv

LEMMA StaCycKeeps ==
    ASSUME TimeAssumption, HdrAssumption, HdrInv, HdrTimingInv, NEW c \in CYC, StaCyc(c)
    PROVE  HdrInv' /\ HdrTimingInv'
<1>1. HeapInv /\ CycAlmTypeOK /\ EventsAreAccountedFor /\ c \in EVT /\ (Registered(c) <=> c \in cycsta)
  BY StaSaysIt DEF HdrInv
<1>2. /\ cback = NoEvt /\ c \in exist /\ UNCHANGED <<clockVars, cback, attrVars, almsta>>
      /\ cycsta' = cycsta \cup {c}
      /\ EnqueueCyc(IF c \in cycsta THEN Apart(c) ELSE tmevt_heap, c, cycphs[c])
  BY DEF StaCyc, TskCtx
<1>3. EnqueueCyc(Apart(c), c, cycphs[c])
  BY <1>1, <1>2, ApartOfOthers
<1>4. /\ cyctim' \in [CYC -> RELTIM] /\ cycphs' \in [CYC -> RELTIM] /\ cycphs[c] \in RELTIM
      /\ exist' \in SUBSET EVT /\ exist \cup {c} \in SUBSET exist'
  BY <1>1, <1>2 DEF CycAlmTypeOK, attrVars
<1> QED
  BY <1>2, <1>3, <1>4, EnqueueCycKeeps

LEMMA StaAlmKeeps ==
    ASSUME TimeAssumption, HdrAssumption, HdrInv, HdrTimingInv,
           NEW a \in ALM, NEW almtim \in RELTIM, StaAlm(a, almtim)
    PROVE  HdrInv' /\ HdrTimingInv'
<1> DEFINE at == Plus(base_time, almtim)
<1>1. HeapInv /\ CycAlmTypeOK /\ EventsAreAccountedFor /\ TimesKept /\ a \in EVT /\ a \notin CYC
      /\ (Registered(a) <=> a \in almsta)
  BY StaSaysIt DEF HdrInv
<1>2. /\ a \in exist /\ UNCHANGED <<clockVars, cback, attrVars, cycsta, evttim>>
      /\ almsta' = almsta \cup {a}
      /\ SetNodes(With(IF a \in almsta THEN Apart(a) ELSE tmevt_heap, a, at))
      /\ Ahead([ahead EXCEPT ![a] = FromNextTick(almtim)])
  BY DEF StaAlm
<1>3. (IF a \in almsta THEN Apart(a) ELSE tmevt_heap) = Apart(a)
  BY <1>1, ApartOfOthers
<1>4. /\ HeapInv' /\ ahead' \in [EVT -> Int] /\ at \in EVTTIM
      /\ \A x \in NodesOf(tmevt_heap)' : \/ x.evt = a /\ x.time = at
                                         \/ x.evt # a /\ x \in NodesOf(tmevt_heap)
      /\ \A h : Registered(h)' <=> Registered(h) \/ h = a
      /\ OnSchedule(tmevt_heap, current_time, next_time, next_subtime, Rest(ahead))'
      /\ (cback = NoEvt => min_time = current_time
                           /\ \A x \in NodesOf(tmevt_heap) : ahead[x.evt] > - TIC_DENO)'
      /\ \A h \in EVT : cback = h /\ h # a => ahead'[h] = ahead[h]
  <2>1. ahead \in [EVT -> Int] /\ SetNodes(With(Apart(a), a, at))
    BY <1>1, <1>2, <1>3 DEF CycAlmTypeOK
  <2> QED
    BY <1>1, <1>2, <2>1, StartTimed
<1> HIDE DEF at
<1>5. UNCHANGED <<cback, exist, cyctim, cycphs, cycsta, evttim>>
  BY <1>2 DEF attrVars
<1>6. CycAlmTypeOK'
  BY <1>1, <1>2, <1>4, <1>5, CycAlmTypesOfParts DEF CycAlmTypeOK
<1>7. EventsAreAccountedFor'
  <2>1. {h \in EVT : Registered(h)'} = cycsta' \cup almsta'
    BY <1>1, <1>2, <1>4 DEF EventsAreAccountedFor
  <2>2. cycsta' \cup almsta' \subseteq exist'
    BY <1>1, <1>2, <1>5 DEF EventsAreAccountedFor
  <2> QED
    BY <2>1, <2>2 DEF EventsAreAccountedFor
<1>8. TimesKept'
  BY <1>1, <1>4, <1>5 DEF TimesKept
<1>9. (cback \in CYC => ahead[cback] <= cyctim[cback] * TIC_DENO)'
  <2> SUFFICES ASSUME cback \in CYC
               PROVE  ahead'[cback] <= cyctim[cback] * TIC_DENO
    BY <1>5
  <2>1. cback \in EVT /\ cback # a
    BY <1>1 DEF HdrAssumption
  <2> QED
    BY <1>4, <2>1 DEF HdrTimingInv
<1>10. (cback \in ALM /\ ~ Registered(cback) => ahead[cback] <= 0)'
  <2> SUFFICES ASSUME cback \in ALM, ~ Registered(cback)'
               PROVE  ahead'[cback] <= 0
    BY <1>5 DEF Registered
  <2>1. cback \in EVT /\ cback # a /\ ~ Registered(cback)
    BY <1>4, <1>5 DEF HdrAssumption, Registered
  <2> QED
    BY <1>4, <2>1 DEF HdrTimingInv
<1> QED
  BY <1>4, <1>6, <1>7, <1>8, <1>9, <1>10 DEF HdrInv, HdrTimingInv


\* The stops of handlers keep the invariant.
LEMMA StopCycKeeps ==
    ASSUME TimeAssumption, HdrAssumption, HdrInv, HdrTimingInv, NEW c \in CYC,
           cback = NoEvt, StopCyc(c), exist \ {c} \in SUBSET exist', exist' \in SUBSET exist,
           c \in exist' \/ c \notin cycsta',
           cyctim' \in [CYC -> RELTIM], cycphs' \in [CYC -> RELTIM]
    PROVE  HdrInv' /\ HdrTimingInv'
<1>1. HeapInv /\ CycAlmTypeOK /\ EventsAreAccountedFor /\ TimesKept /\ c \in EVT /\ NoEvt \notin EVT
      /\ (Registered(c) <=> c \in cycsta) /\ c \notin ALM /\ CYC \in SUBSET EVT /\ ALM \in SUBSET EVT
  BY StaSaysIt DEF HdrInv, TimeAssumption, NoEvtAssumption
<1>2. /\ UNCHANGED <<clockVars, cback, almsta>>
      /\ cycsta' = cycsta \ {c} /\ evttim' = [evttim EXCEPT ![c] = 0]
      /\ IF c \in cycsta THEN SetNodes(Apart(c)) ELSE UNCHANGED heapVars
      /\ Ahead(ahead)
  BY DEF StopCyc
<1>3. SetNodes(Apart(c))
  BY <1>1, <1>2, ApartOfOthers
<1>4. /\ HeapInv' /\ ahead' \in [EVT -> Int]
      /\ NodesOf(tmevt_heap)' = {x \in NodesOf(tmevt_heap) : x.evt # c}
      /\ \A h : Registered(h)' <=> Registered(h) /\ h # c
      /\ OnSchedule(tmevt_heap, current_time, next_time, next_subtime, Rest(ahead))'
      /\ (cback = NoEvt => min_time = current_time
                           /\ \A x \in NodesOf(tmevt_heap) : ahead[x.evt] > - TIC_DENO)'
  <2>1. ahead \in [EVT -> Int] /\ \A h \in EVT : ahead[h] \in Int
    BY <1>1 DEF CycAlmTypeOK
  <2> QED
    BY <1>1, <1>2, <1>3, <2>1, StopTimed
<1>5. 0 \in EVTTIM
  BY <1>1, ClockIsOK DEF ClockTypeOK, EVTTIM, HeapInv
<1>6. evttim \in [CYC -> EVTTIM] /\ evttim' \in [CYC -> EVTTIM]
      /\ \A h \in CYC : h # c => evttim'[h] = evttim[h]
  BY <1>1, <1>2, <1>5 DEF CycAlmTypeOK
<1>7. CycAlmTypeOK'
  BY <1>1, <1>2, <1>4, <1>6, CycAlmTypesOfParts DEF CycAlmTypeOK
<1>8. EventsAreAccountedFor'
  <2>1. {h \in EVT : Registered(h)'} = cycsta' \cup almsta'
    BY <1>1, <1>2, <1>4 DEF EventsAreAccountedFor, CycAlmTypeOK
  <2>2. cycsta' \cup almsta' \subseteq exist'
    BY <1>1, <1>2 DEF EventsAreAccountedFor, CycAlmTypeOK
  <2> QED
    BY <2>1, <2>2 DEF EventsAreAccountedFor
<1>9. TimesKept'
  BY <1>1, <1>4, <1>6 DEF TimesKept
<1>10. cback' = NoEvt /\ NoEvt \notin CYC /\ NoEvt \notin ALM
  BY <1>1, <1>2
<1> QED
  BY <1>4, <1>7, <1>8, <1>9, <1>10 DEF HdrInv, HdrTimingInv

LEMMA StpCycKeeps ==
    ASSUME TimeAssumption, HdrAssumption, HdrInv, HdrTimingInv, NEW c \in CYC,
           StpCyc(c) \/ DelCyc(c)
    PROVE  HdrInv' /\ HdrTimingInv'
<1>1. CycAlmTypeOK
  BY DEF HdrInv
<1>2. cback = NoEvt /\ StopCyc(c)
  BY DEF StpCyc, DelCyc, TskCtx
<1>3. /\ exist \ {c} \in SUBSET exist' /\ exist' \in SUBSET exist
      /\ c \in exist' \/ c \notin cycsta'
  BY DEF StpCyc, DelCyc, StopCyc, attrVars
<1>4. cyctim' \in [CYC -> RELTIM] /\ cycphs' \in [CYC -> RELTIM]
  <2>1. 0 \in RELTIM
    BY TickFacts DEF RELTIM
  <2> QED
    BY <1>1, <2>1 DEF StpCyc, DelCyc, attrVars, CycAlmTypeOK
<1> QED
  BY <1>2, <1>3, <1>4, StopCycKeeps

LEMMA StpAlmKeeps ==
    ASSUME TimeAssumption, HdrAssumption, HdrInv, HdrTimingInv, NEW a \in ALM,
           StpAlm(a) \/ DelAlm(a)
    PROVE  HdrInv' /\ HdrTimingInv'
<1> DEFINE since == [ahead EXCEPT ![a] = 0]
<1>1. HeapInv /\ CycAlmTypeOK /\ EventsAreAccountedFor /\ TimesKept /\ a \in EVT /\ a \notin CYC
      /\ (Registered(a) <=> a \in almsta)
  BY StaSaysIt DEF HdrInv
<1>2. /\ UNCHANGED <<clockVars, cback, cyctim, cycphs, cycsta, evttim>>
      /\ almsta' = almsta \ {a}
      /\ IF a \in almsta THEN SetNodes(Apart(a)) ELSE UNCHANGED heapVars
      /\ Ahead(since)
  BY DEF StpAlm, DelAlm, StopAlm
<1>3. exist' = exist \/ (exist' = exist \ {a} /\ cback = NoEvt)
  BY DEF StpAlm, DelAlm, TskCtx
<1>4. SetNodes(Apart(a))
  BY <1>1, <1>2, ApartOfOthers
<1>5. \A h \in EVT : since[h] \in Int /\ (h # a => since[h] = ahead[h]) /\ (h = a => since[h] = 0)
  BY <1>1 DEF CycAlmTypeOK
<1> HIDE DEF since
<1>6. /\ HeapInv' /\ ahead' \in [EVT -> Int]
      /\ NodesOf(tmevt_heap)' = {x \in NodesOf(tmevt_heap) : x.evt # a}
      /\ \A h : Registered(h)' <=> Registered(h) /\ h # a
      /\ OnSchedule(tmevt_heap, current_time, next_time, next_subtime, Rest(ahead))'
      /\ (cback = NoEvt => min_time = current_time
                           /\ \A x \in NodesOf(tmevt_heap) : ahead[x.evt] > - TIC_DENO)'
      /\ \A h \in EVT : cback = h => ahead'[h] = since[h]
  <2>1. ahead \in [EVT -> Int]
    BY <1>1 DEF CycAlmTypeOK
  <2> QED
    BY <1>1, <1>2, <1>4, <1>5, <2>1, StopTimed
<1>7. CycAlmTypeOK'
  BY <1>1, <1>2, <1>3, <1>6, CycAlmTypesOfParts DEF CycAlmTypeOK
<1>8. EventsAreAccountedFor'
  <2>1. {h \in EVT : Registered(h)'} = cycsta' \cup almsta'
    BY <1>1, <1>2, <1>6 DEF EventsAreAccountedFor, CycAlmTypeOK
  <2>2. cycsta' \cup almsta' \subseteq exist'
    BY <1>1, <1>2, <1>3 DEF EventsAreAccountedFor, CycAlmTypeOK
  <2> QED
    BY <2>1, <2>2 DEF EventsAreAccountedFor
<1>9. TimesKept'
  BY <1>1, <1>2, <1>6 DEF TimesKept
<1>10. (cback \in CYC => ahead[cback] <= cyctim[cback] * TIC_DENO)'
  <2> SUFFICES ASSUME cback \in CYC
               PROVE  ahead'[cback] <= cyctim[cback] * TIC_DENO
    BY <1>2
  <2>1. cback \in EVT /\ cback # a
    BY <1>1 DEF HdrAssumption
  <2> QED
    BY <1>5, <1>6, <2>1 DEF HdrTimingInv
<1>11. (cback \in ALM /\ ~ Registered(cback) => ahead[cback] <= 0)'
  <2> SUFFICES ASSUME cback \in ALM, ~ Registered(cback)'
               PROVE  ahead'[cback] <= 0
    BY <1>2 DEF Registered
  <2>1. cback \in EVT /\ ahead'[cback] = since[cback]
    BY <1>6 DEF HdrAssumption
  <2>2. CASE cback = a
    BY <1>5, <2>1, <2>2
  <2>3. CASE cback # a
    <3>1. ~ Registered(cback)
      BY <1>2, <1>6, <2>3 DEF Registered
    <3> QED
      BY <1>5, <2>1, <2>3, <3>1 DEF HdrTimingInv
  <2> QED
    BY <2>2, <2>3
<1> QED
  BY <1>6, <1>7, <1>8, <1>9, <1>10, <1>11 DEF HdrInv, HdrTimingInv


\* The heap invariant of the state that signal_time leads to
LEMMA HeapInvAfter ==
    ASSUME IsHeap(tmevt_heap)', IndexOK', tmevt_heap' \in Seq(Node), index' \in [EVT -> Nat],
           current_time' \in EVTTIM, min_time' \in EVTTIM, next_time' \in EVTTIM,
           next_subtime' \in 0 .. TIC_DENO - 1
    PROVE  HeapInv'
  BY DEF HeapInv, HeapTypeOK, Node, EVTTIM

\* The first node of the heap, when it is due
LEMMA FirstIsDue ==
    ASSUME TimeAssumption, HeapInv, NEW now \in EVTTIM, NEW nxt \in EVTTIM, NEW sub \in Nat,
           NEW since, \A h \in EVT : since[h] \in Int,
           OnSchedule(tmevt_heap, now, nxt, sub, Rest(since)), Due(tmevt_heap, now)
    PROVE  /\ tmevt_heap[1] \in NodesOf(tmevt_heap)
           /\ tmevt_heap[1].evt \in EVT /\ tmevt_heap[1].time \in EVTTIM
           /\ SinceMin(tmevt_heap[1].time) \in Nat /\ SinceMin(now) \in Nat /\ SinceMin(nxt) \in Nat
           /\ SinceMin(tmevt_heap[1].time) <= SinceMin(now)
           /\ since[tmevt_heap[1].evt] <= 0
           /\ IsHeap(Without(tmevt_heap, 1)) /\ ~ InHeap(Without(tmevt_heap, 1), tmevt_heap[1].evt)
           /\ NodesOf(Without(tmevt_heap, 1))
                = {a \in NodesOf(tmevt_heap) : a.evt # tmevt_heap[1].evt}
<1> DEFINE h == tmevt_heap
           root == h[1]
           e == root.evt
           V == Without(h, 1)
           p == SinceMin(root.time)
           A == SinceMin(nxt)
           C == SinceMin(now)
           k == since[e] - TIC_NUME
<1>1. HeapTypeOK /\ IsHeap(h) /\ ClockTypeOK
  BY ClockIsOK DEF HeapInv
<1>2. 1 \in 1 .. Len(h) /\ root \in NodesOf(h)
  <2>1. Len(h) \in Nat /\ h # <<>> /\ h \in Seq(Node) /\ DOMAIN h = 1 .. Len(h)
    BY <1>1, HeapNodes DEF Due
  <2>2. 1 \in 1 .. Len(h)
    BY <2>1
  <2> QED
    BY <2>1, <2>2 DEF NodesOf
<1>3. e \in EVT /\ root.time \in EVTTIM /\ p \in Nat /\ A \in Nat /\ C \in Nat
  BY <1>1, <1>2, ScheduleNumbers
<1>4. p <= C
  BY DEF Due, LE
<1>5. TIC_NUME <= (A - C) * TIC_DENO + sub /\ 0 <= ((p - A) * TIC_DENO - sub) - k
  BY <1>2, <1>3 DEF OnSchedule, Rest
<1>6. TIC_NUME \in Nat /\ TIC_DENO \in Nat /\ since[e] \in Int /\ k \in Int
  <2>1. TIC_NUME \in Nat /\ TIC_DENO \in Nat /\ since[e] \in Int
    BY <1>3, TickFacts
  <2> QED
    BY <2>1
<1>7. since[e] <= 0
  <2> HIDE DEF p, A, C, k
  <2>1. k + TIC_NUME <= 0
    BY <1>3, <1>4, <1>5, <1>6, DueHasWaited
  <2> QED
    BY <1>6, <2>1 DEF k
<1>8. IsHeap(V) /\ NodesOf(V) = NodesOf(h) \ {root}
  BY <1>1, <1>2, WithoutIsHeap
<1> HIDE DEF V
<1>9. \A a \in NodesOf(h) : a.evt = e => a = root
  <2> SUFFICES ASSUME NEW a \in NodesOf(h), a.evt = e
               PROVE  a = root
    OBVIOUS
  <2>1. PICK i \in 1 .. Len(h) : a = h[i]
    BY <1>1, HeapNodes DEF NodesOf
  <2>2. i = 1
    BY <1>1, <1>2, <2>1 DEF IsHeap, OnceEach
  <2> QED
    BY <2>1, <2>2
<1>10. NodesOf(V) = {a \in NodesOf(h) : a.evt # e}
  BY <1>2, <1>8, <1>9
<1>11. ~ InHeap(V, e)
  BY <1>10 DEF InHeap, NodesOf
<1> QED
  BY <1>2, <1>3, <1>4, <1>7, <1>8, <1>10, <1>11 DEF V

\* The node of a cyclic handler moves by its cycle, so it stays on schedule.
LEMMA NextCycle ==
    ASSUME NEW p \in Int, NEW A \in Int, NEW sub \in Int, NEW ms \in Int, NEW mis \in Int, NEW D \in Int
    PROVE  (((p + ms) - A) * D - sub) - (mis + ms * D) = ((p - A) * D - sub) - mis
<1> DEFINE q == p - A
<1>1. (p + ms) - A = q + ms /\ q \in Int
  OBVIOUS
<1> HIDE DEF q
<1>2. (q + ms) * D = q * D + ms * D /\ q * D \in Int /\ ms * D \in Int
  BY <1>1, Products
<1>3. ((p + ms) - A) * D = q * D + ms * D
  BY <1>1, <1>2
<1>4. ((q * D + ms * D) - sub) - (mis + ms * D) = (q * D - sub) - mis
  BY <1>2
<1> QED
  BY <1>3, <1>4 DEF q


\* call_cychdr: the next call is a cycle after the one that was due.
LEMMA CallCychdrKeeps ==
    ASSUME TimeAssumption, HdrAssumption, HdrInv, NEW now \in EVTTIM, NEW nxt \in EVTTIM,
           NEW sub \in 0 .. TIC_DENO - 1, NEW since \in [EVT -> Int],
           OnSchedule(tmevt_heap, now, nxt, sub, Rest(since)), Due(tmevt_heap, now),
           NEW e \in CYC, e = tmevt_heap[1].evt, cback' = e, CallCychdr(e, now, since),
           UNCHANGED <<min_time, attrVars>>,
           current_time' = now, next_time' = nxt, next_subtime' = sub
    PROVE  HdrInv' /\ HdrTimingInv'
<1> DEFINE V == Without(tmevt_heap, 1)
           root == tmevt_heap[1]
           at == Plus(evttim[e], cyctim[e])
           W == With(V, e, at)
           new == [time |-> at, evt |-> e]
           up == [since EXCEPT ![e] = @ + cyctim[e] * TIC_DENO]
           p == SinceMin(root.time)
           A == SinceMin(nxt)
           C == SinceMin(now)
<1>1. /\ HeapInv /\ CycAlmTypeOK /\ EventsAreAccountedFor /\ TimesKept /\ e \in EVT /\ NoEvt \notin EVT
      /\ HeapTypeOK /\ IsHeap(tmevt_heap) /\ ClockTypeOK
  BY StaSaysIt, ClockIsOK DEF HdrInv, HeapInv, TimeAssumption, NoEvtAssumption
<1>2. /\ SetNodes(W) /\ evttim' = [evttim EXCEPT ![e] = at] /\ Ahead(up)
      /\ UNCHANGED <<cycsta, almsta, min_time, exist, cyctim, cycphs>>
  BY DEF CallCychdr, attrVars
<1>3. sub \in Nat /\ TIC_NUME \in Int /\ TIC_DENO \in Int /\ TIC_DENO >= 1
      /\ WholeMs \in Nat /\ TMAX_RELTIM \in Nat /\ MODULUS \in Nat
      /\ TMAX_RELTIM + 2 * (WholeMs + 1) + 1 < MODULUS
  <2>1. TIC_NUME \in Nat /\ TIC_DENO \in Nat /\ TIC_DENO >= 1
        /\ WholeMs \in Nat /\ TMAX_RELTIM \in Nat /\ MODULUS \in Nat
        /\ TMAX_RELTIM + 2 * (WholeMs + 1) + 1 < MODULUS
    BY TickFacts
  <2> QED
    BY <2>1
<1>4. /\ root \in NodesOf(tmevt_heap) /\ root.time \in EVTTIM
      /\ p \in Nat /\ C \in Nat /\ A \in Nat /\ p <= C /\ since[e] <= 0
      /\ IsHeap(V) /\ ~ InHeap(V, e) /\ NodesOf(V) = {a \in NodesOf(tmevt_heap) : a.evt # e}
  BY <1>1, <1>3, FirstIsDue
<1>5. /\ C <= A /\ C <= WholeMs + 1
      /\ \A a \in NodesOf(tmevt_heap) :
           LET q == SinceMin(a.time)
               off == ((q - A) * TIC_DENO - sub) - Rest(since)[a.evt]
           IN  q <= A + TMAX_RELTIM + 1 /\ 0 <= off /\ off < TIC_DENO
  BY DEF OnSchedule
<1>6. root.time = evttim[e] /\ root.evt = e
  BY <1>1, <1>4 DEF TimesKept
<1> HIDE DEF V, root
<1>7. cyctim[e] \in Nat /\ cyctim[e] <= TMAX_RELTIM /\ cyctim[e] \in RELTIM
  BY <1>1, <1>3 DEF CycAlmTypeOK, RELTIM
<1>8. at \in EVTTIM /\ SinceMin(at) = p + cyctim[e]
  <2>1. p + cyctim[e] < MODULUS
    <3> HIDE DEF p, A, C
    <3> QED
      BY <1>3, <1>4, <1>5, <1>7
  <2>2. SinceMin(at) = p + cyctim[e]
    BY <1>1, <1>4, <1>6, <1>7, <2>1, PlusMoves
  <2>3. evttim[e] + cyctim[e] \in Int /\ MODULUS \in Nat \ {0}
    BY <1>1, <1>4, <1>6, <1>7 DEF EVTTIM, ClockTypeOK
  <2> QED
    BY <2>2, <2>3 DEF Plus, EVTTIM
<1> HIDE DEF at
<1>9. IsHeap(W) /\ NodesOf(W) = NodesOf(V) \cup {new}
  BY <1>1, <1>4, <1>8, WithIsHeap
<1>10. new.evt = e /\ new.time = at
  OBVIOUS
<1> HIDE DEF W, new
<1>11. tmevt_heap' = W /\ NodesOf(tmevt_heap)' = NodesOf(W)
  BY <1>2 DEF SetNodes, NodesOf
<1>12. HeapInv'
  <2>1. IsHeap(tmevt_heap)' /\ IndexOK' /\ tmevt_heap' \in Seq(Node) /\ index' \in [EVT -> Nat]
    BY <1>2, <1>9, NewHeapKeeps
  <2>2. current_time' \in EVTTIM /\ min_time' \in EVTTIM /\ next_time' \in EVTTIM
        /\ next_subtime' \in 0 .. TIC_DENO - 1
    BY <1>1, <1>2 DEF HeapTypeOK
  <2> QED
    BY <2>1, <2>2, HeapInvAfter
<1>13. \A h : Registered(h)' <=> Registered(h)
  <2>1. Registered(e)
    BY <1>1, <1>4, <1>6, RegisteredInHeap
  <2> QED
    BY <1>1, <1>4, <1>9, <1>10, <1>11, <1>12, <2>1, RegisteredInHeap, RegisteredLater
<1>14. \A a \in NodesOf(W) : \/ a.evt = e /\ a.time = at
                             \/ a.evt # e /\ a \in NodesOf(tmevt_heap)
  BY <1>4, <1>9, <1>10
<1>15. \A a \in NodesOf(W) : a.evt \in EVT
  BY <1>1, <1>14, ScheduleNumbers
<1>16. /\ up[e] = since[e] + cyctim[e] * TIC_DENO /\ cyctim[e] * TIC_DENO \in Int
       /\ \A h \in EVT : h # e => up[h] = since[h]
  <2>1. cyctim[e] * TIC_DENO \in Int
    BY <1>3, <1>7
  <2> DEFINE d == cyctim[e] * TIC_DENO
  <2>2. up = [since EXCEPT ![e] = @ + d]
    OBVIOUS
  <2> HIDE DEF up, d
  <2>3. up[e] = since[e] + d /\ \A h \in EVT : h # e => up[h] = since[h]
    BY <1>1, <2>2
  <2> QED
    BY <2>1, <2>3 DEF d
<1> DEFINE d == cyctim[e] * TIC_DENO
<1>25. d \in Int /\ up[e] = since[e] + d
  BY <1>16
<1>17. \A h \in EVT : up[h] \in Int
  <2> HIDE DEF up, d
  <2> QED
    BY <1>1, <1>16, <1>25
<1> HIDE DEF up
<1>18. /\ ahead' \in [EVT -> Int] /\ ahead'[e] = up[e]
       /\ \A x \in NodesOf(W) : x.evt \in EVT /\ ahead'[x.evt] = up[x.evt]
  BY <1>1, <1>2, <1>11, <1>15, <1>17, AheadKeeps
<1>19. OnSchedule(tmevt_heap, current_time, next_time, next_subtime, Rest(ahead))'
  <2> DEFINE mis == Rest(since)
             other == Rest(up)
  <2>1. mis[e] \in Int /\ other[e] = mis[e] + cyctim[e] * TIC_DENO
        /\ \A h \in EVT : h # e => other[h] = mis[h]
    <3>1. mis[e] = since[e] - TIC_NUME /\ since[e] \in Int /\ other[e] = up[e] - TIC_NUME
      BY <1>1 DEF Rest
    <3>2. \A h \in EVT : h # e => other[h] = mis[h]
      BY <1>16 DEF Rest
    <3> HIDE DEF mis, other, d
    <3>3. other[e] = mis[e] + d /\ mis[e] \in Int
      BY <1>3, <1>25, <3>1
    <3> QED
      BY <3>2, <3>3 DEF d
  <2>2. ASSUME NEW a \in NodesOf(W)
        PROVE  LET q == SinceMin(a.time)
                   off == ((q - A) * TIC_DENO - sub) - other[a.evt]
               IN  q <= A + TMAX_RELTIM + 1 /\ 0 <= off /\ off < TIC_DENO
    <3>1. CASE a.evt # e
      <4>1. a \in NodesOf(tmevt_heap) /\ other[a.evt] = mis[a.evt]
        BY <1>14, <1>15, <2>1, <3>1
      <4> HIDE DEF other
      <4> QED
        BY <1>5, <4>1
    <3>2. CASE a.evt = e
      <4>1. a.time = at
        BY <1>14, <3>2
      <4>2. /\ 0 <= ((p - A) * TIC_DENO - sub) - mis[e]
            /\ ((p - A) * TIC_DENO - sub) - mis[e] < TIC_DENO
        BY <1>4, <1>5, <1>6
      <4> DEFINE m == mis[e]
                 ms == cyctim[e]
      <4>3. m \in Int /\ ms \in Int /\ other[e] = m + ms * TIC_DENO /\ SinceMin(a.time) = p + ms
        BY <1>7, <1>8, <2>1, <4>1
      <4> HIDE DEF mis, other, p, A, C, m, ms
      <4>4. (((p + ms) - A) * TIC_DENO - sub) - (m + ms * TIC_DENO) = ((p - A) * TIC_DENO - sub) - m
        BY <1>3, <1>4, <4>3, NextCycle
      <4>5. p + ms <= A + TMAX_RELTIM + 1
        BY <1>3, <1>4, <1>5, <1>7, <4>3 DEF ms
      <4> QED
        BY <3>2, <4>2, <4>3, <4>4, <4>5 DEF m
    <3> QED
      BY <3>1, <3>2
  <2>3. OnSchedule(W, now, nxt, sub, other)
    <3> HIDE DEF other
    <3> QED
      BY <2>2 DEF OnSchedule
  <2>4. ScheduleFrom(min_time, W, now, nxt, sub, Rest(up))
    BY <2>3, ScheduleIsFrom
  <2> QED
    BY <1>2, <1>11, <1>18, <2>4, HdrScheduleLater
<1>20. CycAlmTypeOK'
  <2>1. evttim' \in [CYC -> EVTTIM]
    BY <1>1, <1>2, <1>8 DEF CycAlmTypeOK
  <2>2. cback' \in exist'
    <3>1. Registered(e)
      BY <1>1, <1>4, <1>6, RegisteredInHeap
    <3> QED
      BY <1>1, <1>2, <3>1 DEF EventsAreAccountedFor
  <2> QED
    BY <1>1, <1>2, <1>12, <1>18, <2>1, <2>2, CycAlmTypesOfParts DEF CycAlmTypeOK
<1>21. EventsAreAccountedFor'
  BY <1>1, <1>2, <1>13 DEF EventsAreAccountedFor
<1>22. TimesKept'
  <2>1. \A a \in NodesOf(W) : a.evt \in CYC => a.time = evttim'[a.evt]
    BY <1>1, <1>2, <1>14 DEF TimesKept, CycAlmTypeOK
  <2> QED
    BY <1>11, <2>1 DEF TimesKept
<1>23. (cback \in CYC => ahead[cback] <= cyctim[cback] * TIC_DENO)'
  <2>1. ahead'[e] = since[e] + d /\ since[e] \in Int /\ cyctim'[e] = cyctim[e]
    BY <1>1, <1>2, <1>25, <1>18
  <2>2. cyctim'[e] * TIC_DENO = d
    BY <2>1
  <2> HIDE DEF d
  <2>3. ahead'[e] <= d
    BY <1>4, <1>25, <2>1
  <2> QED
    BY <2>2, <2>3
<1>24. cback' # NoEvt /\ cback' \notin ALM
  BY <1>1, StaSaysIt
<1> QED
  BY <1>12, <1>19, <1>20, <1>21, <1>22, <1>23, <1>24 DEF HdrInv, HdrTimingInv


\* call_almhdr: the handler is called once.
LEMMA CallAlmhdrKeeps ==
    ASSUME TimeAssumption, HdrAssumption, HdrInv, NEW now \in EVTTIM, NEW nxt \in EVTTIM,
           NEW sub \in 0 .. TIC_DENO - 1, NEW since \in [EVT -> Int],
           OnSchedule(tmevt_heap, now, nxt, sub, Rest(since)), Due(tmevt_heap, now),
           NEW e \in ALM, e = tmevt_heap[1].evt, cback' = e, CallAlmhdr(e, since),
           UNCHANGED <<min_time, attrVars>>,
           current_time' = now, next_time' = nxt, next_subtime' = sub
    PROVE  HdrInv' /\ HdrTimingInv'
<1> DEFINE V == Without(tmevt_heap, 1)
           root == tmevt_heap[1]
<1>1. /\ HeapInv /\ CycAlmTypeOK /\ EventsAreAccountedFor /\ TimesKept /\ e \in EVT /\ NoEvt \notin EVT
      /\ HeapTypeOK /\ IsHeap(tmevt_heap)
  BY StaSaysIt DEF HdrInv, HeapInv, TimeAssumption, NoEvtAssumption
<1>2. /\ SetNodes(V) /\ Ahead(since) /\ almsta' = almsta \ {e}
      /\ UNCHANGED <<cycsta, evttim, min_time, exist, cyctim, cycphs>>
  BY DEF CallAlmhdr, attrVars
<1>3. sub \in Nat
  BY TickFacts
<1>4. /\ root \in NodesOf(tmevt_heap) /\ root.evt = e /\ since[e] <= 0
      /\ IsHeap(V) /\ NodesOf(V) = {a \in NodesOf(tmevt_heap) : a.evt # e}
  BY <1>1, <1>3, FirstIsDue
<1> HIDE DEF V, root
<1>5. tmevt_heap' = V /\ NodesOf(tmevt_heap)' = NodesOf(V)
  BY <1>2 DEF SetNodes, NodesOf
<1>6. HeapInv'
  <2>1. IsHeap(tmevt_heap)' /\ IndexOK' /\ tmevt_heap' \in Seq(Node) /\ index' \in [EVT -> Nat]
    BY <1>2, <1>4, NewHeapKeeps
  <2>2. current_time' \in EVTTIM /\ min_time' \in EVTTIM /\ next_time' \in EVTTIM
        /\ next_subtime' \in 0 .. TIC_DENO - 1
    BY <1>1, <1>2 DEF HeapTypeOK
  <2> QED
    BY <2>1, <2>2, HeapInvAfter
<1>7. Registered(e) /\ \A h : Registered(h)' <=> Registered(h) /\ h # e
  BY <1>1, <1>4, <1>5, <1>6, RegisteredInHeap, RegisteredLater
<1>8. \A a \in NodesOf(V) : a.evt \in EVT /\ a \in NodesOf(tmevt_heap)
  BY <1>1, <1>4, ScheduleNumbers
<1>9. /\ ahead' \in [EVT -> Int] /\ ahead'[e] = since[e]
      /\ \A x \in NodesOf(V) : x.evt \in EVT /\ ahead'[x.evt] = since[x.evt]
  BY <1>1, <1>2, <1>5, <1>8, AheadKeeps
<1>10. OnSchedule(tmevt_heap, current_time, next_time, next_subtime, Rest(ahead))'
  <2>1. NodesOf(V) \in SUBSET NodesOf(tmevt_heap)
    BY <1>8
  <2>2. ScheduleFrom(min_time, V, now, nxt, sub, Rest(since))
    BY <2>1, ScheduleOfFewer, ScheduleIsFrom
  <2> QED
    BY <1>2, <1>5, <1>9, <2>2, HdrScheduleLater
<1>11. CycAlmTypeOK'
  <2>1. cback' \in exist'
    BY <1>1, <1>2, <1>7 DEF EventsAreAccountedFor
  <2> QED
    BY <1>1, <1>2, <1>6, <1>9, <2>1, CycAlmTypesOfParts DEF CycAlmTypeOK
<1>12. EventsAreAccountedFor'
  <2>1. {h \in EVT : Registered(h)'} = cycsta' \cup almsta'
    BY <1>1, <1>2, <1>7, StaSaysIt DEF EventsAreAccountedFor, CycAlmTypeOK
  <2>2. cycsta' \cup almsta' \subseteq exist'
    BY <1>1, <1>2 DEF EventsAreAccountedFor
  <2> QED
    BY <2>1, <2>2 DEF EventsAreAccountedFor
<1>13. TimesKept'
  BY <1>1, <1>2, <1>5, <1>8 DEF TimesKept
<1>14. cback' # NoEvt /\ cback' \notin CYC /\ (ahead[cback] <= 0)'
  BY <1>1, <1>4, <1>9, StaSaysIt
<1> QED
  BY <1>6, <1>10, <1>11, <1>12, <1>13, <1>14 DEF HdrInv, HdrTimingInv

\* The loop of signal_time ends.
LEMMA NoMoreKeeps ==
    ASSUME TimeAssumption, HdrAssumption, HdrInv, NEW now \in EVTTIM, NEW nxt \in EVTTIM,
           NEW sub \in 0 .. TIC_DENO - 1, NEW since \in [EVT -> Int],
           OnSchedule(tmevt_heap, now, nxt, sub, Rest(since)), NoMore(now, since),
           UNCHANGED attrVars, current_time' = now, next_time' = nxt, next_subtime' = sub
    PROVE  HdrInv' /\ HdrTimingInv'
<1>1. /\ HeapInv /\ CycAlmTypeOK /\ EventsAreAccountedFor /\ TimesKept /\ NoEvt \notin EVT
      /\ HeapTypeOK /\ IsHeap(tmevt_heap) /\ IndexOK /\ ClockTypeOK
  BY ClockIsOK DEF HdrInv, HeapInv, TimeAssumption, NoEvtAssumption
<1>2. /\ ~ Due(tmevt_heap, now) /\ min_time' = now /\ cback' = NoEvt /\ Ahead(since)
      /\ UNCHANGED <<tmevt_heap, index, cycsta, almsta, evttim, exist, cyctim, cycphs>>
  BY DEF NoMore, heapVars, staVars, attrVars
<1>3. HeapInv' /\ NodesOf(tmevt_heap)' = NodesOf(tmevt_heap)
  <2>1. IsHeap(tmevt_heap)'
    BY <1>1, <1>2, HeapStaysInOrder
  <2>2. IndexOK' /\ tmevt_heap' \in Seq(Node) /\ index' \in [EVT -> Nat]
    BY <1>1, <1>2 DEF IndexOK, InHeap, NodeOf, HeapTypeOK
  <2>3. HeapInv'
    BY <1>2, <2>1, <2>2, HeapInvAfter
  <2> QED
    BY <1>2, <2>3 DEF NodesOf
<1>4. \A a \in NodesOf(tmevt_heap) : a.evt \in EVT /\ a.time \in EVTTIM
  BY <1>1, ScheduleNumbers
<1>5. /\ ahead' \in [EVT -> Int]
      /\ \A x \in NodesOf(tmevt_heap) : x.evt \in EVT /\ ahead'[x.evt] = since[x.evt]
  BY <1>2, <1>3, <1>4, AheadKeeps
<1>6. sub \in Nat /\ sub \in Int /\ TIC_NUME \in Nat /\ TIC_DENO \in Nat
  BY TickFacts
<1>7. /\ ScheduleFrom(now, tmevt_heap, now, nxt, sub, Rest(since))
      /\ \A a \in NodesOf(tmevt_heap) : (a.time - now) % MODULUS >= 1
  <2> DEFINE mis == Rest(since)
  <2>1. \A a \in NodesOf(tmevt_heap) : mis[a.evt] \in Int
    BY <1>4, <1>6 DEF Rest
  <2>2. OnSchedule(tmevt_heap, now, nxt, sub, mis)
    OBVIOUS
  <2> HIDE DEF mis
  <2>3. /\ ScheduleFrom(now, tmevt_heap, now, nxt, sub, mis)
        /\ \A a \in NodesOf(tmevt_heap) : (a.time - now) % MODULUS >= 1
    BY <1>1, <1>2, <1>6, <2>1, <2>2, ScheduleCatchesUp
  <2> QED
    BY <2>3 DEF mis
<1>8. OnSchedule(tmevt_heap, current_time, next_time, next_subtime, Rest(ahead))'
  BY <1>2, <1>5, <1>7, HdrScheduleLater
<1>9. \A x \in NodesOf(tmevt_heap) : since[x.evt] > - TIC_DENO
  <2> SUFFICES ASSUME NEW x \in NodesOf(tmevt_heap)
               PROVE  since[x.evt] > - TIC_DENO
    OBVIOUS
  <2> DEFINE p == (x.time - now) % MODULUS
             A == (nxt - now) % MODULUS
             C == (now - now) % MODULUS
             k == since[x.evt] - TIC_NUME
  <2>1. MODULUS \in Nat \ {0} /\ now \in Int /\ nxt \in Int /\ x.time \in Int
    BY <1>1, <1>4 DEF ClockTypeOK, EVTTIM
  <2>2. p \in Int /\ A \in Int /\ C = 0
    <3>1. x.time - now \in Int /\ nxt - now \in Int /\ now - now = 0
      BY <2>1
    <3> QED
      BY <2>1, <3>1
  <2>3. k \in Int /\ since[x.evt] \in Int
    BY <1>4, <1>6
  <2>4. /\ (A - C) * TIC_DENO + sub < TIC_NUME + TIC_DENO
        /\ ((p - A) * TIC_DENO - sub) - k < TIC_DENO
    BY <1>4, <1>7 DEF ScheduleFrom, Rest
  <2>5. p >= C + 1 /\ C \in Int
    BY <1>7, <2>2
  <2> HIDE DEF p, A, C, k
  <2>6. k + TIC_NUME > 1 - TIC_DENO
    BY <1>6, <2>2, <2>3, <2>4, <2>5, NotDueIsNotLate
  <2> QED
    BY <1>6, <2>3, <2>6 DEF k
<1>10. CycAlmTypeOK'
  BY <1>1, <1>2, <1>3, <1>5, CycAlmTypesOfParts DEF CycAlmTypeOK
<1>11. EventsAreAccountedFor'
  BY <1>1, <1>2 DEF EventsAreAccountedFor, Registered, InHeap
<1>12. TimesKept'
  BY <1>1, <1>2, <1>3 DEF TimesKept
<1>13. cback' = NoEvt /\ NoEvt \notin CYC /\ NoEvt \notin ALM
  BY <1>1, <1>2 DEF HdrAssumption
<1>14. (min_time = current_time /\ \A a \in NodesOf(tmevt_heap) : ahead[a.evt] > - TIC_DENO)'
  BY <1>2, <1>3, <1>5, <1>9
<1> QED
  BY <1>3, <1>8, <1>10, <1>11, <1>12, <1>13, <1>14 DEF HdrInv, HdrTimingInv

\* A turn of the loop of signal_time keeps the invariant.
LEMMA HdrTurnKeeps ==
    ASSUME TimeAssumption, HdrAssumption, HdrInv, NEW now \in EVTTIM, NEW nxt \in EVTTIM,
           NEW sub \in 0 .. TIC_DENO - 1, NEW since \in [EVT -> Int],
           OnSchedule(tmevt_heap, now, nxt, sub, Rest(since)),
           CallFirst(now, since) \/ NoMore(now, since),
           UNCHANGED attrVars, current_time' = now, next_time' = nxt, next_subtime' = sub
    PROVE  HdrInv' /\ HdrTimingInv'
<1>1. CASE NoMore(now, since)
  BY <1>1, NoMoreKeeps
<1>2. CASE CallFirst(now, since)
  <2> DEFINE e == tmevt_heap[1].evt
  <2>1. /\ Due(tmevt_heap, now) /\ cback' = e /\ UNCHANGED min_time
        /\ IF e \in CYC THEN CallCychdr(e, now, since) ELSE CallAlmhdr(e, since)
    BY <1>2 DEF CallFirst
  <2>2. e \in EVT
    <3>1. sub \in Nat /\ HeapInv /\ \A h \in EVT : since[h] \in Int
      BY TickFacts DEF HdrInv
    <3> QED
      BY <2>1, <3>1, FirstIsDue
  <2> DEFINE x == e
  <2>3. x = tmevt_heap[1].evt /\ cback' = x /\ (x \in CYC \/ x \in ALM)
        /\ (x \in CYC => CallCychdr(x, now, since)) /\ (x \notin CYC => CallAlmhdr(x, since))
    BY <2>1, <2>2 DEF HdrAssumption
  <2> HIDE DEF e, x
  <2>4. CASE x \in CYC
    BY <2>1, <2>3, <2>4, CallCychdrKeeps
  <2>5. CASE x \notin CYC
    BY <2>1, <2>3, <2>5, CallAlmhdrKeeps
  <2> QED
    BY <2>4, <2>5
<1> QED
  BY <1>1, <1>2

LEMMA TickKeeps ==
    ASSUME TimeAssumption, HdrAssumption, HdrInv, HdrTimingInv, Tick
    PROVE  HdrInv' /\ HdrTimingInv'
<1> DEFINE now == current_time'
           nxt == next_time'
           sub == next_subtime'
           since == [h \in EVT |-> ahead[h] - TIC_NUME]
           mis == Rest(ahead)
           less == [e \in EVT |-> mis[e] - TIC_NUME]
<1>1. HeapInv /\ HeapTypeOK /\ CycAlmTypeOK
  BY DEF HdrInv, HeapInv
<1>2. /\ cback = NoEvt /\ Advance /\ UNCHANGED attrVars
      /\ CallFirst(now, since) \/ NoMore(now, since)
  BY DEF Tick
<1>3. now \in EVTTIM /\ nxt \in EVTTIM /\ sub \in 0 .. TIC_DENO - 1
  BY <1>1, <1>2, AdvanceTyped
<1>4. since \in [EVT -> Int] /\ \A e \in EVT : mis[e] \in Int
  <2>1. TIC_NUME \in Int
    BY TickFacts
  <2> QED
    BY <1>1, <2>1 DEF CycAlmTypeOK, Rest
<1>5. less = Rest(since)
  BY DEF Rest
<1>6. OnSchedule(tmevt_heap, now, nxt, sub, Rest(since))
  <2>1. min_time = current_time /\ OnSchedule(tmevt_heap, current_time, next_time, next_subtime, mis)
    BY <1>2 DEF HdrTimingInv
  <2> HIDE DEF mis
  <2>2. OnSchedule(tmevt_heap, now, nxt, sub, less)
    BY <1>1, <1>2, <1>4, <2>1, AdvanceTimed
  <2> HIDE DEF less, since
  <2> QED
    BY <1>5, <2>2
<1> HIDE DEF now, nxt, sub, since
<1>7. current_time' = now /\ next_time' = nxt /\ next_subtime' = sub
  BY DEF now, nxt, sub
<1> QED
  BY <1>2, <1>3, <1>4, <1>6, <1>7, HdrTurnKeeps

LEMMA HandlerReturnsKeeps ==
    ASSUME TimeAssumption, HdrAssumption, HdrInv, HdrTimingInv, HandlerReturns
    PROVE  HdrInv' /\ HdrTimingInv'
<1>1. /\ CallFirst(current_time, ahead) \/ NoMore(current_time, ahead)
      /\ UNCHANGED <<current_time, next_time, next_subtime, attrVars>>
  BY DEF HandlerReturns
<1>2. /\ current_time \in EVTTIM /\ next_time \in EVTTIM /\ next_subtime \in 0 .. TIC_DENO - 1
      /\ ahead \in [EVT -> Int]
  BY DEF HdrInv, HeapInv, HeapTypeOK, CycAlmTypeOK
<1>3. OnSchedule(tmevt_heap, current_time, next_time, next_subtime, Rest(ahead))
  BY DEF HdrTimingInv
<1> QED
  BY <1>1, <1>2, <1>3, HdrTurnKeeps


\* The heap that initialize_cyclic makes, one handler after the other
FirstOf(T) == CHOOSE c \in T : TRUE
PutStep(put, T) ==
    IF T = {} THEN <<>> ELSE With(put[T \ {FirstOf(T)}], FirstOf(T), cycphs[FirstOf(T)])
UpTo(S, n) == {T \in SUBSET S : Cardinality(T) <= n}
IsPut(put, S, n) == put = [T \in UpTo(S, n) |-> PutStep(put, T)]

LEMMA FirstOfIsIn ==
    ASSUME NEW S, IsFiniteSet(S), NEW T \in SUBSET S, T # {}
    PROVE  /\ FirstOf(T) \in T /\ T \ {FirstOf(T)} \in SUBSET S
           /\ Cardinality(T) \in Nat /\ Cardinality(T) > 0
           /\ Cardinality(T \ {FirstOf(T)}) = Cardinality(T) - 1
<1>1. FirstOf(T) \in T
  BY DEF FirstOf
<1>2. IsFiniteSet(T)
  BY FS_Subset
<1>3. Cardinality(T) \in Nat /\ Cardinality(T \ {FirstOf(T)}) = Cardinality(T) - 1
  BY <1>1, <1>2, FS_CardinalityType, FS_RemoveElement
<1>4. IsFiniteSet(T \ {FirstOf(T)})
  BY <1>2, FS_Subset
<1>5. Cardinality(T \ {FirstOf(T)}) \in Nat
  BY <1>4, FS_CardinalityType
<1>6. Cardinality(T) > 0
  BY <1>3, <1>5
<1> QED
  BY <1>1, <1>3, <1>6

\* There is such a function, for sets of any size.
LEMMA PutStepExists ==
    ASSUME NEW S, IsFiniteSet(S), NEW n \in Nat, n > 0, NEW put, IsPut(put, S, n - 1)
    PROVE  \E g : IsPut(g, S, n)
<1> DEFINE g == [T \in UpTo(S, n) |-> PutStep(put, T)]
<1>1. ASSUME NEW T \in UpTo(S, n)
      PROVE  PutStep(g, T) = PutStep(put, T)
  <2>1. CASE T = {}
    BY <2>1 DEF PutStep
  <2>2. CASE T # {}
    <3> DEFINE U == T \ {FirstOf(T)}
    <3>1. T \in SUBSET S /\ Cardinality(T) <= n
      BY DEF UpTo
    <3>2. U \in SUBSET S /\ Cardinality(U) = Cardinality(T) - 1 /\ Cardinality(T) \in Nat
      BY <2>2, <3>1, FirstOfIsIn
    <3> HIDE DEF U
    <3>3. U \in UpTo(S, n) /\ U \in UpTo(S, n - 1)
      BY <3>1, <3>2 DEF UpTo
    <3>4. g[U] = PutStep(put, U)
      BY <3>3
    <3>5. put[U] = PutStep(put, U)
      <4> DEFINE f == [V \in UpTo(S, n - 1) |-> PutStep(put, V)]
      <4>1. put = f
        BY DEF IsPut
      <4>2. f[U] = PutStep(put, U)
        BY <3>3
      <4> HIDE DEF f
      <4> QED
        BY <4>1, <4>2
    <3>6. g[U] = put[U]
      BY <3>4, <3>5
    <3> HIDE DEF g
    <3> QED
      BY <2>2, <3>6 DEF PutStep, U
  <2> QED
    BY <2>1, <2>2
<1>2. g = [T \in UpTo(S, n) |-> PutStep(g, T)]
  <2> DEFINE k == [T \in UpTo(S, n) |-> PutStep(g, T)]
  <2>1. \A T \in UpTo(S, n) : g[T] = PutStep(put, T)
    OBVIOUS
  <2>2. \A T \in UpTo(S, n) : k[T] = PutStep(g, T)
    OBVIOUS
  <2>3. g = [T \in UpTo(S, n) |-> g[T]] /\ k = [T \in UpTo(S, n) |-> k[T]]
    OBVIOUS
  <2> HIDE DEF g, k
  <2>4. \A T \in UpTo(S, n) : g[T] = k[T]
    BY <1>1, <2>1, <2>2
  <2>5. g = k
    BY <2>3, <2>4
  <2> QED
    BY <2>5 DEF k
<1>3. IsPut(g, S, n)
  BY <1>2 DEF IsPut
<1> QED
  BY <1>3

LEMMA PutExists ==
    ASSUME NEW S, IsFiniteSet(S), NEW n \in Nat
    PROVE  \E put : IsPut(put, S, n)
<1> DEFINE Bad == {m \in Nat : ~ \E put : IsPut(put, S, m)}
<1>1. Bad = {}
  <2> SUFFICES ASSUME Bad # {}
               PROVE  FALSE
    OBVIOUS
  <2>1. PICK m \in Bad : \A k \in Bad : m <= k
    <3>1. Bad \in SUBSET Nat
      OBVIOUS
    <3> HIDE DEF Bad
    <3> QED
      BY <3>1, LeastOf
  <2>2. m \in Nat /\ ~ \E put : IsPut(put, S, m)
    OBVIOUS
  <2>3. CASE m = 0
    <3> DEFINE put == [T \in UpTo(S, 0) |-> <<>>]
    <3>1. \A T \in UpTo(S, 0) : T = {}
      <4> SUFFICES ASSUME NEW T \in UpTo(S, 0), T # {}
                   PROVE  FALSE
        OBVIOUS
      <4>1. T \in SUBSET S /\ Cardinality(T) <= 0
        BY DEF UpTo
      <4>2. Cardinality(T) \in Nat /\ Cardinality(T) > 0
        BY <4>1, FirstOfIsIn
      <4> QED
        BY <4>1, <4>2
    <3>2. \A f : \A T \in UpTo(S, 0) : PutStep(f, T) = <<>>
      BY <3>1 DEF PutStep
    <3>3. put = [T \in UpTo(S, 0) |-> PutStep(put, T)]
      <4> DEFINE k == [T \in UpTo(S, 0) |-> PutStep(put, T)]
      <4>1. \A T \in UpTo(S, 0) : put[T] = <<>> /\ k[T] = <<>>
        BY <3>2
      <4>2. put = [T \in UpTo(S, 0) |-> put[T]] /\ k = [T \in UpTo(S, 0) |-> k[T]]
        OBVIOUS
      <4> HIDE DEF put, k
      <4>3. put = k
        BY <4>1, <4>2
      <4> QED
        BY <4>3 DEF k
    <3>4. IsPut(put, S, 0)
      BY <3>3 DEF IsPut
    <3> QED
      BY <2>2, <2>3, <3>4
  <2>4. CASE m # 0
    <3>1. m - 1 \in Nat /\ m > 0
      BY <2>2, <2>4
    <3>2. m - 1 \notin Bad
      BY <2>1, <2>2, <3>1
    <3>3. PICK put : IsPut(put, S, m - 1)
      BY <3>1, <3>2
    <3> HIDE DEF Bad
    <3>4. \E g : IsPut(g, S, m)
      BY <2>2, <3>1, <3>3, PutStepExists
    <3> QED
      BY <2>2, <3>4
  <2> QED
    BY <2>3, <2>4
<1> QED
  BY <1>1


\* The heap that initialize_cyclic makes is one such function's value.
LEMMA PutResult ==
    ASSUME NEW S, IsFiniteSet(S), StartedAtInit(S)
    PROVE  \E put : /\ \A T \in SUBSET S : put[T] = PutStep(put, T)
                    /\ tmevt_heap = put[S]
                    /\ index = [h \in EVT |-> IF h \in S THEN NodeOf(put[S], h) ELSE 0]
<1> DEFINE put == CHOOSE f : f = [T \in SUBSET S |->
                     IF T = {} THEN <<>>
                     ELSE LET c == CHOOSE c \in T : TRUE IN With(f[T \ {c}], c, cycphs[c])]
<1>1. tmevt_heap = put[S] /\ index = [h \in EVT |-> IF h \in S THEN NodeOf(put[S], h) ELSE 0]
  BY DEF StartedAtInit
<1>2. Cardinality(S) \in Nat
  BY FS_CardinalityType
<1>3. UpTo(S, Cardinality(S)) = SUBSET S
  BY FS_Subset DEF UpTo
<1>4. \E f : IsPut(f, S, Cardinality(S))
  BY <1>2, PutExists
<1>5. \E f : f = [T \in SUBSET S |-> PutStep(f, T)]
  BY <1>3, <1>4 DEF IsPut
<1>6. \E f : f = [T \in SUBSET S |->
                     IF T = {} THEN <<>>
                     ELSE LET c == CHOOSE c \in T : TRUE IN With(f[T \ {c}], c, cycphs[c])]
  BY <1>5 DEF PutStep, FirstOf
<1>7. put = [T \in SUBSET S |->
                     IF T = {} THEN <<>>
                     ELSE LET c == CHOOSE c \in T : TRUE IN With(put[T \ {c}], c, cycphs[c])]
  BY <1>6
<1> HIDE DEF put
<1>8. put = [T \in SUBSET S |-> PutStep(put, T)]
  BY <1>7 DEF PutStep, FirstOf
<1> DEFINE k == [T \in SUBSET S |-> PutStep(put, T)]
<1>9. put = k /\ \A T \in SUBSET S : k[T] = PutStep(put, T)
  BY <1>8
<1> HIDE DEF k
<1>10. \A T \in SUBSET S : put[T] = PutStep(put, T)
  BY <1>9
<1> QED
  BY <1>1, <1>10

\* The nodes of the handlers of T, each due at its phase
Phases(T) == {[time |-> cycphs[c], evt |-> c] : c \in T}

\* It is a heap, of these nodes.
LEMMA PutIsHeap ==
    ASSUME ClockTypeOK, NEW S, IsFiniteSet(S), S \subseteq EVT, \A c \in S : cycphs[c] \in EVTTIM,
           NEW put, \A T \in SUBSET S : put[T] = PutStep(put, T)
    PROVE  \A T \in SUBSET S : IsHeap(put[T]) /\ NodesOf(put[T]) = Phases(T)
<1> DEFINE Good(T) == IsHeap(put[T]) /\ NodesOf(put[T]) = Phases(T)
           Bad == {Cardinality(T) : T \in {T \in SUBSET S : ~ Good(T)}}
<1>1. Bad = {}
  <2> SUFFICES ASSUME Bad # {}
               PROVE  FALSE
    OBVIOUS
  <2>1. Bad \in SUBSET Nat
    BY FS_Subset, FS_CardinalityType
  <2>2. PICK m \in Bad : \A k \in Bad : m <= k
    <3> HIDE DEF Bad
    <3> QED
      BY <2>1, LeastOf
  <2>3. PICK T \in SUBSET S : ~ Good(T) /\ m = Cardinality(T)
    OBVIOUS
  <2>4. CASE T = {}
    <3>1. put[T] = <<>>
      BY <2>3, <2>4 DEF PutStep
    <3>2. IsHeap(<<>>)
      BY DEF IsHeap, InOrder, OnceEach
    <3>3. NodesOf(<<>>) = {} /\ Phases(T) = {}
      BY <2>4 DEF NodesOf, Phases
    <3> QED
      BY <2>3, <3>1, <3>2, <3>3
  <2>5. CASE T # {}
    <3> DEFINE c == FirstOf(T)
               U == T \ {c}
    <3>1. c \in T /\ U \in SUBSET S /\ Cardinality(T) \in Nat
          /\ Cardinality(U) = Cardinality(T) - 1
      BY <2>3, <2>5, FirstOfIsIn
    <3>2. Good(U)
      <4>1. ~ Good(U) => Cardinality(U) \in Bad
        BY <3>1
      <4>2. Cardinality(U) = m - 1 /\ m \in Nat
        BY <2>3, <3>1
      <4> HIDE DEF Bad, Good, U
      <4>3. Cardinality(U) \notin Bad
        BY <2>2, <4>2
      <4> QED
        BY <4>1, <4>3
    <3>3. put[T] = With(put[U], c, cycphs[c])
      BY <2>3, <2>5 DEF PutStep
    <3> HIDE DEF c, U
    <3>4. c \in EVT /\ cycphs[c] \in EVTTIM
      BY <2>3, <3>1
    <3>5. ~ InHeap(put[U], c)
      <4>1. \A a \in NodesOf(put[U]) : a.evt # c
        BY <3>2 DEF Phases, U
      <4> QED
        BY <4>1 DEF InHeap, NodesOf
    <3>6. /\ IsHeap(put[T])
          /\ NodesOf(put[T]) = NodesOf(put[U]) \cup {[time |-> cycphs[c], evt |-> c]}
      BY <3>2, <3>3, <3>4, <3>5, WithIsHeap
    <3>7. Phases(T) = Phases(U) \cup {[time |-> cycphs[c], evt |-> c]}
      BY <3>1 DEF Phases, U
    <3> QED
      BY <2>3, <3>2, <3>6, <3>7
  <2> QED
    BY <2>4, <2>5
<1> QED
  BY <1>1


\* Every handler that starts at first is registered for its phase, a tick before the
\* first tick.
LEMMA HdrInitInv ==
    ASSUME TimeAssumption, HdrAssumption, HdrInit
    PROVE  HdrInv
<1>1. /\ exist = EVT \ DynHdr /\ cyctim \in [CYC -> RELTIM] /\ cycphs \in [CYC -> RELTIM]
      /\ cycsta \in SUBSET (CYC \cap exist) /\ almsta = {}
      /\ current_time = 0 /\ min_time = 0 /\ cback = NoEvt
      /\ next_time = TIC_NUME \div TIC_DENO /\ next_subtime = TIC_NUME % TIC_DENO
      /\ StartedAtInit(cycsta)
      /\ evttim = [c \in CYC |-> IF c \in cycsta THEN cycphs[c] ELSE 0]
      /\ ahead = [h \in EVT |-> IF h \in cycsta THEN cycphs[h] * TIC_DENO ELSE 0]
  BY DEF HdrInit
<1>2. /\ TIC_NUME \in Nat /\ TIC_DENO \in Nat \ {0} /\ MODULUS \in Nat \ {0} /\ TMAX_RELTIM \in Nat
      /\ TMAX_RELTIM + 2 * (TIC_NUME \div TIC_DENO + 1) + 1 < MODULUS
      /\ TIC_NUME \div TIC_DENO \in Nat /\ TIC_NUME % TIC_DENO \in 0 .. TIC_DENO - 1
  <2>1. TIC_NUME \in Nat /\ TIC_DENO \in Nat \ {0} /\ MODULUS \in Nat /\ TMAX_RELTIM \in Nat
        /\ TMAX_RELTIM + 2 * (TIC_NUME \div TIC_DENO + 1) + 1 < MODULUS
    BY DEF TimeAssumption, TicAssumption, RangeAssumption
  <2>2. TIC_NUME \div TIC_DENO \in Nat /\ TIC_NUME % TIC_DENO \in 0 .. TIC_DENO - 1
    BY <2>1
  <2> QED
    BY <2>1, <2>2
<1>3. RELTIM \in SUBSET EVTTIM /\ 0 \in EVTTIM /\ next_time \in EVTTIM
  BY <1>1, <1>2 DEF RELTIM, EVTTIM
<1>4. /\ EVT = CYC \cup ALM /\ IsFiniteSet(EVT) /\ \A c \in CYC : c \notin ALM
  BY DEF HdrAssumption
<1>5. /\ IsFiniteSet(cycsta) /\ cycsta \in SUBSET EVT /\ cycsta \in SUBSET CYC
      /\ \A c \in cycsta : cycphs[c] \in RELTIM /\ cycphs[c] \in EVTTIM
  BY <1>1, <1>3, <1>4, FS_Subset
<1>6. ClockTypeOK
  BY <1>1, <1>2, <1>3 DEF ClockTypeOK
<1>7. PICK put : /\ \A T \in SUBSET cycsta : put[T] = PutStep(put, T)
                 /\ tmevt_heap = put[cycsta]
                 /\ index = [h \in EVT |-> IF h \in cycsta THEN NodeOf(put[cycsta], h) ELSE 0]
  BY <1>1, <1>5, PutResult
<1>8. IsHeap(tmevt_heap) /\ NodesOf(tmevt_heap) = Phases(cycsta)
  BY <1>5, <1>6, <1>7, PutIsHeap
<1>9. \A h : InHeap(tmevt_heap, h) <=> h \in cycsta
  <2>1. \A h : (\E a \in Phases(cycsta) : a.evt = h) <=> h \in cycsta
    <3>1. \A a \in Phases(cycsta) : a.evt \in cycsta
      BY DEF Phases
    <3>2. \A h \in cycsta : /\ [time |-> cycphs[h], evt |-> h] \in Phases(cycsta)
                            /\ [time |-> cycphs[h], evt |-> h].evt = h
      BY DEF Phases
    <3> QED
      BY <3>1, <3>2
  <2>2. \A h : InHeap(tmevt_heap, h) <=> \E a \in NodesOf(tmevt_heap) : a.evt = h
    BY DEF InHeap, NodesOf
  <2> QED
    BY <1>8, <2>1, <2>2
<1>10. IndexOK
  BY <1>5, <1>7, <1>9 DEF IndexOK
<1>11. index \in [EVT -> Nat]
  <2>1. \A h \in EVT : InHeap(tmevt_heap, h) => NodeOf(tmevt_heap, h) \in Nat
    BY <1>8 DEF InHeap, NodeOf, IsHeap
  <2> QED
    BY <1>10, <2>1 DEF IndexOK
<1>12. HeapInv
  BY <1>1, <1>2, <1>3, <1>8, <1>10, <1>11 DEF HeapInv, HeapTypeOK, IsHeap
<1>13. CycAlmTypeOK
  <2>1. evttim \in [CYC -> EVTTIM]
    BY <1>1, <1>3, <1>5
  <2>2. ahead \in [EVT -> Int]
    <3>1. \A h \in cycsta : cycphs[h] * TIC_DENO \in Int
      <4>1. \A h \in cycsta : cycphs[h] \in Int
        BY <1>2, <1>5 DEF RELTIM
      <4> QED
        BY <1>2, <4>1
    <3> QED
      BY <1>1, <3>1
  <2>3. next_subtime \in 0 .. TIC_DENO - 1
    BY <1>1, <1>2
  <2> QED
    BY <1>1, <1>5, <2>1, <2>2, <2>3 DEF CycAlmTypeOK
<1>14. EventsAreAccountedFor
  BY <1>1, <1>5, <1>9 DEF EventsAreAccountedFor, Registered
<1>15. TimesKept
  <2>1. \A a \in Phases(cycsta) : a.evt \in cycsta /\ a.time = cycphs[a.evt]
    BY DEF Phases
  <2>2. \A c \in cycsta : evttim[c] = cycphs[c]
    BY <1>1, <1>5
  <2> QED
    BY <1>8, <2>1, <2>2 DEF TimesKept
<1> QED
  BY <1>12, <1>13, <1>14, <1>15 DEF HdrInv

\* And each is exactly on schedule.
LEMMA HdrInitTiming ==
    ASSUME TimeAssumption, HdrAssumption, HdrInit
    PROVE  HdrTimingInv
<1>1. /\ cycphs \in [CYC -> RELTIM] /\ cycsta \in SUBSET CYC
      /\ current_time = 0 /\ min_time = 0 /\ cback = NoEvt
      /\ next_time = WholeMs /\ next_subtime = TIC_NUME % TIC_DENO
      /\ StartedAtInit(cycsta)
      /\ ahead = [h \in EVT |-> IF h \in cycsta THEN cycphs[h] * TIC_DENO ELSE 0]
  BY DEF HdrInit, WholeMs
<1>2. /\ TIC_NUME \in Nat /\ TIC_DENO \in Nat /\ TIC_DENO >= 1 /\ WholeMs \in Nat
      /\ MODULUS \in Nat \ {0} /\ TMAX_RELTIM \in Nat
      /\ WholeMs < MODULUS /\ TMAX_RELTIM < MODULUS /\ next_subtime \in 0 .. TIC_DENO - 1
      /\ TIC_NUME = WholeMs * TIC_DENO + next_subtime
  <2> DEFINE r == TIC_NUME % TIC_DENO
  <2>1. /\ TIC_NUME \in Nat /\ TIC_DENO \in Nat /\ TIC_DENO >= 1
        /\ WholeMs \in Nat /\ TMAX_RELTIM \in Nat /\ MODULUS \in Nat
        /\ TMAX_RELTIM + 2 * (WholeMs + 1) + 1 < MODULUS
        /\ r \in 0 .. TIC_DENO - 1 /\ TIC_NUME = WholeMs * TIC_DENO + r
    BY TickFacts
  <2>2. next_subtime = r
    BY <1>1
  <2> HIDE DEF r
  <2>3. WholeMs < MODULUS /\ TMAX_RELTIM < MODULUS /\ MODULUS # 0
    BY <2>1
  <2> QED
    BY <2>1, <2>2, <2>3
<1>3. \A t \in 0 .. MODULUS - 1 : SinceMin(t) = t
  <2>1. \A a \in 0 .. MODULUS - 1 : a - 0 = a /\ a % MODULUS = a
    BY <1>2
  <2> QED
    BY <1>1, <2>1 DEF SinceMin
<1>4. SinceMin(current_time) = 0 /\ SinceMin(next_time) = WholeMs
  BY <1>1, <1>2, <1>3
<1>5. /\ cycsta \in SUBSET EVT /\ IsFiniteSet(cycsta)
      /\ \A c \in cycsta : cycphs[c] \in RELTIM /\ cycphs[c] \in EVTTIM
  <2>1. CYC \in SUBSET EVT /\ IsFiniteSet(EVT)
    BY DEF HdrAssumption
  <2>2. RELTIM \in SUBSET EVTTIM
    BY <1>2 DEF RELTIM, EVTTIM
  <2> QED
    BY <1>1, <2>1, <2>2, FS_Subset
<1>6. NodesOf(tmevt_heap) = Phases(cycsta)
  <2>1. ClockTypeOK
    BY <1>1, <1>2 DEF ClockTypeOK, EVTTIM
  <2>2. PICK put : /\ \A T \in SUBSET cycsta : put[T] = PutStep(put, T)
                   /\ tmevt_heap = put[cycsta]
    BY <1>1, <1>5, PutResult
  <2> QED
    BY <1>5, <2>1, <2>2, PutIsHeap
<1>7. (WholeMs - 0) * TIC_DENO = WholeMs * TIC_DENO /\ WholeMs * TIC_DENO \in Int
  BY <1>2
<1>8. /\ 0 <= WholeMs /\ WholeMs - 0 <= WholeMs + 1 /\ 0 <= WholeMs + 1
      /\ TIC_NUME <= (WholeMs - 0) * TIC_DENO + next_subtime
      /\ (WholeMs - 0) * TIC_DENO + next_subtime < TIC_NUME + TIC_DENO
  BY <1>2, <1>7
<1>9. ASSUME NEW a \in NodesOf(tmevt_heap)
      PROVE  /\ SinceMin(a.time) <= WholeMs + TMAX_RELTIM + 1
             /\ 0 <= ((SinceMin(a.time) - WholeMs) * TIC_DENO - next_subtime) - Rest(ahead)[a.evt]
             /\ ((SinceMin(a.time) - WholeMs) * TIC_DENO - next_subtime) - Rest(ahead)[a.evt]
                  < TIC_DENO
             /\ ahead[a.evt] > - TIC_DENO
  <2>1. PICK c \in cycsta : a.evt = c /\ a.time = cycphs[c]
    BY <1>6 DEF Phases
  <2> DEFINE p == cycphs[c]
  <2>2. p \in Nat /\ p <= TMAX_RELTIM /\ SinceMin(a.time) = p
    BY <1>2, <1>3, <1>5, <2>1 DEF RELTIM, EVTTIM
  <2>3. ahead[c] = p * TIC_DENO /\ Rest(ahead)[c] = p * TIC_DENO - TIC_NUME
    BY <1>1, <1>5 DEF Rest
  <2> HIDE DEF p
  <2>4. (p - WholeMs) * TIC_DENO = p * TIC_DENO - WholeMs * TIC_DENO
        /\ p * TIC_DENO \in Nat /\ WholeMs * TIC_DENO \in Nat
    BY <1>2, <2>2
  <2> DEFINE x == p * TIC_DENO
             y == WholeMs * TIC_DENO
  <2>5. x \in Nat /\ y \in Nat /\ TIC_NUME = y + next_subtime
    BY <1>2, <2>4
  <2> HIDE DEF x, y
  <2>6. (x - y - next_subtime) - (x - TIC_NUME) = 0 /\ x > - TIC_DENO
    BY <1>2, <2>5
  <2>7. ((p - WholeMs) * TIC_DENO - next_subtime) - Rest(ahead)[c] = 0 /\ ahead[c] > - TIC_DENO
    BY <2>3, <2>4, <2>6 DEF x, y
  <2> QED
    BY <1>2, <2>1, <2>2, <2>7
<1>10. OnSchedule(tmevt_heap, current_time, next_time, next_subtime, Rest(ahead))
  BY <1>4, <1>8, <1>9 DEF OnSchedule
<1>11. cback \notin CYC /\ cback \notin ALM
  BY <1>1 DEF TimeAssumption, NoEvtAssumption, HdrAssumption
<1> QED
  BY <1>1, <1>9, <1>10, <1>11 DEF HdrTimingInv


\* Every step of the handlers, their events and the clock keeps the invariant.
LEMMA HdrStep ==
    ASSUME TimeAssumption, HdrAssumption, HdrInv, HdrTimingInv, [HdrNext]_hdrVars
    PROVE  HdrInv' /\ HdrTimingInv'
<1>1. ASSUME NEW c \in CYC, NEW tim \in RELTIM, NEW phs \in RELTIM, NEW sta \in BOOLEAN,
             AcreCyc(c, tim, phs, sta)
      PROVE  HdrInv' /\ HdrTimingInv'
  BY <1>1, AcreCycKeeps
<1>2. ASSUME NEW c \in CYC, StaCyc(c)
      PROVE  HdrInv' /\ HdrTimingInv'
  BY <1>2, StaCycKeeps
<1>3. ASSUME NEW c \in CYC, StpCyc(c) \/ DelCyc(c)
      PROVE  HdrInv' /\ HdrTimingInv'
  BY <1>3, StpCycKeeps
<1>4. ASSUME NEW a \in ALM, AcreAlm(a)
      PROVE  HdrInv' /\ HdrTimingInv'
  BY <1>4, AcreAlmKeeps
<1>5. ASSUME NEW a \in ALM, StpAlm(a) \/ DelAlm(a)
      PROVE  HdrInv' /\ HdrTimingInv'
  BY <1>5, StpAlmKeeps
<1>6. ASSUME NEW a \in ALM, NEW almtim \in RELTIM, StaAlm(a, almtim)
      PROVE  HdrInv' /\ HdrTimingInv'
  BY <1>6, StaAlmKeeps
<1>7. CASE Tick
  BY <1>7, TickKeeps
<1>8. CASE HandlerReturns
  BY <1>8, HandlerReturnsKeeps
<1>9. CASE UNCHANGED hdrVars
  <2>1. UNCHANGED <<tmevt_heap, index, current_time, min_time, next_time, next_subtime, cback,
                    exist, cyctim, cycphs, cycsta, almsta, evttim, ahead>>
    BY <1>9 DEF hdrVars, heapVars, clockVars, attrVars, staVars
  <2>2. HeapInv'
    BY <2>1 DEF HdrInv, HeapInv, HeapTypeOK, IsHeap, InOrder, OnceEach, IndexOK, InHeap,
                NodeOf, LE, SinceMin, Node, EVTTIM
  <2>3. CycAlmTypeOK' /\ TimesKept'
    BY <2>1 DEF HdrInv, CycAlmTypeOK, TimesKept, NodesOf, RELTIM, EVTTIM
  <2>4. EventsAreAccountedFor'
    BY <2>1 DEF HdrInv, EventsAreAccountedFor, Registered, InHeap
  <2>5. OnSchedule(tmevt_heap, current_time, next_time, next_subtime, Rest(ahead))'
    BY <2>1 DEF HdrTimingInv, OnSchedule, NodesOf, SinceMin, WholeMs, Rest
  <2>6. HdrTimingInv'
    BY <2>1, <2>5 DEF HdrTimingInv, NodesOf, Registered, InHeap
  <2> QED
    BY <2>2, <2>3, <2>4, <2>6 DEF HdrInv
<1>10. HdrNext \/ UNCHANGED hdrVars
  OBVIOUS
<1> QED
  BY <1>1, <1>2, <1>3, <1>4, <1>5, <1>6, <1>7, <1>8, <1>9, <1>10 DEF HdrNext

\* The handlers' events stay in order and on schedule, whatever is started, stopped,
\* deleted and made while time passes and handlers run.
THEOREM HdrInvariance ==
    ASSUME TimeAssumption, HdrAssumption
    PROVE  HdrSpec => [](HdrInv /\ HdrTimingInv)
<1>1. HdrInit => HdrInv /\ HdrTimingInv
  BY HdrInitInv, HdrInitTiming
<1>2. HdrInv /\ HdrTimingInv /\ [HdrNext]_hdrVars => (HdrInv /\ HdrTimingInv)'
  BY HdrStep
<1> QED
  BY <1>1, <1>2, PTL DEF HdrSpec

\* The properties follow: cycsta and almsta always say whether the event of the handler
\* is in the heap, no handler is ever called early or left late, and a cyclic handler
\* does not drift.
LEMMA HdrInvShows ==
    ASSUME TimeAssumption, HdrAssumption, HdrInv, HdrTimingInv
    PROVE  CycAlmTypeOK /\ HeapConsistent /\ EventsAreAccountedFor /\ OnTime
<1>1. HeapConsistent
  BY HeapInvShows DEF HdrInv
<1>2. \A h \in EVT : Registered(h) => \E a \in NodesOf(tmevt_heap) : a.evt = h
  BY RegisteredInHeap DEF HdrInv, HeapInv
<1>3. cback = NoEvt => \A h \in EVT : Registered(h) => ahead[h] > - TIC_DENO
  BY <1>2 DEF HdrTimingInv
<1>4. OnTime
  BY <1>3 DEF HdrTimingInv, OnTime
<1> QED
  BY <1>1, <1>4 DEF HdrInv

-----------------------------------------------------------------------------
\* What the callers of time_event.h rely on

\* tmevtb_enqueue registers its event only.
LEMMA EnqueueRegisters ==
    ASSUME TimeAssumption, TimeInv, NEW e \in EVT, NEW time \in RELTIM, Enqueue(e, time)
    PROVE  /\ ~ Registered(e) /\ cback' = cback
           /\ \A x \in EVT : Registered(x)' <=> Registered(x) \/ x = e
<1> DEFINE W == With(tmevt_heap, e, Plus(base_time, time))
<1>1. HeapTypeOK /\ IsHeap(tmevt_heap)
  BY HeapPart DEF TimeInv
<1>2. ClockTypeOK /\ Plus(base_time, time) \in EVTTIM
  BY <1>1, ClockIsOK, PlusIsTime
<1>3. ~ InHeap(tmevt_heap, e) /\ tmevt_heap' = W /\ cback' = cback
  BY DEF Enqueue, Registered, SetNodes
<1>4. /\ IsHeap(W)
      /\ NodesOf(W) = NodesOf(tmevt_heap) \cup {[time |-> Plus(base_time, time), evt |-> e]}
  BY <1>1, <1>2, <1>3, WithIsHeap
<1>5. \A x : InHeap(W, x) <=> \E a \in NodesOf(W) : a.evt = x
  BY DEF InHeap, NodesOf
<1>6. \A x : InHeap(tmevt_heap, x) <=> \E a \in NodesOf(tmevt_heap) : a.evt = x
  BY DEF InHeap, NodesOf
<1> HIDE DEF W
<1>7. \A a : a \in NodesOf(W) => a \in NodesOf(tmevt_heap) \/ a.evt = e
  BY <1>4
<1>8. [time |-> Plus(base_time, time), evt |-> e] \in NodesOf(W)
  BY <1>4
<1>9. \A x : InHeap(W, x) <=> InHeap(tmevt_heap, x) \/ x = e
  <2>1. ASSUME NEW x, InHeap(W, x)
        PROVE  InHeap(tmevt_heap, x) \/ x = e
    BY <1>5, <1>6, <1>7, <2>1
  <2>2. \A x : InHeap(tmevt_heap, x) => InHeap(W, x)
    BY <1>4, <1>5, <1>6
  <2>3. InHeap(W, e)
    BY <1>5, <1>8
  <2> QED
    BY <2>1, <2>2, <2>3
<1> QED
  BY <1>3, <1>9 DEF Registered

\* The heap without node i has the other events.
LEMMA WithoutRegisters ==
    ASSUME ClockTypeOK, NEW h, IsHeap(h), NEW i \in 1 .. Len(h)
    PROVE  \A x : InHeap(Without(h, i), x) <=> InHeap(h, x) /\ x # h[i].evt
<1> DEFINE W == Without(h, i)
<1>1. NodesOf(W) = NodesOf(h) \ {h[i]}
  BY WithoutIsHeap
<1>2. \A x : InHeap(W, x) <=> \E a \in NodesOf(W) : a.evt = x
  BY DEF InHeap, NodesOf
<1>3. \A x : InHeap(h, x) <=> \E a \in NodesOf(h) : a.evt = x
  BY DEF InHeap, NodesOf
<1>4. \A a \in NodesOf(h) : a.evt = h[i].evt => a = h[i]
  <2>1. DOMAIN h = 1 .. Len(h)
    BY HeapNodes
  <2> QED
    BY <2>1 DEF NodesOf, IsHeap, OnceEach
<1> HIDE DEF W
<1>5. \A x : InHeap(W, x) <=> InHeap(h, x) /\ x # h[i].evt
  BY <1>1, <1>2, <1>3, <1>4
<1> QED
  BY <1>5 DEF W

\* tmevtb_dequeue takes out its event only.
LEMMA DequeueUnregisters ==
    ASSUME TimeAssumption, TimeInv, NEW e \in EVT, Dequeue(e)
    PROVE  cback' = cback /\ \A x \in EVT : Registered(x)' <=> Registered(x) /\ x # e
<1> DEFINE i == index[e]
<1>1. HeapTypeOK /\ IsHeap(tmevt_heap) /\ IndexOK /\ InHeap(tmevt_heap, e)
  BY HeapPart DEF TimeInv, Dequeue, Registered
<1>2. ClockTypeOK
  BY <1>1, ClockIsOK
<1>3. i \in 1 .. Len(tmevt_heap) /\ tmevt_heap[i].evt = e
  BY <1>1, NodeOfEvent DEF IndexOK
<1>4. tmevt_heap' = Without(tmevt_heap, i) /\ cback' = cback
  BY DEF Dequeue, SetNodes
<1> HIDE DEF i
<1>5. \A x : InHeap(Without(tmevt_heap, i), x) <=> InHeap(tmevt_heap, x) /\ x # e
  BY <1>1, <1>2, <1>3, WithoutRegisters
<1> QED
  BY <1>4, <1>5 DEF Registered

\* signal_time takes out the events that it calls.
LEMMA TurnUnregisters ==
    ASSUME TimeAssumption, TimeInv, SignalTime \/ CallbackReturns
    PROVE  /\ cback' # NoEvt => cback' \in EVT /\ Registered(cback')
           /\ \A x \in EVT : Registered(x)' <=> Registered(x) /\ x # cback'
<1>1. HeapTypeOK /\ IsHeap(tmevt_heap) /\ NoEvt \notin EVT
  BY HeapPart DEF TimeInv, TimeAssumption, NoEvtAssumption
<1>2. ClockTypeOK
  BY <1>1, ClockIsOK
<1>3. PICK now : Turn(now)
  BY DEF SignalTime, CallbackReturns
<1>4. CASE Due(tmevt_heap, now)
  <2>1. cback' = tmevt_heap[1].evt /\ tmevt_heap' = Without(tmevt_heap, 1)
    BY <1>3, <1>4 DEF Turn, SetNodes
  <2>2. 1 \in 1 .. Len(tmevt_heap) /\ DOMAIN tmevt_heap = 1 .. Len(tmevt_heap)
        /\ tmevt_heap[1].evt \in EVT
    <3>1. tmevt_heap \in Seq(Node) /\ tmevt_heap # <<>>
      BY <1>1, <1>4 DEF Due, IsHeap
    <3>2. 1 \in 1 .. Len(tmevt_heap)
      BY <3>1
    <3> QED
      BY <1>1, <3>2, HeapNodes
  <2>3. \A x : InHeap(Without(tmevt_heap, 1), x) <=> InHeap(tmevt_heap, x) /\ x # tmevt_heap[1].evt
    BY <1>1, <1>2, <2>2, WithoutRegisters
  <2>4. InHeap(tmevt_heap, tmevt_heap[1].evt)
    BY <2>2 DEF InHeap
  <2> QED
    BY <2>1, <2>2, <2>3, <2>4 DEF Registered
<1>5. CASE ~ Due(tmevt_heap, now)
  <2>1. cback' = NoEvt /\ tmevt_heap' = tmevt_heap
    BY <1>3, <1>5 DEF Turn, heapVars
  <2> QED
    BY <1>1, <2>1 DEF Registered
<1> QED
  BY <1>4, <1>5
=============================================================================
