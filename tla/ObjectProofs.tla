----------------------------- MODULE ObjectProofs -----------------------------
(***************************************************************************)
(* Objects with one wait queue among the steps of the scheduler: fixed-    *)
(* size memory pools, semaphores, event flags and mutexes, for every       *)
(* number of objects and tasks.                                            *)
(*                                                                         *)
(* For the pools, first the free lists and owners: how tasks wait and are  *)
(* scheduled does not matter to them.  Pools and semaphores are counted    *)
(* resources (CountedResource): what makes that an invariant of every step *)
(* is that nobody waits where there is a block or a unit, or no object;    *)
(* for the pools also that a block marked as given out is with some task.  *)
(*                                                                         *)
(* An event flag serves several tasks in one call of set_flg. The proof    *)
(* keeps the set of places that have been served (ServedUpTo) through the  *)
(* walk along the queue; that nobody waits for a condition that is met     *)
(* (WaitsUnmet) is what makes the walk right that starts it again.         *)
(*                                                                         *)
(* A service call on mutexes is a sequence of functions on a record k      *)
(* (WaitObject), between which the mutexes in D are linked in no list      *)
(* although p_loctsk may still name a task, and the tasks in X are ending. *)
(* MInv is what holds of k between the functions, with bp the base         *)
(* priorities.                                                             *)
(***************************************************************************)
EXTENDS Mutex, MCObjects, WaitObjectProofs

-----------------------------------------------------------------------------
(***************************************************************************)
(* Fixed-size memory pools                                                 *)
(***************************************************************************)

\* A pool without blocks given out is consistent, whatever its memory holds.
LEMMA RenewedOk ==
    ASSUME NEW n \in Nat \ {0}, NEW m \in PoolType(n)
    PROVE  PoolOk(Renewed(m, n), n) /\ PoolOk(NewPool(n), n)
<1> DEFINE s == << >>
<1>1. s \in BlockSeq(n)
  <2>1. s \in [1 .. 0 -> Index(n)] /\ 0 \in 0 .. n
    OBVIOUS
  <2> QED BY <2>1 DEF BlockSeq
<1>2. Renewed(m, n) \in PoolType(n) /\ NewPool(n) \in PoolType(n)
  <2>1. 0 \in Index(n) /\ 0 \in 0 .. n /\ n \in 0 .. n
    BY DEF Index
  <2>2. [b \in Index(n) |-> 0] \in [Index(n) -> Index(n) \cup {INDEX_NULL, INDEX_ALLOC}]
    BY <2>1
  <2>3. NewPool(n) \in PoolType(n)
    BY <2>1, <2>2 DEF NewPool, PoolType
  <2>4. Renewed(m, n) \in PoolType(n)
    BY <2>1 DEF Renewed, PoolType
  <2> QED BY <2>3, <2>4
<1>3. /\ Renewed(m, n).unused = 0 /\ Renewed(m, n).fblkcnt = n
      /\ Renewed(m, n).freelist = INDEX_NULL
      /\ NewPool(n).unused = 0 /\ NewPool(n).fblkcnt = n /\ NewPool(n).freelist = INDEX_NULL
  BY DEF Renewed, NewPool, PoolType
<1>4. Len(s) = 0 /\ DOMAIN s = {}
  OBVIOUS
<1> QED BY <1>1, <1>2, <1>3, <1>4 DEF PoolOk, IsFreeList

\* A sequence of different blocks is not longer than the pool.
LEMMA BlockSeqLength ==
    ASSUME NEW n \in Nat, NEW k \in Nat, NEW s \in [1 .. k -> Index(n)],
           \A i, j \in 1 .. k : s[i] = s[j] => i = j
    PROVE  k <= n
<1>1. s \in Injection(1 .. k, Index(n))
  BY DEF Injection, IsInjective
<1>2. IsFiniteSet(Index(n)) /\ Cardinality(Index(n)) = n
  BY FS_Interval DEF Index
<1>3. Cardinality(1 .. k) = k
  BY FS_Interval
<1> QED BY <1>1, <1>2, <1>3, FS_Injection

\* What the list of free blocks says of freelist
LEMMA FreeListFacts ==
    ASSUME NEW n \in Nat \ {0}, NEW m \in PoolType(n), NEW s \in BlockSeq(n), IsFreeList(m, s)
    PROVE  /\ s \in Seq(Index(n)) /\ DOMAIN s = 1 .. Len(s) /\ Len(s) \in 0 .. n
           /\ \A i \in 1 .. Len(s) : s[i] \in Index(n)
           /\ \A i, j \in 1 .. Len(s) : s[i] = s[j] => i = j
           /\ m.freelist # INDEX_NULL => Len(s) > 0 /\ s[1] = m.freelist
           /\ m.freelist = INDEX_NULL => Len(s) = 0
           /\ \A i \in 1 .. Len(s) : m.next[s[i]] # INDEX_ALLOC
<1>1. PICK k \in 0 .. n : s \in [1 .. k -> Index(n)]
  BY DEF BlockSeq
<1>2. s \in Seq(Index(n)) /\ DOMAIN s = 1 .. Len(s) /\ Len(s) = k
  BY <1>1
<1>3. \A i \in 1 .. Len(s) : s[i] \in Index(n) /\ s[i] \in Nat
  BY <1>1, <1>2 DEF Index
<1>4. \A i, j \in 1 .. Len(s) : s[i] = s[j] => i = j
  BY <1>2 DEF BlockSeq
<1>5. s # << >> <=> Len(s) > 0
  BY <1>2
<1>6. \A i \in 1 .. Len(s) : m.next[s[i]] # INDEX_ALLOC
  <2> TAKE i \in 1 .. Len(s)
  <2>1. m.next[s[i]] = IF i = Len(s) THEN INDEX_NULL ELSE s[i + 1]
    BY <1>2 DEF IsFreeList
  <2>2. i # Len(s) => s[i + 1] \in Nat
    BY <1>2, <1>3
  <2> QED BY <2>1, <2>2, IndexAssumption
<1>7. m.freelist = INDEX_NULL => Len(s) = 0
  BY <1>2, <1>3, <1>5, IndexAssumption DEF IsFreeList
<1>8. m.freelist # INDEX_NULL => Len(s) > 0 /\ s[1] = m.freelist
  BY <1>2, <1>5 DEF IsFreeList
<1> QED BY <1>1, <1>2, <1>3, <1>4, <1>6, <1>7, <1>8

\* get_mpf_block keeps the pool consistent and returns a block that nobody has
\* got; no other block is given out or taken back by it.
THEOREM GetBlockCorrect ==
    ASSUME NEW n \in Nat \ {0}, NEW m, PoolOk(m, n), m.fblkcnt > 0
    PROVE  /\ PoolOk(GetBlock(m), n)
           /\ NextBlock(m) \in Index(n)
           /\ ~Releasable(m, NextBlock(m)) /\ Releasable(GetBlock(m), NextBlock(m))
           /\ \A b \in Index(n) \ {NextBlock(m)} : Releasable(m, b) <=> Releasable(GetBlock(m), b)
<1> DEFINE r == GetBlock(m)
           b0 == NextBlock(m)
<1>0. m \in PoolType(n)
  BY DEF PoolOk
<1>1. PICK s \in BlockSeq(n) :
           /\ IsFreeList(m, s)
           /\ m.fblkcnt = Len(s) + n - m.unused
           /\ \A i \in DOMAIN s : s[i] < m.unused
           /\ \A b \in 0 .. m.unused - 1 :
                 m.next[b] = INDEX_ALLOC \/ \E i \in DOMAIN s : s[i] = b
  BY DEF PoolOk
<1>2. /\ s \in Seq(Index(n)) /\ DOMAIN s = 1 .. Len(s) /\ Len(s) \in 0 .. n
      /\ \A i \in 1 .. Len(s) : s[i] \in Index(n)
      /\ \A i, j \in 1 .. Len(s) : s[i] = s[j] => i = j
      /\ m.freelist # INDEX_NULL => Len(s) > 0 /\ s[1] = m.freelist
      /\ m.freelist = INDEX_NULL => Len(s) = 0
      /\ \A i \in 1 .. Len(s) : m.next[s[i]] # INDEX_ALLOC
  BY <1>0, <1>1, FreeListFacts
<1>3. CASE m.freelist # INDEX_NULL
  <2> DEFINE k == Len(s) - 1
             q == [i \in 1 .. k |-> s[i + 1]]
  <2>1. b0 = s[1] /\ b0 \in Index(n) /\ b0 < m.unused /\ m.next[b0] # INDEX_ALLOC
    BY <1>1, <1>2, <1>3 DEF NextBlock
  <2>2. /\ r.fblkcnt = m.fblkcnt - 1 /\ r.unused = m.unused /\ r.freelist = m.next[b0]
        /\ r.next = [m.next EXCEPT ![b0] = INDEX_ALLOC]
        /\ r = [fblkcnt |-> r.fblkcnt, unused |-> r.unused, freelist |-> r.freelist,
                next |-> r.next]
    BY <1>0, <1>3, <2>1 DEF GetBlock, NextBlock, PoolType
  <2>3. /\ k \in 0 .. n /\ k \in Nat /\ k + 1 = Len(s)
        /\ q \in [1 .. k -> Index(n)] /\ Len(q) = k /\ DOMAIN q = 1 .. k
        /\ \A i \in 1 .. k : q[i] = s[i + 1] /\ i + 1 \in 1 .. Len(s)
    BY <1>2, <1>3
  <2> HIDE DEF q, k
  <2>4. \A i, j \in 1 .. k : q[i] = q[j] => i = j
    BY <1>2, <2>3
  <2>5. q \in BlockSeq(n)
    BY <2>3, <2>4 DEF BlockSeq
  <2>6. \A i \in 1 .. k : q[i] # b0 /\ q[i] < m.unused
    BY <1>1, <1>2, <2>1, <2>3
  <2>7. r.freelist = IF q = << >> THEN INDEX_NULL ELSE q[1]
    <3>1. m.next[s[1]] = IF 1 = Len(s) THEN INDEX_NULL ELSE s[2]
      BY <1>1, <1>2, <1>3 DEF IsFreeList
    <3>2. q = << >> <=> k = 0
      BY <2>3
    <3>3. k # 0 => q[1] = s[2]
      <4>1. k # 0 => 1 \in 1 .. k /\ q[1] = s[1 + 1]
        BY <2>3
      <4> QED BY <4>1
    <3>4. 1 = Len(s) <=> k = 0
      BY <2>3
    <3> QED BY <2>1, <2>2, <3>1, <3>2, <3>3, <3>4
  <2>8. \A i \in 1 .. k : r.next[q[i]] = IF i = k THEN INDEX_NULL ELSE q[i + 1]
    <3> TAKE i \in 1 .. k
    <3>1. m.next[s[i + 1]] = IF i + 1 = Len(s) THEN INDEX_NULL ELSE s[i + 2]
      <4>1. m.next[s[i + 1]] = IF i + 1 = Len(s) THEN INDEX_NULL ELSE s[(i + 1) + 1]
        BY <1>1, <1>2, <2>3 DEF IsFreeList
      <4>2. (i + 1) + 1 = i + 2
        OBVIOUS
      <4> QED BY <4>1, <4>2
    <3>2. q[i] \in Index(n) /\ q[i] = s[i + 1] /\ r.next[q[i]] = m.next[q[i]]
      BY <1>0, <2>2, <2>3, <2>6 DEF PoolType
    <3>3. i # k => q[i + 1] = s[i + 2]
      <4>1. i # k => q[i + 1] = s[(i + 1) + 1]
        BY <2>3
      <4>2. (i + 1) + 1 = i + 2
        OBVIOUS
      <4> QED BY <4>1, <4>2
    <3>4. i + 1 = Len(s) <=> i = k
      BY <2>3
    <3> QED BY <3>1, <3>2, <3>3, <3>4
  <2>9. IsFreeList(r, q)
    BY <2>3, <2>7, <2>8 DEF IsFreeList
  <2>10. r \in PoolType(n)
    <3>1. r.fblkcnt \in 0 .. n /\ r.unused \in 0 .. n
      BY <1>0, <2>2 DEF PoolType
    <3>2. r.freelist \in Index(n) \cup {INDEX_NULL}
      <4>1. q # << >> => q[1] \in Index(n)
        BY <2>3
      <4> QED BY <2>7, <4>1
    <3>3. r.next \in [Index(n) -> Index(n) \cup {INDEX_NULL, INDEX_ALLOC}]
      BY <1>0, <2>2 DEF PoolType
    <3> QED BY <2>2, <3>1, <3>2, <3>3 DEF PoolType
  <2>11. \A b \in 0 .. r.unused - 1 :
            r.next[b] = INDEX_ALLOC \/ \E i \in DOMAIN q : q[i] = b
    <3> SUFFICES ASSUME NEW b \in 0 .. r.unused - 1, r.next[b] # INDEX_ALLOC
                 PROVE  \E i \in DOMAIN q : q[i] = b
      OBVIOUS
    <3>1. b \in Index(n) /\ b # b0 /\ m.next[b] # INDEX_ALLOC
      BY <1>0, <2>1, <2>2 DEF PoolType, Index
    <3>2. PICK j \in 1 .. Len(s) : s[j] = b
      BY <1>1, <1>2, <2>2, <3>1
    <3>3. j # 1 /\ j - 1 \in 1 .. k /\ q[j - 1] = s[j]
      BY <1>2, <2>1, <2>3, <3>1, <3>2
    <3> QED BY <2>3, <3>2, <3>3
  <2>12. PoolOk(r, n)
    <3>1. r.fblkcnt = Len(q) + n - r.unused
      BY <1>0, <1>1, <1>2, <2>2, <2>3 DEF PoolType
    <3> QED BY <2>2, <2>3, <2>5, <2>6, <2>9, <2>10, <2>11, <3>1 DEF PoolOk
  <2>13. ~Releasable(m, b0) /\ Releasable(r, b0)
    BY <1>0, <2>1, <2>2 DEF Releasable, PoolType
  <2>14. \A b \in Index(n) \ {b0} : Releasable(m, b) <=> Releasable(r, b)
    BY <1>0, <2>1, <2>2 DEF Releasable, PoolType
  <2> QED BY <2>1, <2>12, <2>13, <2>14
<1>4. CASE m.freelist = INDEX_NULL
  <2>1. Len(s) = 0 /\ s = << >> /\ m.unused < n /\ b0 = m.unused /\ b0 \in Index(n)
    BY <1>0, <1>1, <1>2, <1>4 DEF NextBlock, Index, PoolType
  <2>2. /\ r.fblkcnt = m.fblkcnt - 1 /\ r.unused = m.unused + 1 /\ r.freelist = INDEX_NULL
        /\ r.next = [m.next EXCEPT ![b0] = INDEX_ALLOC]
        /\ r = [fblkcnt |-> r.fblkcnt, unused |-> r.unused, freelist |-> r.freelist,
                next |-> r.next]
    BY <1>0, <1>4, <2>1 DEF GetBlock, NextBlock, PoolType
  <2>3. r \in PoolType(n)
    BY <1>0, <2>1, <2>2 DEF PoolType, Index
  <2>4. IsFreeList(r, s)
    BY <1>2, <2>1, <2>2 DEF IsFreeList
  <2>5. r.fblkcnt = Len(s) + n - r.unused
    BY <1>0, <1>1, <2>1, <2>2 DEF PoolType
  <2>6. \A b \in 0 .. r.unused - 1 : r.next[b] = INDEX_ALLOC
    <3> TAKE b \in 0 .. r.unused - 1
    <3>1. CASE b = b0
      BY <1>0, <2>1, <2>2, <3>1 DEF PoolType
    <3>2. CASE b # b0
      <4>1. b \in 0 .. m.unused - 1 /\ b \in Index(n)
        BY <1>0, <2>1, <2>2, <3>2 DEF PoolType, Index
      <4>2. m.next[b] = INDEX_ALLOC
        BY <1>1, <1>2, <2>1, <4>1
      <4> QED BY <1>0, <2>2, <3>2, <4>1, <4>2 DEF PoolType
    <3> QED BY <3>1, <3>2
  <2>7. PoolOk(r, n)
    BY <1>2, <2>1, <2>3, <2>4, <2>5, <2>6 DEF PoolOk
  <2>8. ~Releasable(m, b0) /\ Releasable(r, b0)
    BY <1>0, <2>1, <2>2 DEF Releasable, PoolType
  <2>9. \A b \in Index(n) \ {b0} : Releasable(m, b) <=> Releasable(r, b)
    BY <1>0, <2>1, <2>2 DEF Releasable, PoolType, Index
  <2> QED BY <2>1, <2>7, <2>8, <2>9
<1> QED BY <1>3, <1>4

\* rel_mpf of a block that has been given out keeps the pool consistent.
THEOREM RelBlockCorrect ==
    ASSUME NEW n \in Nat \ {0}, NEW m, PoolOk(m, n), NEW b0 \in Index(n), Releasable(m, b0)
    PROVE  /\ PoolOk(RelBlock(m, b0), n)
           /\ ~Releasable(RelBlock(m, b0), b0)
           /\ \A b \in Index(n) \ {b0} : Releasable(m, b) <=> Releasable(RelBlock(m, b0), b)
<1> DEFINE r == RelBlock(m, b0)
<1>0. m \in PoolType(n) /\ b0 < m.unused /\ m.next[b0] = INDEX_ALLOC
  BY DEF PoolOk, Releasable
<1>1. PICK s \in BlockSeq(n) :
           /\ IsFreeList(m, s)
           /\ m.fblkcnt = Len(s) + n - m.unused
           /\ \A i \in DOMAIN s : s[i] < m.unused
           /\ \A b \in 0 .. m.unused - 1 :
                 m.next[b] = INDEX_ALLOC \/ \E i \in DOMAIN s : s[i] = b
  BY DEF PoolOk
<1>2. /\ s \in Seq(Index(n)) /\ DOMAIN s = 1 .. Len(s) /\ Len(s) \in 0 .. n
      /\ \A i \in 1 .. Len(s) : s[i] \in Index(n)
      /\ \A i, j \in 1 .. Len(s) : s[i] = s[j] => i = j
      /\ m.freelist # INDEX_NULL => Len(s) > 0 /\ s[1] = m.freelist
      /\ m.freelist = INDEX_NULL => Len(s) = 0
      /\ \A i \in 1 .. Len(s) : m.next[s[i]] # INDEX_ALLOC
  BY <1>0, <1>1, FreeListFacts
<1> DEFINE k == Len(s) + 1
           q == [i \in 1 .. k |-> IF i = 1 THEN b0 ELSE s[i - 1]]
<1>3. k \in Nat /\ q \in [1 .. k -> Index(n)] /\ Len(q) = k /\ DOMAIN q = 1 .. k /\ q # << >>
  BY <1>2
<1>4. q[1] = b0 /\ \A i \in 2 .. k : q[i] = s[i - 1] /\ q[i] # b0 /\ i - 1 \in 1 .. Len(s)
  BY <1>0, <1>2, <1>3
<1>18. k = Len(s) + 1
  OBVIOUS
<1> HIDE DEF q, k
<1>5. \A i, j \in 1 .. k : q[i] = q[j] => i = j
  <2> SUFFICES ASSUME NEW i \in 1 .. k, NEW j \in 1 .. k, q[i] = q[j]
               PROVE  i = j
    OBVIOUS
  <2>1. i = 1 \/ i \in 2 .. k
    BY <1>3
  <2>2. j = 1 \/ j \in 2 .. k
    BY <1>3
  <2>3. CASE i \in 2 .. k /\ j \in 2 .. k
    <3>1. s[i - 1] = s[j - 1] /\ i - 1 \in 1 .. Len(s) /\ j - 1 \in 1 .. Len(s)
      BY <1>4, <2>3
    <3>2. i - 1 = j - 1
      BY <1>2, <3>1
    <3> QED BY <2>3, <3>2
  <2> QED BY <1>4, <2>1, <2>2, <2>3
<1>6. k <= n
  BY <1>3, <1>5, BlockSeqLength
<1>7. q \in BlockSeq(n)
  <2>1. k \in 0 .. n
    BY <1>3, <1>6
  <2> QED BY <1>3, <1>5, <2>1 DEF BlockSeq
<1>8. /\ r.fblkcnt = m.fblkcnt + 1 /\ r.unused = m.unused /\ r.freelist = b0
      /\ r.next = [m.next EXCEPT ![b0] = m.freelist]
      /\ r = [fblkcnt |-> r.fblkcnt, unused |-> r.unused, freelist |-> r.freelist,
              next |-> r.next]
  <2>1. m \in [fblkcnt : 0 .. n, unused : 0 .. n, freelist : Index(n) \cup {INDEX_NULL},
                next : [Index(n) -> Index(n) \cup {INDEX_NULL, INDEX_ALLOC}]]
    BY <1>0 DEF PoolType
  <2>2. r = [[m EXCEPT !.fblkcnt = m.fblkcnt + 1, !.freelist = b0]
                EXCEPT !.next = [m.next EXCEPT ![b0] = m.freelist]]
    BY <2>1 DEF RelBlock
  <2> QED BY <2>1, <2>2
<1>9. \A i \in 1 .. k : r.next[q[i]] = IF i = k THEN INDEX_NULL ELSE q[i + 1]
  <2> TAKE i \in 1 .. k
  <2>1. CASE i = 1
    <3>1. r.next[q[1]] = m.freelist
      BY <1>0, <1>4, <1>8 DEF PoolType
    <3>2. k # 1 => q[2] = s[1] /\ m.freelist = s[1]
      BY <1>2, <1>3, <1>4
    <3>3. k = 1 => m.freelist = INDEX_NULL
      BY <1>2, <1>18
    <3> QED BY <2>1, <3>1, <3>2, <3>3
  <2>2. CASE i # 1
    <3>1. q[i] = s[i - 1] /\ q[i] # b0 /\ i - 1 \in 1 .. Len(s) /\ q[i] \in Index(n)
      <4>1. i \in 2 .. k
        BY <1>3, <2>2
      <4> QED BY <1>2, <1>4, <4>1
    <3>2. r.next[q[i]] = m.next[s[i - 1]]
      BY <1>0, <1>8, <3>1 DEF PoolType
    <3>3. m.next[s[i - 1]] = IF i - 1 = Len(s) THEN INDEX_NULL ELSE s[i]
      BY <1>1, <1>2, <3>1 DEF IsFreeList
    <3>4. i # k => q[i + 1] = s[i]
      <4>1. i # k => i + 1 \in 2 .. k /\ (i + 1) - 1 = i
        BY <1>3, <2>2
      <4> QED BY <1>4, <4>1
    <3>5. i - 1 = Len(s) <=> i = k
      BY <1>2, <1>18
    <3> QED BY <3>2, <3>3, <3>4, <3>5
  <2> QED BY <2>1, <2>2
<1>10. IsFreeList(r, q)
  <2>1. r.freelist = q[1]
    BY <1>4, <1>8
  <2> QED BY <1>3, <1>9, <2>1 DEF IsFreeList
<1>11. r.fblkcnt = Len(q) + n - r.unused /\ r.fblkcnt \in Nat
  <2>1. m.fblkcnt \in Nat /\ m.unused \in Nat /\ Len(s) \in Nat
    BY <1>0, <1>2 DEF PoolType
  <2>2. m.fblkcnt = Len(s) + n - m.unused
    BY <1>1
  <2> QED BY <1>3, <1>8, <1>18, <2>1, <2>2
<1>12. \A i \in 1 .. k : q[i] < r.unused
  BY <1>0, <1>1, <1>2, <1>4, <1>8
<1>13. \A b \in 0 .. r.unused - 1 : r.next[b] = INDEX_ALLOC \/ \E i \in DOMAIN q : q[i] = b
  <2> SUFFICES ASSUME NEW b \in 0 .. r.unused - 1, r.next[b] # INDEX_ALLOC, b # b0
               PROVE  \E i \in DOMAIN q : q[i] = b
    BY <1>3, <1>4
  <2>1. b \in Index(n) /\ m.next[b] # INDEX_ALLOC
    BY <1>0, <1>8 DEF PoolType, Index
  <2>2. PICK j \in 1 .. Len(s) : s[j] = b
    BY <1>1, <1>2, <1>8, <2>1
  <2>3. j + 1 \in 1 .. k /\ q[j + 1] = b
    <3>1. j + 1 \in 2 .. k /\ (j + 1) - 1 = j
      BY <1>2, <1>3, <1>18, <2>2
    <3> QED BY <1>4, <2>2, <3>1
  <2> QED BY <1>3, <2>3
<1>14. r.fblkcnt <= n
  <2> DEFINE free == Len(q)
  <2> SUFFICES free <= r.unused
    BY <1>0, <1>8, <1>11, <1>3, <1>2 DEF PoolType
  <2>1. \A i \in 1 .. k : q[i] \in Index(m.unused)
    BY <1>0, <1>3, <1>8, <1>12 DEF Index, PoolType
  <2>2. q \in [1 .. k -> Index(m.unused)] /\ m.unused \in Nat
    BY <1>0, <1>3, <2>1 DEF PoolType
  <2>3. k <= m.unused
    BY <1>3, <1>5, <2>2, BlockSeqLength
  <2> QED BY <1>3, <1>8, <2>3
<1>15. r \in PoolType(n)
  BY <1>0, <1>8, <1>11, <1>14 DEF PoolType
<1>16. PoolOk(r, n)
  BY <1>3, <1>7, <1>10, <1>11, <1>12, <1>13, <1>15 DEF PoolOk
<1>17. \A b \in Index(n) \ {b0} : Releasable(m, b) <=> Releasable(r, b)
  BY <1>0, <1>8 DEF Releasable, PoolType
<1>19. ~Releasable(r, b0)
  BY <1>0, <1>8, IndexAssumption DEF Releasable, PoolType, Index
<1> QED BY <1>16, <1>17, <1>19

-----------------------------------------------------------------------------
\* The blocks that tasks have got are blocks of pools that exist.
HeldBlocks ==
    /\ held \in [TASK -> SUBSET (mpfexist \X Nat)]
    /\ \A t \in TASK : \A x \in held[t] : x[1] \in MPF /\ x[2] \in Index(BlkCnt[x[1]])

PoolFields == mpfcb \in [MPF -> UNION {PoolType(BlkCnt[p]) : p \in MPF}]

MpfInv == PoolFields /\ mpfexist \subseteq MPF /\ HeldBlocks /\ PoolsConsistent /\ OneOwner

\* The pools as initialize_mempfix leaves them satisfy the invariant.
LEMMA MpfInvInit == MpfInit => MpfInv
<1> SUFFICES ASSUME MpfInit PROVE MpfInv
  OBVIOUS
<1>1. \A p \in MPF : BlkCnt[p] \in Nat \ {0}
  BY MpfAssumption
<1>2. \A p \in MPF : NewPool(BlkCnt[p]) \in PoolType(BlkCnt[p])
  <2> TAKE p \in MPF
  <2>1. 0 \in Index(BlkCnt[p]) /\ 0 \in 0 .. BlkCnt[p] /\ BlkCnt[p] \in 0 .. BlkCnt[p]
    BY <1>1 DEF Index
  <2>2. [b \in Index(BlkCnt[p]) |-> 0]
            \in [Index(BlkCnt[p]) -> Index(BlkCnt[p]) \cup {INDEX_NULL, INDEX_ALLOC}]
    BY <2>1
  <2> QED BY <2>1, <2>2 DEF NewPool, PoolType
<1>3. PoolFields
  BY <1>2 DEF MpfInit, PoolFields
<1>4. PoolsConsistent
  <2> SUFFICES ASSUME NEW p \in MPF PROVE PoolOk(mpfcb[p], BlkCnt[p])
    BY DEF PoolsConsistent
  <2>1. PoolOk(NewPool(BlkCnt[p]), BlkCnt[p])
    BY <1>1, <1>2, RenewedOk
  <2> QED BY <2>1 DEF MpfInit
<1>5. HeldBlocks /\ OneOwner /\ mpfexist \subseteq MPF
  BY MpfAssumption DEF MpfInit, HeldBlocks, OneOwner
<1> QED BY <1>3, <1>4, <1>5 DEF MpfInv

\* The parts of the invariant that speak of one pool
LEMMA MpfFacts ==
    ASSUME MpfInv, NEW p \in MPF
    PROVE  /\ BlkCnt[p] \in Nat \ {0}
           /\ PoolOk(mpfcb[p], BlkCnt[p]) /\ mpfcb[p] \in PoolType(BlkCnt[p])
  BY MpfAssumption DEF MpfInv, PoolsConsistent, PoolOk

\* A step that puts m in the place of a pool, such that every block a task has
\* got afterwards is marked, keeps the invariant.
LEMMA PoolStep ==
    ASSUME MpfInv, NEW p \in MPF, NEW m, PoolOk(m, BlkCnt[p]),
           mpfcb' = [mpfcb EXCEPT ![p] = m],
           mpfexist' \subseteq MPF, HeldBlocks',
           \A t, u \in TASK : t # u => held'[t] \cap held'[u] = {},
           \A t \in TASK : \A x \in held'[t] :
               IF x[1] = p THEN Releasable(m, x[2]) ELSE Releasable(mpfcb[x[1]], x[2])
    PROVE  MpfInv'
<1>1. m \in PoolType(BlkCnt[p])
  BY DEF PoolOk
<1>2. /\ mpfcb' \in [MPF -> UNION {PoolType(BlkCnt[q]) : q \in MPF}]
      /\ \A q \in MPF : mpfcb'[q] = IF q = p THEN m ELSE mpfcb[q]
  BY <1>1 DEF MpfInv, PoolFields
<1>3. PoolsConsistent'
  BY <1>2 DEF MpfInv, PoolsConsistent
<1>4. ASSUME NEW t \in TASK, NEW x \in held'[t] PROVE Releasable(mpfcb'[x[1]], x[2])
  <2>1. x[1] \in MPF
    BY <1>4 DEF HeldBlocks
  <2> QED BY <1>2, <1>4, <2>1
<1>5. OneOwner'
  BY <1>4 DEF OneOwner
<1> QED BY <1>2, <1>3, <1>5 DEF MpfInv, PoolFields

\* get_mpf, pget_mpf and tget_mpf when there is a block
LEMMA TakeBlockKeeps ==
    ASSUME MpfInv, NEW p \in mpfexist, TakeBlock(p), UNCHANGED mpfexist
    PROVE  MpfInv'
<1> DEFINE m == GetBlock(mpfcb[p])
           b == NextBlock(mpfcb[p])
<1>0. p \in MPF
  BY DEF MpfInv
<1>1. /\ PoolOk(m, BlkCnt[p]) /\ b \in Index(BlkCnt[p])
      /\ ~Releasable(mpfcb[p], b) /\ Releasable(m, b)
      /\ \A c \in Index(BlkCnt[p]) \ {b} : Releasable(mpfcb[p], c) => Releasable(m, c)
  BY <1>0, MpfFacts, GetBlockCorrect DEF TakeBlock
<1>2. b \in Nat
  BY <1>0, <1>1, MpfFacts DEF Index
<1> HIDE DEF m, b
<1>3. /\ mpfcb' = [mpfcb EXCEPT ![p] = m]
      /\ held' = [held EXCEPT ![runtsk] = @ \cup {<<p, b>>}]
  BY DEF TakeBlock, m, b
<1>4. /\ held' \in [TASK -> SUBSET (mpfexist \X Nat)]
      /\ \A t \in TASK : held'[t] = IF t = runtsk THEN held[t] \cup {<<p, b>>} ELSE held[t]
  <2>1. held \in [TASK -> SUBSET (mpfexist \X Nat)] /\ <<p, b>> \in mpfexist \X Nat
    BY <1>2 DEF MpfInv, HeldBlocks
  <2> QED BY <1>3, <2>1
<1>5. HeldBlocks'
  BY <1>0, <1>1, <1>4 DEF MpfInv, HeldBlocks
<1>6. \A t \in TASK : <<p, b>> \notin held[t]
  BY <1>1 DEF MpfInv, OneOwner
<1>7. \A t, u \in TASK : t # u => held'[t] \cap held'[u] = {}
  BY <1>4, <1>6 DEF MpfInv, OneOwner
<1>8. ASSUME NEW t \in TASK, NEW x \in held'[t]
      PROVE  IF x[1] = p THEN Releasable(m, x[2]) ELSE Releasable(mpfcb[x[1]], x[2])
  <2>1. CASE x = <<p, b>>
    BY <1>1, <2>1
  <2>2. CASE x # <<p, b>>
    <3>1. x \in held[t] /\ x = <<x[1], x[2]>> /\ x[2] \in Index(BlkCnt[x[1]])
      BY <1>4, <1>8, <2>2 DEF MpfInv, HeldBlocks
    <3>2. Releasable(mpfcb[x[1]], x[2])
      BY <3>1 DEF MpfInv, OneOwner
    <3> QED BY <1>1, <2>2, <3>1, <3>2
  <2> QED BY <2>1, <2>2
<1>9. mpfexist' \subseteq MPF
  BY DEF MpfInv
<1> QED BY <1>0, <1>1, <1>3, <1>5, <1>7, <1>8, <1>9, PoolStep

\* rel_mpf, whether a task waits for the block or not
LEMMA RelMpfKeeps ==
    ASSUME MpfInv, NEW p \in MPF, NEW b \in Index(BlkCnt[p]), RelMpf(p, b)
    PROVE  MpfInv'
<1>0. p \in mpfexist /\ Releasable(mpfcb[p], b) /\ mpfexist' = mpfexist /\ b \in Nat
  BY MpfFacts DEF RelMpf, Index
<1>1. \A t \in TASK : HeldWithout(<<p, b>>)[t] = held[t] \ {<<p, b>>}
  BY DEF HeldWithout
<1>2. CASE wait_queue[p] # <<>>
  <2> DEFINE u == Head(wait_queue[p])
  <2>1. /\ held' = [HeldWithout(<<p, b>>) EXCEPT ![u] = @ \cup {<<p, b>>}]
        /\ mpfcb' = mpfcb
    BY <1>2 DEF RelMpf
  <2> HIDE DEF u
  <2>2. /\ held' \in [TASK -> SUBSET (mpfexist \X Nat)]
        /\ \A t \in TASK : held'[t] = IF t = u THEN (held[t] \ {<<p, b>>}) \cup {<<p, b>>}
                                               ELSE held[t] \ {<<p, b>>}
    <3>1. held \in [TASK -> SUBSET (mpfexist \X Nat)] /\ <<p, b>> \in mpfexist \X Nat
      BY <1>0 DEF MpfInv, HeldBlocks
    <3>2. HeldWithout(<<p, b>>) \in [TASK -> SUBSET (mpfexist \X Nat)]
      BY <3>1 DEF HeldWithout
    <3> QED BY <1>1, <2>1, <3>1, <3>2
  <2>3. HeldBlocks'
    BY <1>0, <2>2 DEF MpfInv, HeldBlocks
  <2>4. \A t, v \in TASK : t # v => held'[t] \cap held'[v] = {}
    BY <2>2 DEF MpfInv, OneOwner
  <2>5. \A t \in TASK : \A x \in held'[t] : Releasable(mpfcb[x[1]], x[2])
    BY <1>0, <2>2 DEF MpfInv, OneOwner
  <2> QED BY <1>0, <2>1, <2>3, <2>4, <2>5 DEF MpfInv, PoolFields, PoolsConsistent, OneOwner
<1>3. CASE wait_queue[p] = <<>>
  <2> DEFINE m == RelBlock(mpfcb[p], b)
  <2>1. mpfcb' = [mpfcb EXCEPT ![p] = m] /\ held' = HeldWithout(<<p, b>>)
    BY <1>3 DEF RelMpf
  <2>2. /\ PoolOk(m, BlkCnt[p])
        /\ \A c \in Index(BlkCnt[p]) \ {b} : Releasable(mpfcb[p], c) => Releasable(m, c)
    BY <1>0, MpfFacts, RelBlockCorrect
  <2> HIDE DEF m
  <2>3. /\ held' \in [TASK -> SUBSET (mpfexist \X Nat)]
        /\ \A t \in TASK : held'[t] = held[t] \ {<<p, b>>}
    BY <1>1, <2>1 DEF MpfInv, HeldBlocks, HeldWithout
  <2>4. HeldBlocks'
    BY <1>0, <2>3 DEF MpfInv, HeldBlocks
  <2>5. \A t, v \in TASK : t # v => held'[t] \cap held'[v] = {}
    BY <2>3 DEF MpfInv, OneOwner
  <2>6. ASSUME NEW t \in TASK, NEW x \in held'[t]
        PROVE  IF x[1] = p THEN Releasable(m, x[2]) ELSE Releasable(mpfcb[x[1]], x[2])
    <3>1. x \in held[t] /\ x # <<p, b>> /\ x = <<x[1], x[2]>> /\ x[2] \in Index(BlkCnt[x[1]])
      BY <2>3, <2>6 DEF MpfInv, HeldBlocks
    <3>2. Releasable(mpfcb[x[1]], x[2])
      BY <3>1 DEF MpfInv, OneOwner
    <3> QED BY <2>2, <3>1, <3>2
  <2> QED BY <1>0, <2>1, <2>2, <2>4, <2>5, <2>6, PoolStep DEF MpfInv
<1> QED BY <1>2, <1>3

\* Nobody has got a block of a pool that is deleted or starts anew.
LEMMA ClearedKeeps ==
    ASSUME MpfInv, NEW p \in MPF, held' = [t \in TASK |-> held[t] \ BlocksOf(p)],
           mpfexist \ {p} \subseteq mpfexist', mpfexist' \subseteq MPF
    PROVE  /\ HeldBlocks'
           /\ \A t, u \in TASK : t # u => held'[t] \cap held'[u] = {}
           /\ \A t \in TASK : \A x \in held'[t] :
                  x \in held[t] /\ x[1] # p /\ Releasable(mpfcb[x[1]], x[2])
<1>1. \A t \in TASK : held'[t] = held[t] \ BlocksOf(p)
  OBVIOUS
<1>2. ASSUME NEW t \in TASK, NEW x \in held'[t]
      PROVE  /\ x \in held[t] /\ x[1] \in MPF /\ x[1] # p /\ x \in mpfexist' \X Nat
             /\ x[2] \in Index(BlkCnt[x[1]]) /\ Releasable(mpfcb[x[1]], x[2])
  <2>1. x \in held[t] /\ x \notin BlocksOf(p)
    BY <1>1, <1>2
  <2>2. /\ x = <<x[1], x[2]>> /\ x[1] \in mpfexist /\ x[2] \in Nat /\ x[1] \in MPF
        /\ x[2] \in Index(BlkCnt[x[1]])
    BY <2>1 DEF MpfInv, HeldBlocks
  <2>3. x[1] # p
    BY <2>1, <2>2 DEF BlocksOf
  <2>4. Releasable(mpfcb[x[1]], x[2])
    BY <2>1 DEF MpfInv, OneOwner
  <2> QED BY <2>1, <2>2, <2>3, <2>4
<1>3. HeldBlocks'
  BY <1>1, <1>2 DEF HeldBlocks
<1>4. \A t, u \in TASK : t # u => held'[t] \cap held'[u] = {}
  BY <1>1 DEF MpfInv, OneOwner
<1> QED BY <1>2, <1>3, <1>4

\* Every step of the pools keeps the invariant.
LEMMA MpfInvStep == MpfInv /\ [MpfNext]_mpfAllVars => MpfInv'
<1> SUFFICES ASSUME MpfInv, [MpfNext]_mpfAllVars PROVE MpfInv'
  OBVIOUS
<1>1. CASE UNCHANGED <<mpfexist, mpfcb, held>>
  BY <1>1 DEF MpfInv, PoolFields, HeldBlocks, PoolsConsistent, OneOwner
<1>2. ASSUME NEW p \in MPF, MpfService(p) PROVE MpfInv'
  <2>1. ASSUME PgetMpf(p) PROVE MpfInv'
    BY <2>1, TakeBlockKeeps DEF PgetMpf
  <2>2. ASSUME NEW timed \in BOOLEAN, GetMpf(p, timed) PROVE MpfInv'
    BY <1>1, <2>2, TakeBlockKeeps DEF GetMpf
  <2>3. ASSUME NEW b \in Index(BlkCnt[p]), RelMpf(p, b) PROVE MpfInv'
    BY <2>3, RelMpfKeeps
  <2>4. PoolOk(Renewed(mpfcb[p], BlkCnt[p]), BlkCnt[p])
    BY MpfFacts, RenewedOk
  <2>5. ASSUME IniMpf(p) PROVE MpfInv'
    <3>1. /\ mpfcb' = [mpfcb EXCEPT ![p] = Renewed(mpfcb[p], BlkCnt[p])]
          /\ mpfexist' = mpfexist /\ held' = [t \in TASK |-> held[t] \ BlocksOf(p)]
      BY <2>5 DEF IniMpf, Cleared
    <3> QED BY <2>4, <3>1, ClearedKeeps, PoolStep DEF MpfInv
  <2>6. ASSUME DelMpf(p) PROVE MpfInv'
    <3>1. /\ mpfcb' = mpfcb /\ mpfexist' = mpfexist \ {p}
          /\ held' = [t \in TASK |-> held[t] \ BlocksOf(p)]
      BY <2>6 DEF DelMpf, Cleared
    <3>2. mpfcb' = [mpfcb EXCEPT ![p] = mpfcb[p]] /\ mpfexist' \subseteq MPF
      BY <3>1 DEF MpfInv, PoolFields
    <3>3. /\ HeldBlocks' /\ \A t, u \in TASK : t # u => held'[t] \cap held'[u] = {}
          /\ \A t \in TASK : \A x \in held'[t] : x[1] # p /\ Releasable(mpfcb[x[1]], x[2])
      BY <3>1, <3>2, ClearedKeeps
    <3>4. PoolOk(mpfcb[p], BlkCnt[p])
      BY MpfFacts
    <3> QED BY <3>2, <3>3, <3>4, PoolStep
  <2>7. ASSUME AcreMpf(p) PROVE MpfInv'
    <3>1. /\ mpfcb' = [mpfcb EXCEPT ![p] = Renewed(mpfcb[p], BlkCnt[p])]
          /\ mpfexist' = mpfexist \cup {p} /\ held' = held /\ p \notin mpfexist
      BY <2>7 DEF AcreMpf
    <3>2. HeldBlocks' /\ mpfexist' \subseteq MPF
      BY <3>1 DEF MpfInv, HeldBlocks
    <3>3. \A t \in TASK : \A x \in held'[t] : x[1] # p /\ Releasable(mpfcb[x[1]], x[2])
      BY <3>1 DEF MpfInv, HeldBlocks, OneOwner
    <3>4. \A t, u \in TASK : t # u => held'[t] \cap held'[u] = {}
      BY <3>1 DEF MpfInv, OneOwner
    <3> QED BY <2>4, <3>1, <3>2, <3>3, <3>4, PoolStep
  <2> QED BY <1>2, <2>1, <2>2, <2>3, <2>5, <2>6, <2>7 DEF MpfService
<1>3. CASE MpfOtherStep
  BY <1>1, <1>3 DEF MpfOtherStep
<1>4. CASE UNCHANGED mpfAllVars
  BY <1>1, <1>4 DEF mpfAllVars, mpfVars
<1> QED BY <1>2, <1>3, <1>4 DEF MpfNext

\* In every pool the free list, the marks and fblkcnt agree at all times.
THEOREM PoolsAlwaysConsistent == MpfSpec => []PoolsConsistent
<1>1. MpfInv => PoolsConsistent
  BY DEF MpfInv
<1> QED BY MpfInvInit, MpfInvStep, <1>1, PTL DEF MpfSpec

\* No block is ever in the hands of two tasks, or in those of one and free.
THEOREM BlocksHaveOneOwner == MpfSpec => []OneOwner
<1>1. MpfInv => OneOwner
  BY DEF MpfInv
<1> QED BY MpfInvInit, MpfInvStep, <1>1, PTL DEF MpfSpec


-----------------------------------------------------------------------------
(***************************************************************************)
(* The pools as counted resources                                          *)
(***************************************************************************)

IsHeld(p, b) == \E t \in TASK : <<p, b>> \in held[t]

\* A block that is marked as given out is in the hands of a task.
NoneLost ==
    \A p \in mpfexist : \A b \in Index(BlkCnt[p]) : Releasable(mpfcb[p], b) => IsHeld(p, b)

\* Nobody waits for a block that is there, or for a pool that is not.
NoneWaitsAtBlocks ==
    \A p \in MPF : wait_queue[p] # <<>> => p \in mpfexist /\ mpfcb[p].fblkcnt = 0

MpfQInv == MpfInv /\ IInv /\ WaitInv /\ NoneLost /\ NoneWaitsAtBlocks

Level == [p \in MPF |-> Cardinality(FreeBlocks(p))]

\* The free blocks of a pool are those no task holds.
LEMMA FreeBlocksAre ==
    /\ \A p \in MPF : FreeBlocks(p) = {<<p, b>> : b \in {c \in Index(BlkCnt[p]) : ~IsHeld(p, c)}}
    /\ \A p \in MPF : FreeBlocks(p)' = {<<p, b>> : b \in {c \in Index(BlkCnt[p]) : ~IsHeld(p, c)'}}
<1>1. ASSUME NEW p \in MPF
      PROVE  FreeBlocks(p) = {<<p, b>> : b \in {c \in Index(BlkCnt[p]) : ~IsHeld(p, c)}}
  <2>1. ASSUME NEW x
        PROVE  x \in BlocksOf(p) <=> \E b \in Index(BlkCnt[p]) : x = <<p, b>>
    BY DEF BlocksOf
  <2>2. ASSUME NEW b
        PROVE  IsHeld(p, b) <=> <<p, b>> \in UNION {held[t] : t \in TASK}
    BY DEF IsHeld
  <2> QED
    BY <2>1, <2>2 DEF FreeBlocks
<1>2. ASSUME NEW p \in MPF
      PROVE  FreeBlocks(p)' = {<<p, b>> : b \in {c \in Index(BlkCnt[p]) : ~IsHeld(p, c)'}}
  <2>1. ASSUME NEW x
        PROVE  x \in BlocksOf(p) <=> \E b \in Index(BlkCnt[p]) : x = <<p, b>>
    BY DEF BlocksOf
  <2>2. ASSUME NEW b
        PROVE  IsHeld(p, b)' <=> <<p, b>> \in UNION {held'[t] : t \in TASK}
    BY DEF IsHeld
  <2>3. FreeBlocks(p)' = BlocksOf(p) \ UNION {held'[t] : t \in TASK}
    BY DEF FreeBlocks, BlocksOf
  <2> QED
    BY <2>1, <2>2, <2>3
<1> QED
  BY <1>1, <1>2

\* The number of free blocks lies between zero and blkcnt.
LEMMA FreeBlocksCount ==
    ASSUME NEW p \in MPF
    PROVE  /\ IsFiniteSet(FreeBlocks(p)) /\ Cardinality(FreeBlocks(p)) \in 0 .. BlkCnt[p]
           /\ IsFiniteSet(FreeBlocks(p)') /\ Cardinality(FreeBlocks(p)') \in 0 .. BlkCnt[p]
<1> DEFINE n == BlkCnt[p]
           I == Index(n)
<1>1. n \in Nat /\ IsFiniteSet(I) /\ Cardinality(I) = n
  <2>1. n \in Nat /\ I = 0 .. n - 1
    BY MpfAssumption DEF Index
  <2>2. IsFiniteSet(0 .. n - 1) /\ Cardinality(0 .. n - 1) = n
    BY <2>1, FS_Interval
  <2> QED
    BY <2>1, <2>2
<1> HIDE DEF I, n
<1>2. IsFiniteSet({p} \X I) /\ Cardinality({p} \X I) = n
  <2>1. IsFiniteSet({p}) /\ Cardinality({p}) = 1
    BY FS_Singleton
  <2>2. IsFiniteSet({p} \X I) /\ Cardinality({p} \X I) = Cardinality({p}) * Cardinality(I)
    BY <2>1, <1>1, FS_Product
  <2> QED
    BY <2>1, <2>2, <1>1
<1>3. ASSUME NEW S \in SUBSET ({p} \X I)
      PROVE  IsFiniteSet(S) /\ Cardinality(S) \in 0 .. n
  <2>1. IsFiniteSet(S) /\ Cardinality(S) <= n
    BY <1>2, FS_Subset
  <2>2. Cardinality(S) \in Nat
    BY <2>1, FS_CardinalityType
  <2> QED
    BY <2>1, <2>2, <1>1
<1>4. FreeBlocks(p) \in SUBSET ({p} \X I) /\ FreeBlocks(p)' \in SUBSET ({p} \X I)
  BY DEF FreeBlocks, BlocksOf, I, n
<1> QED
  BY <1>3, <1>4 DEF n

\* A step that gives and takes blocks of one pool changes the level of no other.
LEMMA LevelOfOne ==
    ASSUME NEW p \in MPF,
           \A q \in MPF \ {p} : \A b \in Index(BlkCnt[q]) : IsHeld(q, b)' <=> IsHeld(q, b)
    PROVE  /\ Level' = [Level EXCEPT ![p] = Cardinality(FreeBlocks(p)')]
           /\ (\A b \in Index(BlkCnt[p]) : IsHeld(p, b)' <=> IsHeld(p, b)) => Level' = Level
<1>1. \A q \in MPF \ {p} : FreeBlocks(q)' = FreeBlocks(q)
  BY FreeBlocksAre
<1>2. (\A b \in Index(BlkCnt[p]) : IsHeld(p, b)' <=> IsHeld(p, b)) => FreeBlocks(p)' = FreeBlocks(p)
  BY FreeBlocksAre
<1>3. Level' = [q \in MPF |-> Cardinality(FreeBlocks(q)')]
  BY DEF Level
<1> QED
  BY <1>1, <1>2, <1>3 DEF Level

\* A task gets a free block.
LEMMA LevelFalls ==
    ASSUME NEW p \in MPF, NEW b \in Index(BlkCnt[p]), ~IsHeld(p, b),
           \A q \in MPF : \A c \in Index(BlkCnt[q]) :
               IsHeld(q, c)' <=> IsHeld(q, c) \/ (q = p /\ c = b)
    PROVE  Level[p] > 0 /\ Level' = [Level EXCEPT ![p] = @ - 1]
<1> DEFINE S == FreeBlocks(p)
           x == <<p, b>>
<1>1. FreeBlocks(p)' = S \ {x} /\ x \in S
  BY FreeBlocksAre
<1>2. IsFiniteSet(S) /\ Cardinality(S) \in Nat /\ Cardinality(S \ {x}) \in Nat
  BY <1>1, FreeBlocksCount
<1> HIDE DEF S
<1>3. Cardinality(S \ {x}) = Cardinality(S) - 1
  BY <1>1, <1>2, FS_RemoveElement
<1>4. Level' = [Level EXCEPT ![p] = Cardinality(FreeBlocks(p)')]
  BY LevelOfOne
<1>5. Level[p] = Cardinality(S)
  BY DEF Level, S
<1>6. Cardinality(FreeBlocks(p)') = Level[p] - 1 /\ Level[p] > 0
  BY <1>1, <1>2, <1>3, <1>5
<1> HIDE DEF Level
<1> QED
  BY <1>4, <1>6

\* A block that a task held is free.
LEMMA LevelRises ==
    ASSUME NEW p \in MPF, NEW b \in Index(BlkCnt[p]), IsHeld(p, b),
           \A q \in MPF : \A c \in Index(BlkCnt[q]) :
               IsHeld(q, c)' <=> IsHeld(q, c) /\ ~(q = p /\ c = b)
    PROVE  Level[p] < BlkCnt[p] /\ Level' = [Level EXCEPT ![p] = @ + 1]
<1> DEFINE S == FreeBlocks(p)
           x == <<p, b>>
<1>1. FreeBlocks(p)' = S \cup {x} /\ x \notin S
  BY FreeBlocksAre
<1>2. IsFiniteSet(S) /\ Cardinality(S) \in Nat /\ Cardinality(S \cup {x}) \in 0 .. BlkCnt[p]
  BY <1>1, FreeBlocksCount
<1>3. BlkCnt[p] \in Nat
  BY MpfAssumption
<1> HIDE DEF S
<1>4. Cardinality(S \cup {x}) = Cardinality(S) + 1
  BY <1>1, <1>2, FS_AddElement
<1>5. Level' = [Level EXCEPT ![p] = Cardinality(FreeBlocks(p)')]
  BY LevelOfOne
<1>6. Level[p] = Cardinality(S)
  BY DEF Level, S
<1>7. Cardinality(FreeBlocks(p)') = Level[p] + 1 /\ Level[p] < BlkCnt[p]
  BY <1>1, <1>2, <1>3, <1>4, <1>6
<1> HIDE DEF Level
<1> QED
  BY <1>5, <1>7

\* fblkcnt is zero only when every block is marked as given out.
LEMMA NoBlockLeft ==
    ASSUME NEW n \in Nat \ {0}, NEW m, PoolOk(m, n), m.fblkcnt = 0
    PROVE  \A b \in Index(n) : Releasable(m, b)
<1>0. m \in PoolType(n)
  BY DEF PoolOk
<1>1. PICK s \in BlockSeq(n) :
           /\ IsFreeList(m, s)
           /\ m.fblkcnt = Len(s) + n - m.unused
           /\ \A i \in DOMAIN s : s[i] < m.unused
           /\ \A b \in 0 .. m.unused - 1 :
                 m.next[b] = INDEX_ALLOC \/ \E i \in DOMAIN s : s[i] = b
  BY DEF PoolOk
<1>2. DOMAIN s = 1 .. Len(s) /\ Len(s) \in 0 .. n
  BY <1>0, <1>1, FreeListFacts
<1>3. Len(s) = 0 /\ m.unused = n
  BY <1>0, <1>1, <1>2 DEF PoolType
<1> QED
  BY <1>1, <1>2, <1>3 DEF Index, Releasable

\* While a task waits no block is free.
LEMMA NoneFree ==
    ASSUME MpfInv, NoneLost, NEW p \in mpfexist, mpfcb[p].fblkcnt = 0
    PROVE  Level[p] = 0
<1>1. p \in MPF
  BY DEF MpfInv
<1>2. \A b \in Index(BlkCnt[p]) : Releasable(mpfcb[p], b)
  BY <1>1, MpfFacts, NoBlockLeft
<1>3. FreeBlocks(p) = {}
  BY <1>1, <1>2, FreeBlocksAre DEF NoneLost
<1>4. Cardinality({}) = 0
  BY FS_EmptySet
<1> QED
  BY <1>1, <1>3, <1>4 DEF Level


\* What every step below is shown to be; MpfInvStep gives the rest.
MpfStepOK ==
    /\ IInv' /\ WaitInv' /\ NoneLost' /\ NoneWaitsAtBlocks'
    /\ MpfResource!ResourceNext

\* What NoneLost and NoneWaitsAtBlocks say of the pools that a step leaves alone
LEMMA OtherPoolsKeep ==
    ASSUME MpfQInv, MpfInv', NEW p \in MPF,
           \A q \in MPF \ {p} : /\ q \in mpfexist' <=> q \in mpfexist
                                /\ mpfcb'[q] = mpfcb[q] /\ wait_queue'[q] = wait_queue[q]
                                /\ \A b \in Index(BlkCnt[q]) : IsHeld(q, b) => IsHeld(q, b)',
           p \in mpfexist' =>
               \A b \in Index(BlkCnt[p]) : Releasable(mpfcb'[p], b) => IsHeld(p, b)',
           wait_queue'[p] # <<>> => p \in mpfexist' /\ mpfcb'[p].fblkcnt = 0
    PROVE  NoneLost' /\ NoneWaitsAtBlocks'
<1>1. NoneWaitsAtBlocks'
  BY DEF MpfQInv, NoneWaitsAtBlocks
<1>2. NoneLost'
  <2>1. ASSUME NEW q \in mpfexist', NEW b \in Index(BlkCnt[q]), Releasable(mpfcb'[q], b)
        PROVE  IsHeld(q, b)'
    <3>1. q \in MPF
      BY DEF MpfInv
    <3>2. CASE q # p
      BY <2>1, <3>1, <3>2 DEF MpfQInv, NoneLost
    <3>3. CASE q = p
      BY <2>1, <3>3
    <3> QED
      BY <3>2, <3>3
  <2> QED
    BY <2>1 DEF NoneLost
<1> QED
  BY <1>1, <1>2

\* A block is given out to the running task.
LEMMA TakeBlockOK ==
    ASSUME MpfQInv, MpfInv', NEW p \in mpfexist, nest = 0, TakeBlock(p), UNCHANGED mpfexist
    PROVE  MpfStepOK
<1> DEFINE m == GetBlock(mpfcb[p])
           b == NextBlock(mpfcb[p])
<1>0. /\ MpfInv /\ IInv /\ WaitInv /\ p \in MPF /\ mpfcb[p].fblkcnt > 0
      /\ served' = <<p, runtsk>> /\ UNCHANGED <<vars, wait_queue>>
  BY DEF MpfQInv, MpfInv, TakeBlock
<1>1. /\ b \in Index(BlkCnt[p]) /\ ~Releasable(mpfcb[p], b)
      /\ \A c \in Index(BlkCnt[p]) \ {b} : Releasable(mpfcb[p], c) <=> Releasable(m, c)
  BY <1>0, MpfFacts, GetBlockCorrect
<1> HIDE DEF m, b
<1>2. /\ mpfcb' = [mpfcb EXCEPT ![p] = m]
      /\ held' = [held EXCEPT ![runtsk] = @ \cup {<<p, b>>}]
  BY DEF TakeBlock, m, b
<1>3. IInv' /\ WaitInv' /\ runtsk \in TASK
  BY <1>0, NothingMoves, RunningWaitsNowhere
<1>4. /\ \A t \in TASK : held'[t] = IF t = runtsk THEN held[t] \cup {<<p, b>>} ELSE held[t]
      /\ \A q \in MPF : mpfcb'[q] = IF q = p THEN m ELSE mpfcb[q]
  BY <1>0, <1>2 DEF MpfInv, HeldBlocks, PoolFields
<1>5. \A q, c : IsHeld(q, c)' <=> IsHeld(q, c) \/ (q = p /\ c = b)
  <2> TAKE q, c
  <2>1. <<q, c>> = <<p, b>> <=> q = p /\ c = b
    OBVIOUS
  <2>2. \A t \in TASK : <<q, c>> \in held'[t]
                          <=> <<q, c>> \in held[t] \/ (t = runtsk /\ q = p /\ c = b)
    BY <2>1, <1>4
  <2> QED
    BY <2>2, <1>3 DEF IsHeld
<1>6. ~IsHeld(p, b)
  BY <1>0, <1>1 DEF IsHeld, MpfInv, OneOwner
<1>7. wait_queue[p] = <<>>
  BY <1>0 DEF MpfQInv, NoneWaitsAtBlocks
<1>8. NoneLost' /\ NoneWaitsAtBlocks'
  <2>1. \A c \in Index(BlkCnt[p]) : Releasable(mpfcb'[p], c) => IsHeld(p, c)'
    BY <1>0, <1>1, <1>4, <1>5 DEF MpfQInv, NoneLost
  <2> QED
    BY <2>1, <1>0, <1>4, <1>5, <1>7, OtherPoolsKeep
<1>9. Level[p] > 0 /\ Level' = [Level EXCEPT ![p] = @ - 1]
  BY <1>0, <1>1, <1>5, <1>6, LevelFalls
<1>10. MpfResource!Take(p, runtsk)
  BY <1>0, <1>9 DEF MpfResource!Take, Level
<1> QED
  BY <1>0, <1>3, <1>8, <1>10 DEF MpfStepOK, MpfResource!ResourceNext, MpfResource!ResourceStep

\* get_mpf and tget_mpf
LEMMA GetMpfOK ==
    ASSUME MpfQInv, MpfInv', NEW p \in MPF, NEW timed \in BOOLEAN, GetMpf(p, timed)
    PROVE  MpfStepOK
<1>0. /\ DispatchState /\ nest = 0 /\ p \in mpfexist /\ p \in WQUEUE /\ UNCHANGED mpfexist
      /\ MpfInv /\ IInv /\ WaitInv /\ NoneLost /\ wait_queue \in [MPF -> Seq(TASK)]
  BY DEF GetMpf, DispatchState, TskCtxUnl, MPF, MpfQInv, WaitInv, QueuesHold
<1>1. CASE TakeBlock(p)
  BY <1>0, <1>1, TakeBlockOK
<1>2. CASE /\ mpfcb[p].fblkcnt = 0 /\ WobjMakeWait(p, timed)
           /\ served' = <<>> /\ UNCHANGED <<restVars, mpfcb, held>>
  <2>0. UNCHANGED restVars
    BY <1>2
  <2>1. /\ IInv' /\ WaitInv' /\ runtsk \in TASK
        /\ \E i \in 1 .. Len(wait_queue[p]) + 1 :
              QueueBecomes(p, InsertAt(wait_queue[p], i, runtsk))
    BY <1>0, <1>2, <2>0, RunningEnters
  <2>2. \A q, c : IsHeld(q, c)' <=> IsHeld(q, c)
    BY <1>2 DEF IsHeld
  <2>3. \A q \in MPF \ {p} : wait_queue'[q] = wait_queue[q]
    BY <2>1, <1>0 DEF QueueBecomes
  <2>4. NoneLost' /\ NoneWaitsAtBlocks'
    <3>1. \A c \in Index(BlkCnt[p]) : Releasable(mpfcb'[p], c) => IsHeld(p, c)'
      BY <1>0, <1>2, <2>2 DEF NoneLost
    <3> QED
      BY <1>0, <1>2, <2>2, <2>3, <3>1, OtherPoolsKeep
  <2>5. Level' = Level /\ Level[p] = 0
    BY <2>2, <1>0, <1>2, LevelOfOne, NoneFree
  <2>6. PICK i \in 1 .. Len(wait_queue[p]) + 1 :
            QueueBecomes(p, InsertAt(wait_queue[p], i, runtsk))
    BY <2>1
  <2>7. MpfResource!Await(p, i, runtsk)
    BY <1>2, <2>5, <2>6
       DEF MpfResource!Await, Level, QueueBecomes, InsertAt, MpfResource!InsertAt
  <2> QED
    BY <2>1, <2>4, <2>7, <1>0 DEF MpfStepOK, MpfResource!ResourceNext, MpfResource!ResourceStep
<1> QED
  BY <1>1, <1>2 DEF GetMpf

\* rel_mpf
LEMMA RelMpfOK ==
    ASSUME MpfQInv, MpfInv', NEW p \in MPF, NEW b \in Index(BlkCnt[p]), RelMpf(p, b)
    PROVE  MpfStepOK
<1>0. /\ p \in mpfexist /\ Releasable(mpfcb[p], b) /\ UNCHANGED <<restVars, mpfexist>>
      /\ MpfInv /\ IInv /\ WaitInv /\ NoneLost /\ wait_queue \in [MPF -> Seq(TASK)]
      /\ p \in WQUEUE
  BY DEF RelMpf, MpfQInv, WaitInv, QueuesHold, MPF
<1>1. IsHeld(p, b)
  BY <1>0 DEF NoneLost
<1>2. \A t \in TASK : HeldWithout(<<p, b>>)[t] = held[t] \ {<<p, b>>}
  BY DEF HeldWithout
<1>3. CASE wait_queue[p] # <<>>
  <2> DEFINE u == Head(wait_queue[p])
  <2>1. /\ held' = [HeldWithout(<<p, b>>) EXCEPT ![u] = @ \cup {<<p, b>>}]
        /\ mpfcb' = mpfcb /\ served' = <<p, u>> /\ Commit(WaitRelease(KState, u))
    BY <1>3 DEF RelMpf
  <2>2. u \in TASK
    BY <1>0, <1>3
  <2>3. IInv' /\ WaitInv' /\ QueueBecomes(p, Tail(wait_queue[p]))
    <3>1. UNCHANGED restVars
      BY <1>0
    <3> QED
      BY <3>1, <2>1, <1>0, <1>3, FirstIsServed
  <2> HIDE DEF u
  <2>4. \A t \in TASK : held'[t] = IF t = u THEN (held[t] \ {<<p, b>>}) \cup {<<p, b>>}
                                            ELSE held[t] \ {<<p, b>>}
    <3>1. HeldWithout(<<p, b>>) = [t \in TASK |-> held[t] \ {<<p, b>>}]
      BY DEF HeldWithout
    <3> QED
      BY <3>1, <2>1
  <2>5. \A q, c : IsHeld(q, c)' <=> IsHeld(q, c)
    <3>1. ASSUME NEW q, NEW c, <<q, c>> # <<p, b>>
          PROVE  IsHeld(q, c)' <=> IsHeld(q, c)
      BY <3>1, <2>4 DEF IsHeld
    <3>2. IsHeld(p, b)'
      BY <2>2, <2>4 DEF IsHeld
    <3> QED
      BY <3>1, <3>2, <1>1
  <2>6. NoneLost' /\ NoneWaitsAtBlocks'
    <3>1. \A q \in MPF \ {p} : wait_queue'[q] = wait_queue[q]
      BY <2>3, <1>0 DEF QueueBecomes
    <3>2. \A c \in Index(BlkCnt[p]) : Releasable(mpfcb'[p], c) => IsHeld(p, c)'
      BY <1>0, <2>1, <2>5 DEF NoneLost
    <3>3. mpfcb'[p].fblkcnt = 0
      BY <2>1, <1>3 DEF MpfQInv, NoneWaitsAtBlocks
    <3> QED
      BY <1>0, <2>1, <2>5, <3>1, <3>2, <3>3, OtherPoolsKeep
  <2>7. Level' = Level
    BY <2>5, LevelOfOne
  <2>8. MpfResource!Give(p)
    BY <1>3, <2>1, <2>3, <2>7 DEF MpfResource!Give, Level, QueueBecomes, u
  <2> QED
    BY <1>0, <2>3, <2>6, <2>8 DEF MpfStepOK, MpfResource!ResourceNext, MpfResource!ResourceStep
<1>4. CASE wait_queue[p] = <<>>
  <2> DEFINE m == RelBlock(mpfcb[p], b)
  <2>1. /\ mpfcb' = [mpfcb EXCEPT ![p] = m] /\ held' = HeldWithout(<<p, b>>)
        /\ served' = <<>> /\ UNCHANGED <<vars, wait_queue>>
    BY <1>4 DEF RelMpf
  <2>2. /\ ~Releasable(m, b)
        /\ \A c \in Index(BlkCnt[p]) \ {b} : Releasable(mpfcb[p], c) <=> Releasable(m, c)
    BY <1>0, MpfFacts, RelBlockCorrect
  <2> HIDE DEF m
  <2>3. IInv' /\ WaitInv'
    BY <2>1, <1>0, NothingMoves
  <2>4. /\ \A t \in TASK : held'[t] = held[t] \ {<<p, b>>}
        /\ \A q \in MPF : mpfcb'[q] = IF q = p THEN m ELSE mpfcb[q]
    BY <1>0, <1>2, <2>1 DEF MpfInv, PoolFields
  <2>5. \A q, c : IsHeld(q, c)' <=> IsHeld(q, c) /\ ~(q = p /\ c = b)
    BY <2>4 DEF IsHeld
  <2>6. NoneLost' /\ NoneWaitsAtBlocks'
    <3>1. \A c \in Index(BlkCnt[p]) : Releasable(mpfcb'[p], c) => IsHeld(p, c)'
      BY <1>0, <2>2, <2>4, <2>5 DEF NoneLost
    <3> QED
      BY <1>0, <1>4, <2>1, <2>4, <2>5, <3>1, OtherPoolsKeep
  <2>7. Level[p] < BlkCnt[p] /\ Level' = [Level EXCEPT ![p] = @ + 1]
    BY <1>1, <2>5, LevelRises
  <2>8. MpfResource!Give(p)
    BY <1>4, <2>1, <2>7 DEF MpfResource!Give, Level
  <2> QED
    BY <1>0, <2>3, <2>6, <2>8 DEF MpfStepOK, MpfResource!ResourceNext, MpfResource!ResourceStep
<1> QED
  BY <1>3, <1>4


\* Nobody holds a block of a pool that is deleted or starts anew.
LEMMA ClearedOK ==
    ASSUME MpfQInv, NEW p \in MPF, Cleared(p)
    PROVE  /\ IInv' /\ WaitInv' /\ QueueBecomes(p, <<>>)
           /\ \A b \in Index(BlkCnt[p]) : ~IsHeld(p, b)'
           /\ \A q \in MPF \ {p} : \A b \in Index(BlkCnt[q]) : IsHeld(q, b)' <=> IsHeld(q, b)
           /\ MpfResource!Reset(p)
<1>0. /\ IInv /\ WaitInv /\ p \in WQUEUE /\ UNCHANGED restVars
      /\ Commit(InitWaitQueue(KState, p)) /\ served' = <<>>
      /\ held' = [t \in TASK |-> held[t] \ BlocksOf(p)]
  BY DEF MpfQInv, MPF, Cleared
<1>1. IInv' /\ WaitInv' /\ QueueBecomes(p, <<>>)
  BY <1>0, QueueIsEmptied
<1>2. \A t \in TASK : held'[t] = held[t] \ BlocksOf(p)
  BY <1>0
<1>3. \A b \in Index(BlkCnt[p]) : ~IsHeld(p, b)'
  BY <1>2 DEF IsHeld, BlocksOf
<1>4. ASSUME NEW q \in MPF \ {p}, NEW b
      PROVE  IsHeld(q, b)' <=> IsHeld(q, b)
  <2>1. <<q, b>> \notin BlocksOf(p)
    BY DEF BlocksOf
  <2> QED
    BY <2>1, <1>2 DEF IsHeld
<1>5. Level' = [Level EXCEPT ![p] = Cardinality(FreeBlocks(p)')]
  BY <1>4, LevelOfOne
<1>6. Cardinality(FreeBlocks(p)') \in 0 .. BlkCnt[p]
  BY FreeBlocksCount
<1>7. MpfResource!Reset(p)
  BY <1>0, <1>1, <1>5, <1>6 DEF MpfResource!Reset, QueueBecomes, Level
<1> QED
  BY <1>1, <1>3, <1>4, <1>7

\* A pool that starts anew has marked no block as given out.
LEMMA RenewedMarksNone ==
    ASSUME MpfInv, NEW p \in MPF, NEW b \in Index(BlkCnt[p])
    PROVE  ~Releasable(Renewed(mpfcb[p], BlkCnt[p]), b)
<1>1. mpfcb[p] \in PoolType(BlkCnt[p]) /\ BlkCnt[p] \in Nat
  BY MpfFacts
<1>2. Renewed(mpfcb[p], BlkCnt[p]).unused = 0
  BY <1>1 DEF Renewed, PoolType
<1> QED
  BY <1>1, <1>2 DEF Releasable, Index

\* ini_mpf
LEMMA IniMpfOK ==
    ASSUME MpfQInv, MpfInv', NEW p \in MPF, IniMpf(p)
    PROVE  MpfStepOK
<1>0. /\ p \in mpfexist /\ UNCHANGED mpfexist /\ Cleared(p) /\ MpfInv
      /\ mpfcb' = [mpfcb EXCEPT ![p] = Renewed(mpfcb[p], BlkCnt[p])]
      /\ wait_queue \in [MPF -> Seq(TASK)]
  BY DEF IniMpf, MpfQInv, WaitInv, QueuesHold, MPF
<1>1. /\ IInv' /\ WaitInv' /\ QueueBecomes(p, <<>>)
      /\ \A q \in MPF \ {p} : \A b \in Index(BlkCnt[q]) : IsHeld(q, b)' <=> IsHeld(q, b)
      /\ MpfResource!Reset(p)
  BY <1>0, ClearedOK
<1>2. \A q \in MPF : mpfcb'[q] = IF q = p THEN Renewed(mpfcb[p], BlkCnt[p]) ELSE mpfcb[q]
  BY <1>0 DEF MpfInv, PoolFields
<1>3. \A q \in MPF : wait_queue'[q] = IF q = p THEN <<>> ELSE wait_queue[q]
  BY <1>0, <1>1 DEF QueueBecomes
<1>4. \A b \in Index(BlkCnt[p]) : ~Releasable(mpfcb'[p], b)
  BY <1>0, <1>2, RenewedMarksNone
<1>5. NoneLost' /\ NoneWaitsAtBlocks'
  BY <1>0, <1>1, <1>2, <1>3, <1>4, OtherPoolsKeep
<1> QED
  BY <1>0, <1>1, <1>5 DEF MpfStepOK, MpfResource!ResourceNext, MpfResource!ResourceStep

\* del_mpf
LEMMA DelMpfOK ==
    ASSUME MpfQInv, MpfInv', NEW p \in MPF, DelMpf(p)
    PROVE  MpfStepOK
<1>0. /\ mpfexist' = mpfexist \ {p} /\ UNCHANGED mpfcb /\ Cleared(p)
      /\ wait_queue \in [MPF -> Seq(TASK)]
  BY DEF DelMpf, MpfQInv, WaitInv, QueuesHold, MPF
<1>1. /\ IInv' /\ WaitInv' /\ QueueBecomes(p, <<>>)
      /\ \A q \in MPF \ {p} : \A b \in Index(BlkCnt[q]) : IsHeld(q, b)' <=> IsHeld(q, b)
      /\ MpfResource!Reset(p)
  BY <1>0, ClearedOK
<1>2. \A q \in MPF : wait_queue'[q] = IF q = p THEN <<>> ELSE wait_queue[q]
  BY <1>0, <1>1 DEF QueueBecomes
<1>3. NoneLost' /\ NoneWaitsAtBlocks'
  BY <1>0, <1>1, <1>2, OtherPoolsKeep
<1> QED
  BY <1>0, <1>1, <1>3 DEF MpfStepOK, MpfResource!ResourceNext, MpfResource!Delete

\* acre_mpf
LEMMA AcreMpfOK ==
    ASSUME MpfQInv, MpfInv', NEW p \in MPF, AcreMpf(p)
    PROVE  MpfStepOK
<1>0. /\ p \notin mpfexist /\ mpfexist' = mpfexist \cup {p} /\ served' = <<>>
      /\ UNCHANGED <<vars, wait_queue>> /\ UNCHANGED held
      /\ mpfcb' = [mpfcb EXCEPT ![p] = Renewed(mpfcb[p], BlkCnt[p])]
      /\ MpfInv /\ IInv /\ WaitInv /\ wait_queue \in [MPF -> Seq(TASK)]
  BY DEF AcreMpf, MpfQInv, WaitInv, QueuesHold, MPF
<1>1. IInv' /\ WaitInv'
  BY <1>0, NothingMoves
<1>2. wait_queue[p] = <<>>
  BY <1>0 DEF MpfQInv, NoneWaitsAtBlocks
<1>3. \A q, b : IsHeld(q, b)' <=> IsHeld(q, b)
  BY <1>0 DEF IsHeld
<1>4. \A q \in MPF : mpfcb'[q] = IF q = p THEN Renewed(mpfcb[p], BlkCnt[p]) ELSE mpfcb[q]
  BY <1>0 DEF MpfInv, PoolFields
<1>5. \A b \in Index(BlkCnt[p]) : ~Releasable(mpfcb'[p], b)
  BY <1>0, <1>4, RenewedMarksNone
<1>6. NoneLost' /\ NoneWaitsAtBlocks'
  BY <1>0, <1>2, <1>3, <1>4, <1>5, OtherPoolsKeep
<1>7. Level' = Level /\ Level[p] \in 0 .. BlkCnt[p] /\ Level' = [Level EXCEPT ![p] = Level[p]]
  <2>1. Level' = Level
    BY <1>3, LevelOfOne
  <2>2. Level[p] \in 0 .. BlkCnt[p]
    BY FreeBlocksCount DEF Level
  <2>3. Level = [q \in MPF |-> Level[q]]
    BY DEF Level
  <2> HIDE DEF Level
  <2>4. Level = [Level EXCEPT ![p] = Level[p]]
    BY <2>3
  <2> QED
    BY <2>1, <2>2, <2>4
<1>8. MpfResource!Reset(p)
  <2>1. wait_queue' = [wait_queue EXCEPT ![p] = <<>>]
    BY <1>0, <1>2
  <2> QED
    BY <2>1, <1>0, <1>7 DEF MpfResource!Reset, Level
<1> QED
  BY <1>0, <1>1, <1>6, <1>8 DEF MpfStepOK, MpfResource!ResourceNext, MpfResource!Create

\* The other steps: a task that waits is released, ended or given another
\* priority, or the scheduler takes a step; no block moves.
LEMMA MpfOtherOK ==
    ASSUME MpfQInv, MpfInv', MpfOtherStep
    PROVE  MpfStepOK
<1>0. /\ IInv /\ WaitInv /\ QueueOtherStep /\ served' = <<>> /\ UNCHANGED <<mpfexist, mpfcb, held>>
      /\ wait_queue \in [MPF -> Seq(TASK)]
  BY DEF MpfQInv, MpfOtherStep, QueueOtherStep, WaitInv, QueuesHold, MPF
<1>1. /\ IInv' /\ WaitInv'
      /\ \A w \in WQUEUE, u \in TASK : Contains(wait_queue'[w], u) => Contains(wait_queue[w], u)
      /\ \/ wait_queue' = wait_queue
         \/ \E w \in WQUEUE : QueueLoses(w) \/ (w \in TaTpri /\ QueueReorders(w))
  BY <1>0, OtherStepQueues
<1>2. ASSUME NEW p \in MPF, wait_queue'[p] # <<>>
      PROVE  wait_queue[p] # <<>>
  <2>1. wait_queue'[p] \in Seq(TASK)
    BY <1>1 DEF WaitInv, QueuesHold, MPF
  <2>2. 1 \in 1 .. Len(wait_queue'[p]) /\ wait_queue'[p][1] \in TASK
    BY <2>1, <1>2
  <2>3. Contains(wait_queue[p], wait_queue'[p][1])
    BY <2>2, <1>1 DEF Contains, MPF
  <2> QED
    BY <2>3 DEF Contains
<1>3. Level' = Level
  BY <1>0 DEF Level, FreeBlocks, BlocksOf
<1>4. NoneLost' /\ NoneWaitsAtBlocks'
  BY <1>0, <1>2 DEF MpfQInv, NoneLost, NoneWaitsAtBlocks, IsHeld
<1>5. CASE wait_queue' = wait_queue
  BY <1>0, <1>1, <1>3, <1>4, <1>5
     DEF MpfStepOK, MpfResource!ResourceNext, MpfResource!Pause, Level
<1>6. ASSUME NEW p \in MPF, QueueLoses(p) \/ QueueReorders(p)
      PROVE  MpfStepOK
  <2>1. p \in mpfexist
    <3>1. wait_queue[p] # <<>>
      BY <1>6 DEF QueueLoses, QueueReorders
    <3> QED
      BY <3>1 DEF MpfQInv, NoneWaitsAtBlocks
  <2>2. MpfResource!ResourceStep(p)
    <3>1. CASE QueueLoses(p)
      <4>1. PICK i \in 1 .. Len(wait_queue[p]) : QueueBecomes(p, RemoveAt(wait_queue[p], i))
        BY <3>1 DEF QueueLoses
      <4>2. MpfResource!GiveUp(p, i)
        BY <4>1, <1>0, <1>3
           DEF QueueBecomes, RemoveAt, MpfResource!RemoveAt, MpfResource!GiveUp, Level
      <4> QED
        BY <4>2 DEF MpfResource!ResourceStep
    <3>2. CASE QueueReorders(p)
      <4>1. PICK i \in 1 .. Len(wait_queue[p]), j \in 1 .. Len(wait_queue[p]) :
                QueueBecomes(p, InsertAt(RemoveAt(wait_queue[p], i), j, wait_queue[p][i]))
        BY <3>2 DEF QueueReorders
      <4>2. MpfResource!Reorder(p, i, j)
        BY <4>1, <1>0, <1>3
           DEF QueueBecomes, InsertAt, RemoveAt, MpfResource!InsertAt, MpfResource!RemoveAt,
               MpfResource!Reorder, Level
      <4> QED
        BY <4>2 DEF MpfResource!ResourceStep
    <3> QED
      BY <3>1, <3>2, <1>6
  <2> QED
    BY <2>1, <2>2, <1>0, <1>1, <1>4 DEF MpfStepOK, MpfResource!ResourceNext
<1> QED
  BY <1>1, <1>5, <1>6 DEF MPF

\* Every step of the pools keeps the invariant and is one of the resource.
LEMMA MpfQStep ==
    ASSUME MpfQInv, MpfNext
    PROVE  MpfQInv' /\ MpfResource!ResourceNext
<1>1. MpfInv'
  BY MpfInvStep DEF MpfQInv
<1>2. MpfStepOK
  <2>1. ASSUME NEW p \in MPF, PgetMpf(p)
        PROVE  MpfStepOK
    <3>1. p \in mpfexist /\ nest = 0 /\ TakeBlock(p) /\ UNCHANGED mpfexist
      BY <2>1 DEF PgetMpf, TskCtxUnl
    <3> QED
      BY <3>1, <1>1, TakeBlockOK
  <2> QED
    BY <2>1, <1>1, MpfOtherOK, GetMpfOK, RelMpfOK, IniMpfOK, DelMpfOK, AcreMpfOK
       DEF MpfNext, MpfService
<1> QED
  BY <1>1, <1>2 DEF MpfQInv, MpfStepOK

\* At first every block is free and nobody waits.
LEMMA MpfQInit ==
    ASSUME MpfInit
    PROVE  MpfQInv /\ MpfResource!ResourceInit
<1>1. IInv /\ WaitInv /\ MpfInv
  BY InitWaitInv, MpfInvInit DEF MpfInit, MPF
<1>2. /\ mpfexist \subseteq MPF /\ mpfcb = [p \in MPF |-> NewPool(BlkCnt[p])]
      /\ \A p \in MPF : BlkCnt[p] \in Nat /\ wait_queue[p] = <<>>
      /\ wait_queue = [p \in MPF |-> <<>>] /\ served = <<>>
  BY MpfAssumption DEF MpfInit
<1>3. \A p \in MPF, b \in Nat : ~Releasable(mpfcb[p], b)
  BY <1>2 DEF NewPool, Releasable
<1>4. NoneLost /\ NoneWaitsAtBlocks
  BY <1>2, <1>3 DEF NoneLost, NoneWaitsAtBlocks, Index
<1>5. Level \in [MPF -> Nat] /\ \A p \in MPF : Level[p] <= BlkCnt[p]
  BY <1>2, FreeBlocksCount DEF Level
<1>6. MpfResource!ResourceInit
  BY <1>2, <1>5 DEF MpfResource!ResourceInit, Level
<1> QED
  BY <1>1, <1>4, <1>6 DEF MpfQInv

\* A step that changes nothing keeps the invariant of the pools.
LEMMA MpfStutter ==
    ASSUME MpfQInv, UNCHANGED mpfAllVars
    PROVE  MpfQInv'
<1>1. UNCHANGED <<vars, wait_queue>> /\ UNCHANGED <<mpfexist, mpfcb, held>>
  BY DEF mpfAllVars, mpfVars
<1>2. MpfInv' /\ IInv' /\ WaitInv'
  BY <1>1, MpfInvStep, NothingMoves DEF MpfQInv
<1> QED
  BY <1>1, <1>2 DEF MpfQInv, NoneLost, NoneWaitsAtBlocks, IsHeld

\* The invariant of the pools and their wait queues, for any tasks, pools and sizes.
THEOREM MpfQInvariance == MpfSpec => []MpfQInv
<1>1. MpfQInv /\ UNCHANGED mpfAllVars => MpfQInv'
  BY MpfStutter
<1>2. MpfInit => MpfQInv
  BY MpfQInit
<1>3. MpfQInv /\ [MpfNext]_mpfAllVars => MpfQInv'
  BY <1>1, MpfQStep
<1> QED
  BY <1>2, <1>3, PTL DEF MpfSpec

\* The variables keep their types, and the promises of the scheduler hold while
\* tasks wait for blocks.
LEMMA MpfCorrect == MpfQInv => MpfTypeOK /\ WaitsConsistent
<1>1. SUFFICES ASSUME MpfQInv
               PROVE  MpfTypeOK /\ WaitsConsistent
  OBVIOUS
<1>2. TypeOK /\ WaitsConsistent /\ wait_queue \in [MPF -> Seq(TASK)]
  BY <1>1, WaitsAreConsistent DEF MpfQInv, WaitInv, QueuesHold, MPF
<1>3. ASSUME NEW t \in TASK, NEW x \in held[t]
      PROVE  x \in UNION {BlocksOf(p) : p \in MPF}
  <2>1. x[1] \in MPF /\ x[2] \in Index(BlkCnt[x[1]]) /\ x = <<x[1], x[2]>>
    BY <1>1 DEF MpfQInv, MpfInv, HeldBlocks
  <2>2. x \in BlocksOf(x[1])
    BY <2>1 DEF BlocksOf
  <2> QED
    BY <2>1, <2>2
<1> QED
  BY <1>1, <1>2, <1>3 DEF MpfTypeOK, MpfQInv, MpfInv, HeldBlocks

\* For any tasks, pools and sizes the pools implement CountedResource, the units
\* being the blocks no task holds: a block given back goes to the first waiting
\* task or is free, never both; none is lost, and no task waits while one is free.
THEOREM MpfIsCountedResource == MpfSpec => PoolsAreCounted
<1>1. MpfInit => MpfResource!ResourceInit
  BY MpfQInit
<1>2. UNCHANGED mpfAllVars => UNCHANGED MpfResource!rvars
  <2>1. SUFFICES ASSUME UNCHANGED mpfAllVars
                 PROVE  UNCHANGED MpfResource!rvars
    OBVIOUS
  <2>2. UNCHANGED <<mpfexist, held, served, wait_queue>>
    BY <2>1 DEF mpfAllVars, mpfVars
  <2>3. Level' = Level
    BY <2>2 DEF Level, FreeBlocks, BlocksOf
  <2> QED
    BY <2>2, <2>3 DEF MpfResource!rvars, Level
<1>3. MpfQInv /\ [MpfNext]_mpfAllVars => [MpfResource!ResourceNext]_(MpfResource!rvars)
  BY <1>2, MpfQStep
<1> QED
  BY <1>1, <1>3, MpfQInvariance, PTL DEF MpfSpec, PoolsAreCounted, MpfResource!ResourceSpec


-----------------------------------------------------------------------------
(***************************************************************************)
(* Semaphores                                                              *)
(***************************************************************************)

\* Nobody waits for a unit that is there, or for a semaphore that is not.
NoneWaitsAtUnits ==
    \A s \in SEM : wait_queue[s] # <<>> => s \in semexist /\ semcnt[s] = 0

SemInv ==
    /\ IInv /\ WaitInv
    /\ semexist \in SUBSET SEM
    /\ semcnt \in [SEM -> Nat] /\ \A s \in SEM : semcnt[s] <= MaxSem[s]
    /\ NoneWaitsAtUnits

\* What every step below is shown to be
SemStepOK == SemInv' /\ SemResource!ResourceNext

\* The invariant does not depend on what waits where, but that nobody waits at units.
LEMMA SemInvNext ==
    ASSUME SemInv, IInv', WaitInv', semexist' \in SUBSET SEM, semcnt' \in [SEM -> Nat],
           \A s \in SEM : semcnt'[s] <= MaxSem[s],
           \A s \in SEM : wait_queue'[s] # <<>> => s \in semexist' /\ semcnt'[s] = 0
    PROVE  SemInv'
  BY DEF SemInv, NoneWaitsAtUnits

\* sig_sem, isig_sem
LEMMA SigSemOK ==
    ASSUME SemAssumption, SemInv, NEW s \in SEM, SigSem(s)
    PROVE  SemStepOK
<1>0. /\ IInv /\ WaitInv /\ semcnt \in [SEM -> Nat] /\ s \in semexist /\ UNCHANGED semexist
      /\ wait_queue \in [SEM -> Seq(TASK)] /\ UNCHANGED restVars /\ s \in WQUEUE
      /\ MaxSem[s] \in Nat
  BY DEF SemInv, SigSem, WaitInv, QueuesHold, SEM, SemAssumption
<1>1. CASE wait_queue[s] # <<>>
  <2>1. /\ Commit(WaitRelease(KState, Head(wait_queue[s])))
        /\ semserved' = <<s, Head(wait_queue[s])>> /\ UNCHANGED semcnt
    BY <1>1 DEF SigSem
  <2>2. IInv' /\ WaitInv' /\ QueueBecomes(s, Tail(wait_queue[s]))
    BY <2>1, <1>0, <1>1, FirstIsServed
  <2>3. SemInv'
    BY <2>1, <2>2, <1>0, <1>1, SemInvNext DEF SemInv, NoneWaitsAtUnits, QueueBecomes, SEM
  <2>4. SemResource!Give(s)
    BY <2>1, <2>2, <1>1 DEF SemResource!Give, QueueBecomes
  <2> QED
    BY <2>3, <2>4, <1>0 DEF SemStepOK, SemResource!ResourceNext, SemResource!ResourceStep
<1>2. CASE wait_queue[s] = <<>>
  <2>1. /\ semcnt[s] < MaxSem[s] /\ semcnt' = [semcnt EXCEPT ![s] = @ + 1]
        /\ semserved' = <<>> /\ UNCHANGED <<vars, wait_queue>>
    BY <1>2 DEF SigSem
  <2>2. IInv' /\ WaitInv'
    BY <2>1, <1>0, NothingMoves
  <2>3. SemInv'
    BY <2>1, <2>2, <1>0, <1>2, SemInvNext DEF SemInv, NoneWaitsAtUnits
  <2>4. SemResource!Give(s)
    BY <2>1, <1>2 DEF SemResource!Give
  <2> QED
    BY <2>3, <2>4, <1>0 DEF SemStepOK, SemResource!ResourceNext, SemResource!ResourceStep
<1> QED
  BY <1>1, <1>2

\* A unit is taken from the semaphore by the running task.
LEMMA TakeUnitOK ==
    ASSUME SemAssumption, SemInv, NEW s \in semexist, nest = 0, TakeUnit(s), UNCHANGED semexist
    PROVE  SemStepOK
<1>0. /\ IInv /\ WaitInv /\ semcnt \in [SEM -> Nat] /\ s \in SEM
      /\ semcnt[s] >= 1 /\ semcnt' = [semcnt EXCEPT ![s] = @ - 1]
      /\ semserved' = <<s, runtsk>> /\ UNCHANGED <<vars, wait_queue>>
      /\ \A z \in SEM : MaxSem[z] \in Nat
  BY DEF SemInv, TakeUnit, SemAssumption
<1>1. IInv' /\ WaitInv'
  BY <1>0, NothingMoves
<1>2. runtsk \in TASK
  BY <1>0, RunningWaitsNowhere
<1>3. SemInv'
  BY <1>0, <1>1, SemInvNext DEF SemInv, NoneWaitsAtUnits
<1>4. SemResource!Take(s, runtsk)
  BY <1>0 DEF SemResource!Take
<1> QED
  BY <1>2, <1>3, <1>4 DEF SemStepOK, SemResource!ResourceNext, SemResource!ResourceStep

\* wai_sem, twai_sem
LEMMA WaiSemOK ==
    ASSUME SemAssumption, SemInv, NEW s \in SEM, NEW timed \in BOOLEAN, WaiSem(s, timed)
    PROVE  SemStepOK
<1>0. /\ DispatchState /\ nest = 0 /\ s \in semexist /\ s \in WQUEUE /\ UNCHANGED semexist
      /\ IInv /\ WaitInv /\ wait_queue \in [SEM -> Seq(TASK)]
  BY DEF WaiSem, DispatchState, TskCtxUnl, SEM, SemInv, WaitInv, QueuesHold
<1>1. CASE TakeUnit(s)
  BY <1>0, <1>1, TakeUnitOK
<1>2. CASE /\ semcnt[s] = 0 /\ WobjMakeWait(s, timed)
           /\ semserved' = <<>> /\ UNCHANGED <<restVars, semcnt>>
  <2>0. UNCHANGED restVars
    BY <1>2
  <2>1. /\ IInv' /\ WaitInv' /\ runtsk \in TASK
        /\ \E i \in 1 .. Len(wait_queue[s]) + 1 :
              QueueBecomes(s, InsertAt(wait_queue[s], i, runtsk))
    BY <1>0, <1>2, <2>0, RunningEnters
  <2>2. SemInv'
    BY <2>1, <1>0, <1>2, SemInvNext DEF SemInv, NoneWaitsAtUnits, QueueBecomes, SEM
  <2>3. \E i \in 1 .. Len(wait_queue[s]) + 1 : SemResource!Await(s, i, runtsk)
    <3>1. PICK i \in 1 .. Len(wait_queue[s]) + 1 : QueueBecomes(s, InsertAt(wait_queue[s], i, runtsk))
      BY <2>1
    <3>2. SemResource!Await(s, i, runtsk)
      BY <3>1, <1>2 DEF SemResource!Await, QueueBecomes, InsertAt, SemResource!InsertAt
    <3> QED
      BY <3>2
  <2> QED
    BY <2>1, <2>2, <2>3, <1>0 DEF SemStepOK, SemResource!ResourceNext, SemResource!ResourceStep
<1> QED
  BY <1>1, <1>2 DEF WaiSem

\* ini_sem
LEMMA IniSemOK ==
    ASSUME SemAssumption, SemInv, NEW s \in SEM, IniSem(s)
    PROVE  SemStepOK
<1>0. /\ s \in semexist /\ s \in WQUEUE /\ UNCHANGED <<restVars, semexist>>
      /\ semcnt' = [semcnt EXCEPT ![s] = IsemCnt[s]] /\ semserved' = <<>>
      /\ Commit(InitWaitQueue(KState, s))
      /\ IInv /\ WaitInv /\ wait_queue \in [SEM -> Seq(TASK)] /\ semcnt \in [SEM -> Nat]
      /\ IsemCnt[s] \in 0 .. MaxSem[s]
  BY DEF IniSem, SEM, SemInv, WaitInv, QueuesHold, SemAssumption
<1>1. IInv' /\ WaitInv' /\ QueueBecomes(s, <<>>)
  <2>1. UNCHANGED restVars
    BY <1>0
  <2> QED
    BY <2>1, <1>0, QueueIsEmptied
<1>2. SemInv'
  BY <1>0, <1>1, SemInvNext DEF SemInv, NoneWaitsAtUnits, QueueBecomes, SEM
<1>3. SemResource!Reset(s)
  BY <1>0, <1>1 DEF SemResource!Reset, QueueBecomes
<1> QED
  BY <1>0, <1>2, <1>3 DEF SemStepOK, SemResource!ResourceNext, SemResource!ResourceStep

\* del_sem
LEMMA DelSemOK ==
    ASSUME SemAssumption, SemInv, NEW s \in SEM, DelSem(s)
    PROVE  SemStepOK
<1>0. /\ s \in semexist /\ s \in WQUEUE /\ UNCHANGED <<restVars, semcnt>>
      /\ semexist' = semexist \ {s} /\ semserved' = <<>> /\ semexist \in SUBSET SEM
      /\ Commit(InitWaitQueue(KState, s))
      /\ IInv /\ WaitInv /\ wait_queue \in [SEM -> Seq(TASK)] /\ semcnt \in [SEM -> Nat]
      /\ semcnt[s] \in 0 .. MaxSem[s]
  BY DEF DelSem, SEM, SemInv, WaitInv, QueuesHold, SemAssumption
<1>1. IInv' /\ WaitInv' /\ QueueBecomes(s, <<>>)
  <2>1. UNCHANGED restVars
    BY <1>0
  <2> QED
    BY <2>1, <1>0, QueueIsEmptied
<1>2. SemInv'
  BY <1>0, <1>1, SemInvNext DEF SemInv, NoneWaitsAtUnits, QueueBecomes, SEM
<1>3. SemResource!Reset(s)
  <2>1. semcnt' = [semcnt EXCEPT ![s] = semcnt[s]]
    BY <1>0
  <2> QED
    BY <2>1, <1>0, <1>1 DEF SemResource!Reset, QueueBecomes
<1> QED
  BY <1>0, <1>2, <1>3 DEF SemStepOK, SemResource!ResourceNext, SemResource!Delete

\* acre_sem
LEMMA AcreSemOK ==
    ASSUME SemAssumption, SemInv, NEW s \in SEM, AcreSem(s)
    PROVE  SemStepOK
<1>0. /\ s \notin semexist /\ UNCHANGED <<vars, wait_queue>> /\ semexist \in SUBSET SEM
      /\ semexist' = semexist \cup {s} /\ semserved' = <<>>
      /\ semcnt' = [semcnt EXCEPT ![s] = IsemCnt[s]]
      /\ IInv /\ WaitInv /\ wait_queue \in [SEM -> Seq(TASK)] /\ semcnt \in [SEM -> Nat]
      /\ IsemCnt[s] \in 0 .. MaxSem[s]
  BY DEF AcreSem, SEM, SemInv, WaitInv, QueuesHold, SemAssumption
<1>1. IInv' /\ WaitInv'
  BY <1>0, NothingMoves
<1>2. wait_queue[s] = <<>>
  BY <1>0 DEF SemInv, NoneWaitsAtUnits
<1>3. SemInv'
  BY <1>0, <1>1, <1>2, SemInvNext DEF SemInv, NoneWaitsAtUnits
<1>4. SemResource!Reset(s)
  <2>1. wait_queue' = [wait_queue EXCEPT ![s] = <<>>]
    BY <1>0, <1>2
  <2> QED
    BY <2>1, <1>0 DEF SemResource!Reset
<1> QED
  BY <1>0, <1>3, <1>4 DEF SemStepOK, SemResource!ResourceNext, SemResource!Create

\* The other steps: a task that waits is released, ended or given another
\* priority, or the scheduler takes a step.
LEMMA SemOtherOK ==
    ASSUME SemAssumption, SemInv, SemOtherStep
    PROVE  SemStepOK
<1>0. /\ IInv /\ WaitInv /\ QueueOtherStep /\ semserved' = <<>> /\ UNCHANGED <<semexist, semcnt>>
      /\ wait_queue \in [SEM -> Seq(TASK)]
  BY DEF SemInv, SemOtherStep, QueueOtherStep, WaitInv, QueuesHold, SEM
<1>1. /\ IInv' /\ WaitInv'
      /\ \A w \in WQUEUE, u \in TASK : Contains(wait_queue'[w], u) => Contains(wait_queue[w], u)
      /\ \/ wait_queue' = wait_queue
         \/ \E w \in WQUEUE : QueueLoses(w) \/ (w \in TaTpri /\ QueueReorders(w))
  BY <1>0, OtherStepQueues
<1>2. ASSUME NEW s \in SEM, wait_queue'[s] # <<>>
      PROVE  wait_queue[s] # <<>>
  <2>1. wait_queue'[s] \in Seq(TASK)
    BY <1>1 DEF WaitInv, QueuesHold, SEM
  <2>2. 1 \in 1 .. Len(wait_queue'[s]) /\ wait_queue'[s][1] \in TASK
    BY <2>1, <1>2
  <2>3. Contains(wait_queue[s], wait_queue'[s][1])
    BY <2>2, <1>1 DEF Contains, SEM
  <2> QED
    BY <2>3 DEF Contains
<1>3. SemInv'
  BY <1>0, <1>1, <1>2, SemInvNext DEF SemInv, NoneWaitsAtUnits
<1>4. CASE wait_queue' = wait_queue
  BY <1>0, <1>3, <1>4 DEF SemStepOK, SemResource!ResourceNext, SemResource!Pause
<1>5. ASSUME NEW s \in SEM, QueueLoses(s) \/ QueueReorders(s)
      PROVE  SemStepOK
  <2>1. s \in semexist
    <3>1. wait_queue[s] # <<>>
      BY <1>5 DEF QueueLoses, QueueReorders
    <3> QED
      BY <3>1 DEF SemInv, NoneWaitsAtUnits
  <2>2. SemResource!ResourceStep(s)
    <3>1. CASE QueueLoses(s)
      <4>1. PICK i \in 1 .. Len(wait_queue[s]) : QueueBecomes(s, RemoveAt(wait_queue[s], i))
        BY <3>1 DEF QueueLoses
      <4>2. SemResource!GiveUp(s, i)
        BY <4>1, <1>0 DEF QueueBecomes, RemoveAt, SemResource!RemoveAt, SemResource!GiveUp
      <4> QED
        BY <4>2 DEF SemResource!ResourceStep
    <3>2. CASE QueueReorders(s)
      <4>1. PICK i \in 1 .. Len(wait_queue[s]), j \in 1 .. Len(wait_queue[s]) :
                QueueBecomes(s, InsertAt(RemoveAt(wait_queue[s], i), j, wait_queue[s][i]))
        BY <3>2 DEF QueueReorders
      <4>2. SemResource!Reorder(s, i, j)
        BY <4>1, <1>0 DEF QueueBecomes, InsertAt, RemoveAt, SemResource!InsertAt, SemResource!RemoveAt, SemResource!Reorder
      <4> QED
        BY <4>2 DEF SemResource!ResourceStep
    <3> QED
      BY <3>1, <3>2, <1>5
  <2> QED
    BY <2>1, <2>2, <1>0, <1>3 DEF SemStepOK, SemResource!ResourceNext
<1> QED
  BY <1>1, <1>4, <1>5 DEF SEM

\* Every step of the semaphores keeps the invariant and is one of the resource.
LEMMA SemStep ==
    ASSUME SemAssumption, SemInv, SemNext
    PROVE  SemStepOK
<1>1. ASSUME NEW s \in SEM, PolSem(s)
      PROVE  SemStepOK
  <2>1. s \in semexist /\ nest = 0 /\ TakeUnit(s) /\ UNCHANGED semexist
    BY <1>1 DEF PolSem, TskCtxUnl
  <2> QED
    BY <2>1, TakeUnitOK
<1> QED
  BY <1>1, SemOtherOK, SigSemOK, WaiSemOK, IniSemOK, DelSemOK, AcreSemOK DEF SemNext, SemService

\* At first the semaphores hold their initial counts and nobody waits.
LEMMA SemInitOK ==
    ASSUME SemAssumption, SemInit
    PROVE  SemInv /\ SemResource!ResourceInit
<1>1. IInv /\ WaitInv
  BY InitWaitInv DEF SemInit, SEM
<1>2. /\ semexist \in SUBSET SEM /\ semcnt \in [SEM -> Nat]
      /\ \A s \in SEM : semcnt[s] <= MaxSem[s] /\ wait_queue[s] = <<>>
  BY DEF SemInit, SemAssumption
<1> QED
  BY <1>1, <1>2 DEF SemInv, NoneWaitsAtUnits, SemInit, SemResource!ResourceInit

\* A step that changes nothing keeps the invariant of the semaphores.
LEMMA SemStutter ==
    ASSUME SemInv, UNCHANGED semAllVars
    PROVE  SemInv'
<1>1. UNCHANGED <<vars, wait_queue>> /\ UNCHANGED <<semexist, semcnt>>
  BY DEF semAllVars, semVars
<1> QED
  BY <1>1, NothingMoves DEF SemInv, NoneWaitsAtUnits

\* The invariant of the semaphores, for any tasks, semaphores and counts.
THEOREM SemInvariance == ASSUME SemAssumption PROVE SemSpec => []SemInv
<1>1. SemInit => SemInv
  BY SemInitOK
<1>2. SemInv /\ [SemNext]_semAllVars => SemInv'
  BY SemStutter, SemStep DEF SemStepOK
<1> QED
  BY <1>1, <1>2, PTL DEF SemSpec

\* semcnt never passes maxsem, the wait queues hold tasks, and the promises of
\* the scheduler hold while tasks wait for units.
LEMMA SemCorrect == SemInv => SemTypeOK /\ WaitsConsistent
BY WaitsAreConsistent DEF SemInv, SemTypeOK, WaitInv, QueuesHold, SEM

\* For any tasks, semaphores and counts the semaphores implement CountedResource:
\* a unit goes to the first waiting task or raises the count, never both, and no
\* task waits while there is a unit, whatever timeouts, releases, changes of
\* priority, ini_sem and del_sem come between.
THEOREM SemIsCountedResource == ASSUME SemAssumption PROVE SemSpec => SemaphoresAreCounted
<1>1. SemInit => SemResource!ResourceInit
  BY SemInitOK
<1>2. SemInv /\ [SemNext]_semAllVars => [SemResource!ResourceNext]_(SemResource!rvars)
  <2>1. UNCHANGED semAllVars => UNCHANGED SemResource!rvars
    BY DEF semAllVars, semVars, SemResource!rvars
  <2> QED
    BY <2>1, SemStep DEF SemStepOK
<1> QED
  BY <1>1, <1>2, SemInvariance, PTL DEF SemSpec, SemaphoresAreCounted, SemResource!ResourceSpec


-----------------------------------------------------------------------------
(***************************************************************************)
(* Event flags                                                             *)
(***************************************************************************)

FFields == {"flgptn", "got", "served"}

\* The fields of FState
LEMMA FStateFields ==
    /\ KFields \subseteq DOMAIN FState /\ FFields \subseteq DOMAIN FState
    /\ FState.ready = ready /\ FState.tstat = tstat /\ FState.priority = priority
    /\ FState.tmevt = tmevt /\ FState.wait_queue = wait_queue /\ FState.dspreq = FALSE
    /\ FState.flgptn = flgptn /\ FState.got = {} /\ FState.served = FALSE
  BY DEF FState, KFields, FFields

\* The record a call on an event flag starts with is in order.
LEMMA FStateInv ==
    ASSUME IInv, WaitInv
    PROVE  KInv(FState, {})
<1> DEFINE a == KState
           n == FState
<1>1. /\ KInv(a, {}) /\ KFields \subseteq DOMAIN n /\ n.ready = a.ready /\ n.tstat = a.tstat
      /\ n.priority = a.priority /\ n.tmevt = a.tmevt /\ n.wait_queue = a.wait_queue
  BY KStateInv, KStateFields, FStateFields
<1> HIDE DEF a, n
<1>2. KInv(n, {})
  BY <1>1, SameKFields
<1> QED
  BY <1>2 DEF n

\* The fields that a turn of the loop writes before it ends the wait of t
TurnRecord(k, f, t) ==
    [k EXCEPT !.got = @ \cup {<<t, k.flgptn[f]>>},
              !.flgptn[f] = LeftOver(f, @),
              !.served = f \in TaClr]

\* They are those of the event flag only.
LEMMA TurnFields ==
    ASSUME NEW k, KFields \subseteq DOMAIN k, FFields \subseteq DOMAIN k, NEW f, NEW t
    PROVE  LET n == TurnRecord(k, f, t)
           IN  /\ SameK(k, n)
               /\ n.got = k.got \cup {<<t, k.flgptn[f]>>}
               /\ n.flgptn = [k.flgptn EXCEPT ![f] = LeftOver(f, k.flgptn[f])]
               /\ n.served = (f \in TaClr)
  BY Zenon DEF TurnRecord, SameK, KFields, FFields

\* A pattern set in the record, as set_flg and ini_flg do it
LEMMA PatternFields ==
    ASSUME NEW k, KFields \subseteq DOMAIN k, FFields \subseteq DOMAIN k, NEW f, NEW p
    PROVE  LET n == [k EXCEPT !.flgptn[f] = p]
           IN  /\ SameK(k, n) /\ n.got = k.got /\ n.served = k.served
               /\ n.flgptn = [k.flgptn EXCEPT ![f] = p]
  BY Zenon DEF SameK, KFields, FFields

-----------------------------------------------------------------------------
\* The loop of set_flg

\* S is the set of places in the queue whose tasks have been served in the first n
\* turns, for the pattern P.  A TA_CLR flag serves the first task that is met.
ServedPlaces(f, P, q, n, r, S) ==
    /\ r.got = {<<q[i], P>> : i \in S}
    /\ \A u \in TASK : Contains(r.wait_queue[f], u) <=> \E i \in 1 .. Len(q) : i \notin S /\ q[i] = u
    /\ \/ /\ ~r.served /\ r.flgptn[f] = P
          /\ \A i \in 1 .. n : i \in S <=> Met(P, winfo[q[i]])
          /\ f \in TaClr => S = {}
       \/ /\ r.served /\ f \in TaClr /\ r.flgptn[f] = {}
          /\ \E m \in 1 .. n : /\ S = {m} /\ Met(P, winfo[q[m]])
                               /\ \A i \in 1 .. n : i < m => ~Met(P, winfo[q[i]])

ServedUpTo(k, f, P, n, r) ==
    /\ KInv(r, {}) /\ Advances(k, r)
    /\ FFields \subseteq DOMAIN r
    /\ \A v \in WQUEUE \ {f} : r.wait_queue[v] = k.wait_queue[v]
    /\ r.flgptn \in [FLG -> SUBSET BITS]
    /\ \A g \in FLG \ {f} : r.flgptn[g] = k.flgptn[g]
    /\ \E S \in SUBSET (1 .. n) : ServedPlaces(f, P, k.wait_queue[f], n, r, S)

\* One turn keeps that.
LEMMA ServeNext ==
    ASSUME NEW k, KInv(k, {}), NEW f \in FLG, NEW P \in SUBSET BITS,
           NEW n \in Nat, n < Len(k.wait_queue[f]), NEW r, ServedUpTo(k, f, P, n, r)
    PROVE  ServedUpTo(k, f, P, n + 1, Serve(r, f, k.wait_queue[f][n + 1]))
<1> DEFINE q == k.wait_queue[f]
           t == q[n + 1]
<1>1. /\ q \in Seq(TASK) /\ Len(q) \in Nat /\ Distinct(q) /\ n + 1 \in 1 .. Len(q) /\ t \in TASK
      /\ f \in WQUEUE /\ QueuesHold(k.wait_queue, k.tstat, {})
  BY DEF KInv, QueuesHold, FLG
<1>2. /\ KInv(r, {}) /\ Advances(k, r) /\ FFields \subseteq DOMAIN r /\ KFields \subseteq DOMAIN r
      /\ r.flgptn \in [FLG -> SUBSET BITS]
  BY DEF ServedUpTo, KInv
<1>3. PICK S \in SUBSET (1 .. n) : ServedPlaces(f, P, q, n, r, S)
  BY DEF ServedUpTo
<1>4. n + 1 \notin S /\ S \in SUBSET (1 .. n + 1) /\ n + 1 \in 1 .. n + 1
  BY <1>3
<1>5. CASE r.served \/ ~Met(r.flgptn[f], winfo[t])
  <2>1. Serve(r, f, t) = r
    BY <1>5 DEF Serve
  <2>2. ServedPlaces(f, P, q, n + 1, r, S)
    <3>1. CASE ~r.served
      <4>1. /\ ~Met(P, winfo[t]) /\ r.flgptn[f] = P /\ (f \in TaClr => S = {})
            /\ \A i \in 1 .. n : i \in S <=> Met(P, winfo[q[i]])
        BY <3>1, <1>3, <1>5 DEF ServedPlaces
      <4>2. \A i \in 1 .. n + 1 : i \in S <=> Met(P, winfo[q[i]])
        <5> TAKE i \in 1 .. n + 1
        <5>1. i \in 1 .. n \/ i = n + 1
          OBVIOUS
        <5> QED
          BY <5>1, <4>1, <1>4
      <4> QED
        BY <3>1, <4>1, <4>2, <1>3 DEF ServedPlaces
    <3>2. CASE r.served
      <4>1. PICK m \in 1 .. n : /\ S = {m} /\ Met(P, winfo[q[m]])
                                /\ \A i \in 1 .. n : i < m => ~Met(P, winfo[q[i]])
        BY <3>2, <1>3 DEF ServedPlaces
      <4>2. m \in 1 .. n + 1 /\ \A i \in 1 .. n + 1 : i < m => ~Met(P, winfo[q[i]])
        BY <4>1
      <4> QED
        BY <3>2, <4>1, <4>2, <1>3 DEF ServedPlaces
    <3> QED
      BY <3>1, <3>2
  <2> QED
    BY <2>1, <2>2, <1>4 DEF ServedUpTo
<1>6. CASE ~r.served /\ Met(r.flgptn[f], winfo[t])
  <2> DEFINE m == TurnRecord(r, f, t)
             s == WaitRelease(m, t)
  <2>1. Serve(r, f, t) = s
    BY <1>6 DEF Serve, TurnRecord
  <2>2. /\ r.flgptn[f] = P /\ Met(P, winfo[t]) /\ (f \in TaClr => S = {})
        /\ \A i \in 1 .. n : i \in S <=> Met(P, winfo[q[i]])
        /\ r.got = {<<q[i], P>> : i \in S}
        /\ \A u \in TASK : Contains(r.wait_queue[f], u)
                             <=> \E i \in 1 .. Len(q) : i \notin S /\ q[i] = u
    BY <1>3, <1>6 DEF ServedPlaces
  <2>3. /\ SameK(r, m)
        /\ m.got = r.got \cup {<<t, P>>}
        /\ m.flgptn = [r.flgptn EXCEPT ![f] = LeftOver(f, P)]
        /\ m.served = (f \in TaClr)
    BY <1>2, <2>2, TurnFields
  <2> HIDE DEF m
  <2>4. KInv(m, {}) /\ Advances(r, m)
    BY <1>2, <2>3, SameKKeeps
  <2>5. m.wait_queue = r.wait_queue /\ DOMAIN m = DOMAIN r
    BY <2>3 DEF SameK
  <2>6. Contains(m.wait_queue[f], t)
    BY <2>2, <2>5, <1>1, <1>4
  <2>7. "WAITING" \in m.tstat[t]
    <3>1. QueuesHold(m.wait_queue, m.tstat, {}) /\ m.tstat \in [TASK -> TSTAT]
      BY <2>4 DEF KInv
    <3>2. "WOBJ" \in m.tstat[t] /\ m.tstat[t] \in TSTAT
      BY <3>1, <2>6, <1>1 DEF QueuesHold
    <3> QED
      BY <3>2 DEF TSTAT
  <2>8. WaitReleased(m, s, {}, t)
    BY <2>4, <2>7, <1>1, WaitReleaseKeeps
  <2> HIDE DEF s
  <2>9. KInv(s, {}) /\ Advances(k, s) /\ FFields \subseteq DOMAIN s
    <3>1. KInv(s, {}) /\ Advances(m, s)
      BY <2>8 DEF WaitReleased
    <3>2. Advances(k, s)
      BY <3>1, <2>4, <1>2, AdvancesTransitive
    <3> QED
      BY <3>1, <3>2, <2>5, <1>2 DEF Advances
  <2>10. s.got = m.got /\ s.flgptn = m.flgptn /\ s.served = m.served
    <3>1. FFields \subseteq DOMAIN m \ KFields
      BY <2>5, <1>2 DEF FFields, KFields
    <3> QED
      BY <3>1, <2>8 DEF WaitReleased, FFields
  <2>11. ASSUME NEW v \in WQUEUE
         PROVE  /\ s.wait_queue[v] = Unlinked(r.wait_queue[v], t)
                /\ r.wait_queue[v] \in Seq(TASK) /\ Distinct(r.wait_queue[v])
    BY <2>5, <2>8, <1>2 DEF WaitReleased, KInv, QueuesHold
  <2>12. ASSUME NEW v \in WQUEUE \ {f}
         PROVE  s.wait_queue[v] = k.wait_queue[v]
    <3>1. r.wait_queue[v] = k.wait_queue[v]
      BY DEF ServedUpTo
    <3>2. ~Contains(k.wait_queue[v], t)
      BY <1>1 DEF QueuesHold, Contains
    <3>3. Unlinked(r.wait_queue[v], t) = r.wait_queue[v]
      BY <3>1, <3>2 DEF Unlinked
    <3> QED
      BY <3>1, <3>3, <2>11
  <2> DEFINE T == S \cup {n + 1}
  <2>13. ASSUME NEW u \in TASK
         PROVE  Contains(s.wait_queue[f], u) <=> \E i \in 1 .. Len(q) : i \notin T /\ q[i] = u
    <3>1. Contains(s.wait_queue[f], u) <=> Contains(r.wait_queue[f], u) /\ u # t
      BY <2>11, <1>1, UnlinkedKeeps
    <3>2. ASSUME NEW i \in 1 .. Len(q), i \notin S, q[i] = u, u # t
          PROVE  i \notin T
      BY <3>2
    <3>3. ASSUME NEW i \in 1 .. Len(q), i \notin T, q[i] = u
          PROVE  i \notin S /\ u # t
      BY <3>3, <1>1 DEF Distinct
    <3> QED
      BY <3>1, <3>2, <3>3, <2>2
  <2>14. s.got = {<<q[i], P>> : i \in T}
    BY <2>2, <2>3, <2>10
  <2>15. \A g \in FLG : s.flgptn[g] = IF g = f THEN LeftOver(f, P) ELSE r.flgptn[g]
    BY <2>3, <2>10, <1>2
  <2>16. s.flgptn \in [FLG -> SUBSET BITS]
    <3>1. LeftOver(f, P) \in SUBSET BITS
      BY DEF LeftOver
    <3> QED
      BY <3>1, <2>3, <2>10, <1>2
  <2>17. ServedPlaces(f, P, q, n + 1, s, T)
    <3>1. CASE f \in TaClr
      <4>1. T = {n + 1} /\ s.served /\ s.flgptn[f] = {}
        BY <3>1, <2>2, <2>3, <2>10, <2>15 DEF LeftOver
      <4>2. \A i \in 1 .. n + 1 : i < n + 1 => ~Met(P, winfo[q[i]])
        <5> SUFFICES ASSUME NEW i \in 1 .. n + 1, i < n + 1
                     PROVE  ~Met(P, winfo[q[i]])
          OBVIOUS
        <5>1. i \in 1 .. n
          OBVIOUS
        <5> QED
          BY <5>1, <3>1, <2>2
      <4> HIDE DEF T
      <4> QED
        BY <3>1, <4>1, <4>2, <2>2, <2>13, <2>14, <1>4 DEF ServedPlaces
    <3>2. CASE f \notin TaClr
      <4>1. ~s.served /\ s.flgptn[f] = P
        BY <3>2, <2>3, <2>10, <2>15 DEF LeftOver
      <4>2. \A i \in 1 .. n + 1 : i \in T <=> Met(P, winfo[q[i]])
        <5> TAKE i \in 1 .. n + 1
        <5>1. i \in 1 .. n \/ i = n + 1
          OBVIOUS
        <5>2. i # n + 1 => (i \in T <=> i \in S)
          OBVIOUS
        <5> QED
          BY <5>1, <5>2, <2>2
      <4> HIDE DEF T
      <4> QED
        BY <3>2, <4>1, <4>2, <2>13, <2>14 DEF ServedPlaces
    <3> QED
      BY <3>1, <3>2
  <2>18. T \in SUBSET (1 .. n + 1)
    BY <1>4
  <2>19. \A g \in FLG \ {f} : s.flgptn[g] = k.flgptn[g]
    BY <2>15 DEF ServedUpTo
  <2> HIDE DEF T
  <2> QED
    BY <2>1, <2>9, <2>12, <2>16, <2>17, <2>18, <2>19 DEF ServedUpTo
<1> QED
  BY <1>5, <1>6


\* The records of the loop: the first is k, each other one is a turn after the one
\* before it.
ServeLoop(k, f, q, s) ==
    s = [n \in 0 .. Len(q) |-> IF n = 0 THEN k ELSE Serve(s[n - 1], f, q[n])]

\* There are such records.
LEMMA ServeLoopIsDefined ==
    ASSUME NEW k, NEW f, NEW q, Len(q) \in Nat
    PROVE  \E s : ServeLoop(k, f, q, s)
<1> USE DEF ServeLoop
<1> DEFINE Loop(s, N) == s = [n \in 0 .. N |-> IF n = 0 THEN k ELSE Serve(s[n - 1], f, q[n])]
           S == {N \in 0 .. Len(q) : \E s : Loop(s, N)}
<1>1. 0 \in S
  <2> DEFINE g == [n \in 0 .. 0 |-> k]
  <2>1. Loop(g, 0)
    <3>1. \A n \in 0 .. 0 : n = 0
      OBVIOUS
    <3> QED
      BY <3>1
  <2> HIDE DEF Loop
  <2> QED
    BY <2>1
<1>2. ASSUME NEW N \in 0 .. Len(q), N < Len(q), N \in S
      PROVE  N + 1 \in S
  <2>1. PICK s : Loop(s, N)
    BY <1>2
  <2> DEFINE g == [n \in 0 .. N + 1 |-> IF n = N + 1 THEN Serve(s[N], f, q[N + 1]) ELSE s[n]]
  <2>2. ASSUME NEW n \in 0 .. N + 1
        PROVE  g[n] = IF n = 0 THEN k ELSE Serve(g[n - 1], f, q[n])
    <3>1. CASE n = N + 1
      <4>1. n - 1 \in 0 .. N + 1 /\ n - 1 # N + 1 /\ n - 1 = N /\ n # 0
        BY <3>1
      <4>2. g[n - 1] = s[N] /\ g[n] = Serve(s[N], f, q[N + 1])
        BY <3>1, <4>1
      <4> QED
        BY <3>1, <4>1, <4>2
    <3>2. CASE n # N + 1
      <4>1. n \in 0 .. N /\ g[n] = s[n]
        BY <3>2
      <4>2. s[n] = IF n = 0 THEN k ELSE Serve(s[n - 1], f, q[n])
        BY <4>1, <2>1
      <4>3. n # 0 => n - 1 \in 0 .. N + 1 /\ n - 1 # N + 1
        BY <4>1
      <4>4. n # 0 => g[n - 1] = s[n - 1]
        BY <4>3
      <4> QED
        BY <4>1, <4>2, <4>4
    <3> QED
      BY <3>1, <3>2
  <2>3. Loop(g, N + 1)
    BY <2>2
  <2>4. N + 1 \in 0 .. Len(q)
    BY <1>2
  <2> HIDE DEF Loop, g
  <2> QED
    BY <2>3, <2>4
<1>3. S = 0 .. Len(q)
  <2>1. S \in SUBSET (0 .. Len(q))
    OBVIOUS
  <2> HIDE DEF S
  <2> QED
    BY <1>1, <1>2, <2>1, LoopInduction
<1>4. \E s : Loop(s, Len(q))
  <2>1. Len(q) \in S
    BY <1>3
  <2> QED
    BY <2>1
<1> QED
  BY <1>4

\* The whole walk along the queue
LEMMA ServeQueueKeeps ==
    ASSUME NEW k, KInv(k, {}), FFields \subseteq DOMAIN k, NEW f \in FLG,
           k.flgptn \in [FLG -> SUBSET BITS], k.got = {}, ~k.served
    PROVE  ServedUpTo(k, f, k.flgptn[f], Len(k.wait_queue[f]), ServeQueue(k, f))
<1> DEFINE q == k.wait_queue[f]
           P == k.flgptn[f]
           R[n \in 0 .. Len(q)] == IF n = 0 THEN k ELSE Serve(R[n - 1], f, q[n])
           S == {n \in 0 .. Len(q) : ServedUpTo(k, f, P, n, R[n])}
<1>1. q \in Seq(TASK) /\ Len(q) \in Nat /\ P \in SUBSET BITS /\ f \in WQUEUE
  BY DEF KInv, QueuesHold, FLG
<1>2. R = [n \in 0 .. Len(q) |-> IF n = 0 THEN k ELSE Serve(R[n - 1], f, q[n])]
  <2>1. \E s : ServeLoop(k, f, q, s)
    BY <1>1, ServeLoopIsDefined
  <2> QED
    BY <2>1 DEF ServeLoop
<1>3. ServeQueue(k, f) = R[Len(q)]
  BY DEF ServeQueue
<1> HIDE DEF R
<1>4. 0 \in S
  <2>1. R[0] = k
    BY <1>1, <1>2
  <2>2. ServedPlaces(f, P, q, 0, k, {})
    <3>1. \A u \in TASK : Contains(q, u) <=> \E i \in 1 .. Len(q) : i \notin {} /\ q[i] = u
      BY DEF Contains
    <3>2. k.got = {<<q[i], P>> : i \in {}}
      OBVIOUS
    <3> QED
      BY <3>1, <3>2 DEF ServedPlaces
  <2>3. ServedUpTo(k, f, P, 0, k)
    BY <2>2, AdvancesReflexive DEF ServedUpTo
  <2> QED
    BY <2>1, <2>3, <1>1
<1>5. ASSUME NEW n \in 0 .. Len(q), n < Len(q), n \in S
      PROVE  n + 1 \in S
  <2>1. n + 1 \in 0 .. Len(q) /\ n + 1 # 0 /\ (n + 1) - 1 = n /\ n \in Nat
    BY <1>1, <1>5
  <2>2. R[n + 1] = Serve(R[n], f, q[n + 1])
    BY <2>1, <1>2
  <2>3. ServedUpTo(k, f, P, n, R[n])
    BY <1>5
  <2>4. ServedUpTo(k, f, P, n + 1, Serve(R[n], f, q[n + 1]))
    BY <2>1, <2>3, <1>1, <1>5, ServeNext
  <2> QED
    BY <2>1, <2>2, <2>4
<1>6. S = 0 .. Len(q)
  <2>1. S \in SUBSET (0 .. Len(q))
    OBVIOUS
  <2> HIDE DEF S
  <2> QED
    BY <1>1, <1>4, <1>5, <2>1, LoopInduction
<1>7. ServedUpTo(k, f, P, Len(q), R[Len(q)])
  <2>1. Len(q) \in S
    BY <1>1, <1>6
  <2> QED
    BY <2>1
<1> QED
  BY <1>3, <1>7

-----------------------------------------------------------------------------
\* The invariant of the event flags

\* Who waits does so for a flag that exists and a condition that is not met.
WaitsUnmet ==
    \A f \in FLG, t \in TASK : Contains(wait_queue[f], t) =>
        f \in flgexist /\ winfo[t] \in COND /\ ~Met(flgptn[f], winfo[t])

OneAtMost ==
    \A f \in FLG \ TaWmul, t, u \in TASK :
        Contains(wait_queue[f], t) /\ Contains(wait_queue[f], u) => t = u

FlgInv ==
    /\ IInv /\ WaitInv
    /\ flgexist \in SUBSET FLG /\ flgptn \in [FLG -> SUBSET BITS]
    /\ winfo \in [TASK -> COND \cup {NoCond}]
    /\ \A t \in TASK : (\A f \in FLG : ~Contains(wait_queue[f], t)) => winfo[t] = NoCond
    /\ WaitsUnmet /\ OneAtMost

\* More bits meet what fewer bits meet, and no bits meet nothing.
LEMMA MetFacts ==
    ASSUME NEW c \in COND
    PROVE  /\ \A a, b : a \subseteq b /\ Met(a, c) => Met(b, c)
           /\ ~Met({}, c)
<1>1. c.waiptn # {} /\ c.wfmode \in {"ORW", "ANDW"}
  BY DEF COND
<1>2. ASSUME NEW a, NEW b, a \subseteq b, Met(a, c)
      PROVE  Met(b, c)
  BY <1>2 DEF Met
<1>3. ~Met({}, c)
  <2>1. {} \cap c.waiptn = {} /\ ~(c.waiptn \subseteq {})
    BY <1>1
  <2> QED
    BY <2>1 DEF Met
<1> QED
  BY <1>2, <1>3

\* What a step has to show
LEMMA FlgInvNext ==
    ASSUME FlgInv, IInv', WaitInv', flgexist' \in SUBSET FLG, flgptn' \in [FLG -> SUBSET BITS],
           NEW asked \in [TASK -> COND \cup {NoCond}], WinfoScope(asked),
           \A f \in FLG, t \in TASK : Contains(wait_queue'[f], t) =>
               f \in flgexist' /\ asked[t] \in COND /\ ~Met(flgptn'[f], asked[t]),
           OneAtMost'
    PROVE  FlgInv'
<1>1. /\ \A t \in TASK : winfo'[t] = IF \E f \in FLG : Contains(wait_queue'[f], t)
                                     THEN asked[t] ELSE NoCond
      /\ winfo' \in [TASK -> COND \cup {NoCond}]
  BY DEF WinfoScope
<1>2. WaitsUnmet'
  BY <1>1 DEF WaitsUnmet
<1> QED
  BY <1>1, <1>2 DEF FlgInv

\* A step that lets nobody begin to wait and adds no bit
LEMMA NobodyEnters ==
    ASSUME FlgInv, IInv', WaitInv', flgexist' \in SUBSET FLG, flgptn' \in [FLG -> SUBSET BITS],
           WinfoScope(winfo),
           \A f \in FLG, t \in TASK : Contains(wait_queue'[f], t) =>
               Contains(wait_queue[f], t) /\ f \in flgexist' /\ flgptn'[f] \subseteq flgptn[f]
    PROVE  FlgInv'
<1>1. ASSUME NEW f \in FLG, NEW t \in TASK, Contains(wait_queue'[f], t)
      PROVE  f \in flgexist' /\ winfo[t] \in COND /\ ~Met(flgptn'[f], winfo[t])
  <2>1. /\ Contains(wait_queue[f], t) /\ f \in flgexist' /\ flgptn'[f] \subseteq flgptn[f]
    BY <1>1
  <2>2. winfo[t] \in COND /\ ~Met(flgptn[f], winfo[t])
    BY <2>1 DEF FlgInv, WaitsUnmet
  <2> QED
    BY <2>1, <2>2, MetFacts
<1>2. OneAtMost'
  BY DEF FlgInv, OneAtMost
<1>3. winfo \in [TASK -> COND \cup {NoCond}]
  BY DEF FlgInv
<1> QED
  BY <1>1, <1>2, <1>3, FlgInvNext

\* When the queues stay as they are, what the tasks wait for does too.
LEMMA WinfoStays ==
    ASSUME FlgInv, UNCHANGED <<winfo, wait_queue>>
    PROVE  WinfoScope(winfo)
<1>1. winfo = [t \in TASK |-> winfo[t]]
  BY DEF FlgInv
<1>2. \A t \in TASK : winfo[t] = IF \E f \in FLG : Contains(wait_queue'[f], t)
                                 THEN winfo[t] ELSE NoCond
  BY DEF FlgInv
<1> QED
  BY <1>1, <1>2 DEF WinfoScope


-----------------------------------------------------------------------------
\* The steps of the event flags

\* What every step below is shown to be
FlgStepOK == FlgInv' /\ ServesInTurn

\* A step that serves nobody serves in turn.
LEMMA NobodyServed ==
    ASSUME got' = {}
    PROVE  ServesInTurn
  BY DEF ServesInTurn

\* set_flg, iset_flg
LEMMA SetFlgOK ==
    ASSUME FlgInv, NEW f \in FLG, NEW p \in SUBSET BITS, SetFlg(f, p)
    PROVE  FlgStepOK
<1> DEFINE q == wait_queue[f]
           P == flgptn[f] \cup p
           a == FState
           k == [a EXCEPT !.flgptn[f] = P]
           r == ServeQueue(k, f)
<1>0. /\ IInv /\ WaitInv /\ flgexist \in SUBSET FLG /\ flgptn \in [FLG -> SUBSET BITS]
      /\ f \in WQUEUE /\ f \in flgexist /\ UNCHANGED restVars /\ UNCHANGED flgexist
      /\ QueuesHold(wait_queue, tstat, {})
  BY DEF FlgInv, FLG, SetFlg, WaitInv
<1>1. /\ KInv(a, {}) /\ KFields \subseteq DOMAIN a /\ FFields \subseteq DOMAIN a
      /\ a.ready = ready /\ a.tstat = tstat /\ a.wait_queue = wait_queue
      /\ a.flgptn = flgptn /\ a.got = {} /\ a.served = FALSE
  BY <1>0, FStateInv, FStateFields
<1>2. FCommit(r)
  <2>1. [FState EXCEPT !.flgptn[f] = @ \cup p] = k
    BY <1>1
  <2> QED
    BY <2>1 DEF SetFlg
<1> HIDE DEF a
<1>3. /\ SameK(a, k) /\ k.got = {} /\ ~k.served /\ k.flgptn = [flgptn EXCEPT ![f] = P]
  BY <1>1, PatternFields
<1> HIDE DEF k
<1>4. /\ KInv(k, {}) /\ Advances(a, k) /\ FFields \subseteq DOMAIN k
      /\ k.flgptn \in [FLG -> SUBSET BITS] /\ k.flgptn[f] = P /\ k.wait_queue = wait_queue
      /\ \A g \in FLG \ {f} : k.flgptn[g] = flgptn[g]
  <2>1. KInv(k, {}) /\ Advances(a, k)
    BY <1>1, <1>3, SameKKeeps
  <2>2. DOMAIN k = DOMAIN a /\ k.wait_queue = a.wait_queue
    BY <1>3 DEF SameK
  <2> QED
    BY <2>1, <2>2, <1>0, <1>1, <1>3
<1>5. ServedUpTo(k, f, P, Len(q), r)
  <2>1. ServedUpTo(k, f, k.flgptn[f], Len(k.wait_queue[f]), ServeQueue(k, f))
    BY <1>3, <1>4, ServeQueueKeeps
  <2> QED
    BY <2>1, <1>4
<1> HIDE DEF r, P
<1>6. /\ KInv(r, {}) /\ Advances(a, r) /\ r.flgptn \in [FLG -> SUBSET BITS]
      /\ \A v \in WQUEUE \ {f} : r.wait_queue[v] = wait_queue[v]
      /\ \A g \in FLG \ {f} : r.flgptn[g] = flgptn[g]
  BY <1>4, <1>5, AdvancesTransitive DEF ServedUpTo
<1>7. IInv' /\ WaitInv'
  BY <1>0, <1>1, <1>2, <1>6, AdvanceKeeps DEF FCommit
<1>8. wait_queue' = r.wait_queue /\ flgptn' = r.flgptn /\ got' = r.got /\ WinfoScope(winfo)
  BY <1>2 DEF FCommit, Commit
<1>9. PICK S \in SUBSET (1 .. Len(q)) : ServedPlaces(f, P, q, Len(q), r, S)
  BY <1>4, <1>5 DEF ServedUpTo
<1>10. /\ got' = {<<q[i], P>> : i \in S}
       /\ \A u \in TASK : Contains(wait_queue'[f], u)
                            <=> \E i \in 1 .. Len(q) : i \notin S /\ q[i] = u
  BY <1>8, <1>9 DEF ServedPlaces
<1>11. q \in Seq(TASK) /\ Distinct(q) /\ \A i \in S : i \in 1 .. Len(q) /\ q[i] \in TASK
  BY <1>0 DEF QueuesHold
<1>12. ASSUME NEW u \in TASK, Contains(wait_queue'[f], u)
       PROVE  Contains(q, u) /\ winfo[u] \in COND /\ ~Met(flgptn'[f], winfo[u])
  <2>1. PICK i \in 1 .. Len(q) : i \notin S /\ q[i] = u
    BY <1>10, <1>12
  <2>2. Contains(q, u)
    BY <2>1 DEF Contains
  <2>3. winfo[u] \in COND
    BY <2>2 DEF FlgInv, WaitsUnmet
  <2>4. CASE ~r.served
    BY <2>1, <2>4, <1>8, <1>9, <2>2, <2>3 DEF ServedPlaces
  <2>5. CASE r.served
    BY <2>5, <1>8, <1>9, <2>2, <2>3, MetFacts DEF ServedPlaces
  <2> QED
    BY <2>2, <2>3, <2>4, <2>5
<1>13. ASSUME NEW g \in FLG \ {f}, NEW u \in TASK, Contains(wait_queue'[g], u)
       PROVE  /\ Contains(wait_queue[g], u) /\ winfo[u] \in COND
              /\ g \in flgexist /\ ~Met(flgptn'[g], winfo[u])
  <2>1. g \in WQUEUE /\ wait_queue'[g] = wait_queue[g] /\ flgptn'[g] = flgptn[g]
    BY <1>6, <1>8 DEF FLG
  <2> QED
    BY <2>1, <1>13 DEF FlgInv, WaitsUnmet
<1>14. OneAtMost'
  BY <1>12, <1>13 DEF FlgInv, OneAtMost
<1>15. FlgInv'
  <2>1. winfo \in [TASK -> COND \cup {NoCond}] /\ flgptn' \in [FLG -> SUBSET BITS]
    BY <1>6, <1>8 DEF FlgInv
  <2>2. \A g \in FLG, u \in TASK : Contains(wait_queue'[g], u) =>
            g \in flgexist' /\ winfo[u] \in COND /\ ~Met(flgptn'[g], winfo[u])
    BY <1>0, <1>12, <1>13
  <2> QED
    BY <2>1, <2>2, <1>0, <1>7, <1>8, <1>14, FlgInvNext
<1>16. ServesInTurn
  <2> SUFFICES ASSUME NEW x \in got', NEW g \in FLG, Contains(wait_queue[g], x[1])
               PROVE  /\ Met(x[2], winfo[x[1]])
                      /\ g \in TaClr =>
                           /\ flgptn'[g] = {} /\ got' = {x}
                           /\ \A i, j \in DOMAIN wait_queue[g] :
                                 i < j /\ wait_queue[g][j] = x[1]
                                   => ~Met(x[2], winfo[wait_queue[g][i]])
    BY DEF ServesInTurn, Waits
  <2>1. PICK n \in S : x = <<q[n], P>>
    BY <1>10
  <2>2. x[1] = q[n] /\ x[2] = P /\ n \in 1 .. Len(q)
    BY <2>1
  <2>3. g = f
    <3>1. Contains(q, q[n]) /\ q[n] \in TASK
      BY <2>2, <1>11 DEF Contains
    <3> QED
      BY <3>1, <2>2, <1>0 DEF QueuesHold, FLG
  <2>4. DOMAIN q = 1 .. Len(q)
    BY <1>11
  <2>5. CASE ~r.served
    <3>1. Met(P, winfo[q[n]]) /\ f \notin TaClr
      BY <2>2, <2>5, <1>9 DEF ServedPlaces
    <3> QED
      BY <3>1, <2>2, <2>3
  <2>6. CASE r.served
    <3>1. PICK m \in 1 .. Len(q) : /\ S = {m} /\ Met(P, winfo[q[m]])
                                   /\ \A i \in 1 .. Len(q) : i < m => ~Met(P, winfo[q[i]])
      BY <2>6, <1>9 DEF ServedPlaces
    <3>2. m = n /\ flgptn'[f] = {} /\ got' = {x}
      BY <3>1, <2>1, <2>6, <1>8, <1>9, <1>10 DEF ServedPlaces
    <3>3. ASSUME NEW i \in 1 .. Len(q), NEW j \in 1 .. Len(q), i < j, q[j] = q[n]
          PROVE  ~Met(P, winfo[q[i]])
      <4>1. j = n
        BY <3>3, <2>2, <1>11 DEF Distinct
      <4> QED
        BY <4>1, <3>1, <3>2, <3>3
    <3> QED
      BY <3>1, <3>2, <3>3, <2>2, <2>3, <2>4
  <2> QED
    BY <2>5, <2>6
<1> QED
  BY <1>15, <1>16 DEF FlgStepOK

\* clr_flg
LEMMA ClrFlgOK ==
    ASSUME FlgInv, NEW f \in FLG, NEW p \in SUBSET BITS, ClrFlg(f, p)
    PROVE  FlgStepOK
<1>0. /\ IInv /\ WaitInv /\ flgexist \in SUBSET FLG /\ flgptn \in [FLG -> SUBSET BITS]
      /\ UNCHANGED <<vars, flgexist, winfo, wait_queue>> /\ got' = {}
      /\ flgptn' = [flgptn EXCEPT ![f] = @ \cap p]
  BY DEF FlgInv, ClrFlg
<1>1. IInv' /\ WaitInv' /\ WinfoScope(winfo)
  BY <1>0, NothingMoves, WinfoStays
<1>2. /\ flgptn' \in [FLG -> SUBSET BITS]
      /\ \A g \in FLG : flgptn'[g] \subseteq flgptn[g]
  BY <1>0
<1>3. \A g \in FLG, t \in TASK : Contains(wait_queue'[g], t) =>
          Contains(wait_queue[g], t) /\ g \in flgexist' /\ flgptn'[g] \subseteq flgptn[g]
  BY <1>0, <1>2 DEF FlgInv, WaitsUnmet
<1>4. FlgInv'
  BY <1>0, <1>1, <1>2, <1>3, NobodyEnters
<1> QED
  BY <1>0, <1>4, NobodyServed DEF FlgStepOK

\* The running task finds its condition met.
LEMMA TakePatternOK ==
    ASSUME FlgInv, nest = 0, NEW f \in FLG, NEW c \in COND, TakePattern(f, c)
    PROVE  FlgStepOK
<1>0. /\ IInv /\ WaitInv /\ flgexist \in SUBSET FLG /\ flgptn \in [FLG -> SUBSET BITS]
      /\ UNCHANGED <<vars, flgexist, winfo, wait_queue>>
      /\ got' = {<<runtsk, flgptn[f]>>}
      /\ flgptn' = [flgptn EXCEPT ![f] = LeftOver(f, @)]
  BY DEF FlgInv, TakePattern
<1>1. IInv' /\ WaitInv' /\ WinfoScope(winfo)
  BY <1>0, NothingMoves, WinfoStays
<1>2. /\ flgptn' \in [FLG -> SUBSET BITS]
      /\ \A g \in FLG : flgptn'[g] \subseteq flgptn[g]
  BY <1>0 DEF LeftOver
<1>3. \A g \in FLG, t \in TASK : Contains(wait_queue'[g], t) =>
          Contains(wait_queue[g], t) /\ g \in flgexist' /\ flgptn'[g] \subseteq flgptn[g]
  BY <1>0, <1>2 DEF FlgInv, WaitsUnmet
<1>4. FlgInv'
  BY <1>0, <1>1, <1>2, <1>3, NobodyEnters
<1>5. ServesInTurn
  <2>1. \A g \in FLG : ~Contains(wait_queue[g], runtsk)
    BY <1>0, RunningWaitsNowhere DEF FLG
  <2>2. \A x \in got' : x[1] = runtsk
    BY <1>0
  <2> QED
    BY <2>1, <2>2 DEF ServesInTurn, Waits
<1> QED
  BY <1>4, <1>5 DEF FlgStepOK

\* wai_flg, twai_flg
LEMMA WaiFlgOK ==
    ASSUME FlgInv, NEW f \in FLG, NEW c \in COND, NEW timed \in BOOLEAN, WaiFlg(f, c, timed)
    PROVE  FlgStepOK
<1>0. /\ IInv /\ WaitInv /\ flgexist \in SUBSET FLG /\ flgptn \in [FLG -> SUBSET BITS]
      /\ DispatchState /\ nest = 0 /\ f \in WQUEUE /\ MayAsk(f)
      /\ wait_queue \in [FLG -> Seq(TASK)] /\ winfo \in [TASK -> COND \cup {NoCond}]
  BY DEF FlgInv, WaiFlg, DispatchState, TskCtxUnl, FLG, WaitInv, QueuesHold
<1>1. CASE TakePattern(f, c)
  BY <1>0, <1>1, TakePatternOK
<1>2. CASE /\ ~Met(flgptn[f], c) /\ WobjMakeWait(f, timed)
           /\ WinfoScope([winfo EXCEPT ![runtsk] = c]) /\ NothingSet /\ UNCHANGED restVars
  <2> DEFINE asked == [winfo EXCEPT ![runtsk] = c]
  <2>1. /\ IInv' /\ WaitInv' /\ runtsk \in TASK
        /\ \A v \in WQUEUE : ~Contains(wait_queue[v], runtsk)
        /\ \A v \in WQUEUE, u \in TASK : Contains(wait_queue'[v], u)
                                     <=> Contains(wait_queue[v], u) \/ (v = f /\ u = runtsk)
    BY <1>0, <1>2, WobjMakeWaitKeeps, RunningWaitsNowhere
  <2>2. got' = {} /\ UNCHANGED <<flgexist, flgptn>>
    BY <1>2 DEF NothingSet
  <2>3. /\ asked \in [TASK -> COND \cup {NoCond}]
        /\ asked[runtsk] = c /\ \A u \in TASK \ {runtsk} : asked[u] = winfo[u]
    BY <2>1, <1>0
  <2> HIDE DEF asked
  <2>4. ASSUME NEW g \in FLG, NEW u \in TASK, Contains(wait_queue'[g], u)
        PROVE  g \in flgexist' /\ asked[u] \in COND /\ ~Met(flgptn'[g], asked[u])
    <3>1. CASE Contains(wait_queue[g], u)
      <4>1. u # runtsk
        BY <3>1, <2>1 DEF FLG
      <4> QED
        BY <4>1, <3>1, <2>2, <2>3 DEF FlgInv, WaitsUnmet
    <3>2. CASE g = f /\ u = runtsk
      BY <3>2, <2>2, <2>3, <1>0, <1>2 DEF MayAsk
    <3> QED
      BY <3>1, <3>2, <2>1, <2>4 DEF FLG
  <2>5. OneAtMost'
    <3> SUFFICES ASSUME NEW g \in FLG \ TaWmul, NEW t \in TASK, NEW u \in TASK,
                        Contains(wait_queue'[g], t), Contains(wait_queue'[g], u)
                 PROVE  t = u
      BY DEF OneAtMost
    <3>1. CASE g # f
      BY <3>1, <2>1 DEF FLG, FlgInv, OneAtMost
    <3>2. CASE g = f
      <4>1. wait_queue[f] = <<>>
        BY <3>2, <1>0 DEF MayAsk
      <4>2. \A x \in TASK : ~Contains(wait_queue[f], x)
        BY <4>1 DEF Contains
      <4> QED
        BY <3>2, <4>2, <2>1 DEF FLG
    <3> QED
      BY <3>1, <3>2
  <2>6. WinfoScope(asked)
    BY <1>2 DEF asked
  <2>7. FlgInv'
    BY <2>1, <2>2, <2>3, <2>4, <2>5, <2>6, <1>0, FlgInvNext
  <2> QED
    BY <2>2, <2>7, NobodyServed DEF FlgStepOK
<1> QED
  BY <1>1, <1>2 DEF WaiFlg


\* init_wait_queue of ini_flg and del_flg
LEMMA FlagCleared ==
    ASSUME FlgInv, NEW f \in FLG, NEW k, SameK(InitWaitQueue(FState, f), k), FCommit(k),
           UNCHANGED restVars
    PROVE  /\ IInv' /\ WaitInv' /\ WinfoScope(winfo)
           /\ \A t \in TASK : ~Contains(wait_queue'[f], t)
           /\ \A g \in FLG, t \in TASK : Contains(wait_queue'[g], t) => Contains(wait_queue[g], t)
<1> DEFINE a == FState
           i == InitWaitQueue(a, f)
<1>1. /\ IInv /\ WaitInv /\ f \in WQUEUE /\ KInv(a, {})
      /\ a.ready = ready /\ a.tstat = tstat /\ a.wait_queue = wait_queue
      /\ SameK(i, k) /\ Commit(k) /\ WinfoScope(winfo)
  BY FStateInv, FStateFields DEF FlgInv, FLG, FCommit
<1> HIDE DEF a
<1>2. QueueReleased(a, i, {}, f)
  BY <1>1, InitWaitQueueKeeps
<1> HIDE DEF i
<1>3. KInv(i, {}) /\ Advances(a, i) /\ i.wait_queue[f] = <<>>
  BY <1>2 DEF QueueReleased
<1>4. KInv(k, {}) /\ Advances(i, k)
  BY <1>1, <1>3, SameKKeeps
<1>5. Advances(a, k) /\ k.wait_queue = i.wait_queue
  BY <1>1, <1>3, <1>4, AdvancesTransitive DEF SameK
<1>6. IInv' /\ WaitInv'
  BY <1>1, <1>4, <1>5, AdvanceKeeps
<1>7. wait_queue' = k.wait_queue
  BY <1>1 DEF Commit
<1>8. \A t \in TASK : ~Contains(wait_queue'[f], t)
  BY <1>3, <1>5, <1>7 DEF Contains
<1>9. \A g \in FLG, t \in TASK : Contains(wait_queue'[g], t) => Contains(wait_queue[g], t)
  BY <1>1, <1>5, <1>7 DEF Advances, FLG
<1> QED
  BY <1>1, <1>6, <1>8, <1>9

\* What the fields of the event flag are after init_wait_queue
LEMMA FlagClearedFields ==
    ASSUME FlgInv, NEW f \in FLG
    PROVE  LET i == InitWaitQueue(FState, f)
           IN  /\ KFields \subseteq DOMAIN i /\ FFields \subseteq DOMAIN i
               /\ i.flgptn = flgptn /\ i.got = {}
<1> DEFINE a == FState
           i == InitWaitQueue(a, f)
<1>1. /\ KInv(a, {}) /\ f \in WQUEUE /\ KFields \subseteq DOMAIN a /\ FFields \subseteq DOMAIN a
      /\ a.flgptn = flgptn /\ a.got = {}
  BY FStateInv, FStateFields DEF FlgInv, FLG
<1> HIDE DEF a
<1>2. QueueReleased(a, i, {}, f)
  BY <1>1, InitWaitQueueKeeps
<1> HIDE DEF i
<1>3. DOMAIN i = DOMAIN a /\ \A x \in DOMAIN a \ KFields : i[x] = a[x]
  BY <1>2 DEF QueueReleased, Advances
<1>4. FFields \subseteq DOMAIN a \ KFields
  BY <1>1 DEF FFields, KFields
<1>5. i.flgptn = flgptn /\ i.got = {}
  BY <1>1, <1>3, <1>4 DEF FFields
<1> QED
  BY <1>1, <1>3, <1>5 DEF i, a

\* ini_flg
LEMMA IniFlgOK ==
    ASSUME FlgAssumption, FlgInv, NEW f \in FLG, IniFlg(f)
    PROVE  FlgStepOK
<1> DEFINE i == InitWaitQueue(FState, f)
           k == [i EXCEPT !.flgptn[f] = IflgPtn[f]]
<1>0. /\ f \in flgexist /\ flgexist \in SUBSET FLG /\ FCommit(k) /\ UNCHANGED restVars
      /\ UNCHANGED flgexist /\ IflgPtn[f] \in SUBSET BITS /\ flgptn \in [FLG -> SUBSET BITS]
  BY DEF IniFlg, FlgInv, FlgAssumption
<1>1. KFields \subseteq DOMAIN i /\ FFields \subseteq DOMAIN i /\ i.flgptn = flgptn /\ i.got = {}
  BY FlagClearedFields
<1>2. i = InitWaitQueue(FState, f)
  OBVIOUS
<1> HIDE DEF i
<1>3. SameK(i, k) /\ k.got = {} /\ k.flgptn = [flgptn EXCEPT ![f] = IflgPtn[f]]
  BY <1>1, PatternFields
<1> HIDE DEF k
<1>4. /\ IInv' /\ WaitInv' /\ WinfoScope(winfo)
      /\ \A t \in TASK : ~Contains(wait_queue'[f], t)
      /\ \A g \in FLG, t \in TASK : Contains(wait_queue'[g], t) => Contains(wait_queue[g], t)
  <2>1. SameK(InitWaitQueue(FState, f), k)
    BY <1>2, <1>3
  <2> QED
    BY <2>1, <1>0, FlagCleared
<1>5. got' = {} /\ flgptn' = [flgptn EXCEPT ![f] = IflgPtn[f]]
  BY <1>0, <1>3 DEF FCommit
<1>6. flgptn' \in [FLG -> SUBSET BITS] /\ \A g \in FLG \ {f} : flgptn'[g] = flgptn[g]
  BY <1>0, <1>5
<1>7. \A g \in FLG, t \in TASK : Contains(wait_queue'[g], t) =>
          Contains(wait_queue[g], t) /\ g \in flgexist' /\ flgptn'[g] \subseteq flgptn[g]
  BY <1>0, <1>4, <1>6 DEF FlgInv, WaitsUnmet
<1>8. FlgInv'
  BY <1>0, <1>4, <1>6, <1>7, NobodyEnters
<1> QED
  BY <1>5, <1>8, NobodyServed DEF FlgStepOK

\* del_flg
LEMMA DelFlgOK ==
    ASSUME FlgInv, NEW f \in FLG, DelFlg(f)
    PROVE  FlgStepOK
<1> DEFINE k == InitWaitQueue(FState, f)
<1>0. /\ flgexist \in SUBSET FLG /\ FCommit(k) /\ UNCHANGED restVars
      /\ flgexist' = flgexist \ {f} /\ flgptn \in [FLG -> SUBSET BITS]
  BY DEF DelFlg, FlgInv
<1>1. k.flgptn = flgptn /\ k.got = {}
  BY FlagClearedFields
<1>2. SameK(k, k)
  BY DEF SameK
<1>3. /\ IInv' /\ WaitInv' /\ WinfoScope(winfo)
      /\ \A t \in TASK : ~Contains(wait_queue'[f], t)
      /\ \A g \in FLG, t \in TASK : Contains(wait_queue'[g], t) => Contains(wait_queue[g], t)
  BY <1>0, <1>2, FlagCleared
<1> HIDE DEF k
<1>4. got' = {} /\ flgptn' = flgptn
  BY <1>0, <1>1 DEF FCommit
<1>5. \A g \in FLG, t \in TASK : Contains(wait_queue'[g], t) =>
          Contains(wait_queue[g], t) /\ g \in flgexist' /\ flgptn'[g] \subseteq flgptn[g]
  BY <1>0, <1>3, <1>4 DEF FlgInv, WaitsUnmet
<1>6. FlgInv'
  BY <1>0, <1>3, <1>4, <1>5, NobodyEnters
<1> QED
  BY <1>4, <1>6, NobodyServed DEF FlgStepOK

\* acre_flg: nobody can wait for the flag yet.
LEMMA AcreFlgOK ==
    ASSUME FlgAssumption, FlgInv, NEW f \in FLG, AcreFlg(f)
    PROVE  FlgStepOK
<1>0. /\ IInv /\ WaitInv /\ flgexist \in SUBSET FLG /\ f \notin flgexist
      /\ flgexist' = flgexist \cup {f} /\ flgptn' = [flgptn EXCEPT ![f] = IflgPtn[f]]
      /\ got' = {} /\ UNCHANGED <<vars, wait_queue, winfo>> /\ UNCHANGED <<vars, wait_queue>>
      /\ IflgPtn[f] \in SUBSET BITS /\ flgptn \in [FLG -> SUBSET BITS]
  BY DEF AcreFlg, FlgInv, FlgAssumption
<1>1. IInv' /\ WaitInv' /\ WinfoScope(winfo)
  BY <1>0, NothingMoves, WinfoStays
<1>2. flgptn' \in [FLG -> SUBSET BITS] /\ \A g \in FLG \ {f} : flgptn'[g] = flgptn[g]
  BY <1>0
<1>3. \A t \in TASK : ~Contains(wait_queue[f], t)
  BY <1>0 DEF FlgInv, WaitsUnmet
<1>4. \A g \in FLG, t \in TASK : Contains(wait_queue'[g], t) =>
          Contains(wait_queue[g], t) /\ g \in flgexist' /\ flgptn'[g] \subseteq flgptn[g]
  BY <1>0, <1>2, <1>3 DEF FlgInv, WaitsUnmet
<1>5. FlgInv'
  BY <1>0, <1>1, <1>2, <1>4, NobodyEnters
<1> QED
  BY <1>0, <1>5, NobodyServed DEF FlgStepOK

\* The other steps: a task that waits is released, ended or given another
\* priority, or the scheduler takes a step.
LEMMA FlgOtherOK ==
    ASSUME FlgInv, FlgOtherStep
    PROVE  FlgStepOK
<1>0. /\ IInv /\ WaitInv /\ flgexist \in SUBSET FLG /\ flgptn \in [FLG -> SUBSET BITS]
      /\ QueueOtherStep /\ WinfoScope(winfo) /\ got' = {} /\ UNCHANGED <<flgexist, flgptn>>
  BY DEF FlgInv, FlgOtherStep, QueueOtherStep, NothingSet
<1>1. /\ IInv' /\ WaitInv'
      /\ \A w \in WQUEUE, u \in TASK : Contains(wait_queue'[w], u) => Contains(wait_queue[w], u)
  BY <1>0, OtherStepQueues
<1>2. \A g \in FLG, t \in TASK : Contains(wait_queue'[g], t) =>
          Contains(wait_queue[g], t) /\ g \in flgexist' /\ flgptn'[g] \subseteq flgptn[g]
  BY <1>0, <1>1 DEF FlgInv, WaitsUnmet, FLG
<1>3. FlgInv'
  BY <1>0, <1>1, <1>2, NobodyEnters
<1> QED
  BY <1>0, <1>3, NobodyServed DEF FlgStepOK

\* Every step of the event flags keeps the invariant and serves in turn.
LEMMA FlgStep ==
    ASSUME FlgAssumption, FlgInv, FlgNext
    PROVE  FlgStepOK
<1>1. ASSUME NEW f \in FLG, NEW c \in COND, PolFlg(f, c)
      PROVE  FlgStepOK
  <2>1. nest = 0 /\ TakePattern(f, c)
    BY <1>1 DEF PolFlg, TskCtxUnl
  <2> QED
    BY <2>1, TakePatternOK
<1> QED
  BY <1>1, FlgOtherOK, SetFlgOK, ClrFlgOK, WaiFlgOK, IniFlgOK, DelFlgOK, AcreFlgOK
     DEF FlgNext, FlgService

\* At first nobody waits.
LEMMA FlgInitOK ==
    ASSUME FlgAssumption, FlgInit
    PROVE  FlgInv
<1>1. IInv /\ WaitInv
  BY InitWaitInv DEF FlgInit, FLG
<1>2. /\ flgexist \in SUBSET FLG /\ flgptn \in [FLG -> SUBSET BITS]
      /\ winfo = [t \in TASK |-> NoCond]
      /\ \A f \in FLG : wait_queue[f] = <<>>
  BY DEF FlgInit, FlgAssumption
<1>3. \A f \in FLG, t \in TASK : ~Contains(wait_queue[f], t)
  BY <1>2 DEF Contains
<1> QED
  BY <1>1, <1>2, <1>3 DEF FlgInv, WaitsUnmet, OneAtMost

\* A step that changes nothing keeps the invariant.
LEMMA FlgStutter ==
    ASSUME FlgInv, UNCHANGED flgAllVars
    PROVE  FlgInv'
<1>1. /\ UNCHANGED <<vars, wait_queue>> /\ UNCHANGED <<winfo, wait_queue>>
      /\ UNCHANGED <<flgexist, flgptn, wait_queue>>
  BY DEF flgAllVars, flgVars
<1>2. IInv' /\ WaitInv' /\ WinfoScope(winfo)
  BY <1>1, NothingMoves, WinfoStays DEF FlgInv
<1>3. flgexist \in SUBSET FLG /\ flgptn \in [FLG -> SUBSET BITS]
  BY DEF FlgInv
<1>4. \A g \in FLG, t \in TASK : Contains(wait_queue'[g], t) =>
          Contains(wait_queue[g], t) /\ g \in flgexist' /\ flgptn'[g] \subseteq flgptn[g]
  BY <1>1 DEF FlgInv, WaitsUnmet
<1> QED
  BY <1>1, <1>2, <1>3, <1>4, NobodyEnters

\* The invariant of the event flags, for any tasks, flags and patterns.
THEOREM FlgInvariance == ASSUME FlgAssumption PROVE FlgSpec => []FlgInv
<1>1. FlgInit => FlgInv
  BY FlgInitOK
<1>2. FlgInv /\ [FlgNext]_flgAllVars => FlgInv'
  BY FlgStep, FlgStutter DEF FlgStepOK
<1> QED
  BY <1>1, <1>2, PTL DEF FlgSpec

\* No task waits for a condition that the pattern meets, or for a flag that has
\* been deleted; without TA_WMUL no second task waits; and the promises of the
\* scheduler hold while tasks wait for bits.
LEMMA FlgCorrect == FlgInv => FlagsConsistent
<1>1. SUFFICES ASSUME FlgInv
               PROVE  FlagsConsistent
  OBVIOUS
<1>2. /\ TypeOK /\ WaitsConsistent /\ wait_queue \in [FLG -> Seq(TASK)]
      /\ \A f \in FLG : Distinct(wait_queue[f])
  BY <1>1, WaitsAreConsistent DEF FlgInv, WaitInv, QueuesHold, FLG
<1>3. \A f \in FLG : /\ DOMAIN wait_queue[f] = 1 .. Len(wait_queue[f])
                     /\ \A i \in 1 .. Len(wait_queue[f]) :
                           wait_queue[f][i] \in TASK /\ Contains(wait_queue[f], wait_queue[f][i])
  BY <1>2 DEF Contains
<1>4. NobodyWaitsMet
  BY <1>1, <1>3 DEF NobodyWaitsMet, FlgInv, WaitsUnmet
<1>5. ASSUME NEW f \in FLG \ TaWmul
      PROVE  Len(wait_queue[f]) <= 1
  <2> DEFINE q == wait_queue[f]
  <2>1. Len(q) \in Nat /\ Distinct(q) /\ \A i \in 1 .. Len(q) : q[i] \in TASK /\ Contains(q, q[i])
    BY <1>2, <1>3
  <2>2. \A t, u \in TASK : Contains(q, t) /\ Contains(q, u) => t = u
    BY <1>1 DEF FlgInv, OneAtMost
  <2> HIDE DEF q
  <2>3. ASSUME Len(q) > 1
        PROVE  FALSE
    <3>1. 1 \in 1 .. Len(q) /\ 2 \in 1 .. Len(q)
      BY <2>1, <2>3
    <3>2. q[1] = q[2]
      BY <3>1, <2>1, <2>2
    <3> QED
      BY <3>1, <3>2, <2>1 DEF Distinct
  <2> QED
    BY <2>1, <2>3 DEF q
<1>6. NoCond \notin COND
  BY DEF NoCond, COND
<1>7. \A t \in TASK : winfo[t] \in COND <=> \E f \in FLG : Contains(wait_queue[f], t)
  BY <1>1, <1>6 DEF FlgInv, WaitsUnmet
<1> QED
  BY <1>1, <1>2, <1>4, <1>5, <1>7 DEF FlagsConsistent, FlgTypeOK, OneWaits, FlgInv

\* For any tasks, flags and patterns: who is served by set_flg has seen a pattern
\* that meets its condition, and the bits of a TA_CLR flag are seen by the first
\* task in the queue whose condition they meet, and by no other.
THEOREM FlgServedInTurn == ASSUME FlgAssumption PROVE FlgSpec => ServedInTurn
<1>1. FlgInv /\ [FlgNext]_flgAllVars => [ServesInTurn]_flgAllVars
  BY FlgStep DEF FlgStepOK
<1> QED
  BY <1>1, FlgInvariance, PTL DEF FlgSpec, ServedInTurn

-----------------------------------------------------------------------------
(***************************************************************************)
(* Pools, semaphores and event flags side by side (MCObjects)              *)
(***************************************************************************)

\* The inductive invariant: that of the objects in use
ObjectsInv ==
    /\ part \in {"mpf", "sem", "flg"}
    /\ part = "mpf" => MpfQInv
    /\ part = "sem" => SemInv
    /\ part = "flg" => FlgInv

objectsVars == <<mpfAllVars, part, semOnly, flgOnly>>

\* One part is explored and starts in order.
LEMMA ObjectsInit == MCInit => ObjectsInv
BY MpfQInit, SemInitOK, FlgInitOK, ObjectsAssumption DEF MCInit, ObjectsInv

\* Every step keeps the invariant of the part it is taken in.
LEMMA ObjectsStep == ObjectsInv /\ [MCNext]_objectsVars => ObjectsInv'
<1>1. ASSUME ObjectsInv, StepOfPools
      PROVE  ObjectsInv'
  BY <1>1, MpfQStep DEF ObjectsInv, StepOfPools
<1>2. ASSUME ObjectsInv, StepOfSemaphores
      PROVE  ObjectsInv'
  BY <1>2, SemStep, ObjectsAssumption DEF ObjectsInv, StepOfSemaphores, SemStepOK
<1>3. ASSUME ObjectsInv, StepOfFlags
      PROVE  ObjectsInv'
  BY <1>3, FlgStep, ObjectsAssumption DEF ObjectsInv, StepOfFlags, FlgStepOK
<1>4. ASSUME ObjectsInv, UNCHANGED objectsVars
      PROVE  ObjectsInv'
  <2>1. /\ part' = part /\ UNCHANGED mpfAllVars /\ UNCHANGED semAllVars
        /\ UNCHANGED flgAllVars
    BY <1>4 DEF objectsVars, mpfAllVars, mpfVars, semAllVars, semVars, flgAllVars, flgVars,
                semOnly, flgOnly
  <2> QED
    BY <1>4, <2>1, MpfStutter, SemStutter, FlgStutter DEF ObjectsInv
<1> QED
  BY <1>1, <1>2, <1>3, <1>4 DEF MCNext

\* The invariant of whichever objects are in use
THEOREM ObjectsInvariance == MCSpec => []ObjectsInv
BY ObjectsInit, ObjectsStep, PTL DEF MCSpec, objectsVars

\* For any tasks, pools, semaphores and event flags: the variables keep their types
\* and the scheduler its promises while tasks wait for blocks, units and bits. No
\* task waits for a condition that the pattern of an event flag meets, or for a
\* flag that has been deleted, and without TA_WMUL no second task waits.
THEOREM ObjectsAlwaysConsistent == MCSpec => []ObjectsConsistent
<1>1. ObjectsInv => ObjectsConsistent
  BY MpfCorrect, SemCorrect, FlgCorrect DEF ObjectsInv, ObjectsConsistent
<1> QED
  BY <1>1, ObjectsInvariance, PTL

\* For any tasks, pools and semaphores, sizes and counts, pools and semaphores
\* implement CountedResource: a unit or block given back serves the first waiting
\* task or is free, never both; none is lost, and no task waits while one is free.
THEOREM ObjectsAreCounted == MCSpec => AreCountedResources
<1>1. MCInit => /\ part = "mpf" => MpfResource!ResourceInit
                /\ part = "sem" => SemResource!ResourceInit
  BY MpfQInit, SemInitOK, ObjectsAssumption DEF MCInit
<1>2. ObjectsInv /\ [MCNext]_objectsVars =>
          [part = "mpf" => MpfResource!ResourceNext]_mpfVars
  <2>1. UNCHANGED objectsVars => UNCHANGED mpfVars
    BY DEF objectsVars, mpfAllVars
  <2> QED
    BY <2>1, MpfQStep
       DEF ObjectsInv, MCNext, StepOfPools, StepOfSemaphores, StepOfFlags
<1>3. ObjectsInv /\ [MCNext]_objectsVars =>
          [part = "sem" => SemResource!ResourceNext]_<<semOnly, wait_queue>>
  <2>1. UNCHANGED objectsVars => UNCHANGED <<semOnly, wait_queue>>
    BY DEF objectsVars, mpfAllVars, mpfVars
  <2> QED
    BY <2>1, SemStep, ObjectsAssumption
       DEF ObjectsInv, MCNext, StepOfPools, StepOfSemaphores, StepOfFlags, SemStepOK
<1> QED
  BY <1>1, <1>2, <1>3, ObjectsInvariance, PTL DEF MCSpec, objectsVars, AreCountedResources

\* For any tasks, flags and patterns: who is served by set_flg has seen a pattern
\* that meets its condition, and the bits of a TA_CLR flag are seen by the first
\* task in the queue whose condition they meet, and by no other.
THEOREM FlagsAlwaysServeInTurn == MCSpec => FlagsServeInTurn
<1>1. ObjectsInv /\ [MCNext]_objectsVars =>
          [part = "flg" => ServesInTurn]_<<flgOnly, wait_queue>>
  <2>1. UNCHANGED objectsVars => UNCHANGED <<flgOnly, wait_queue>>
    BY DEF objectsVars, mpfAllVars, mpfVars
  <2>2. FlgStepOK => ServesInTurn \/ UNCHANGED flgAllVars
    BY DEF FlgStepOK
  <2>3. UNCHANGED flgAllVars => UNCHANGED <<flgOnly, wait_queue>>
    BY DEF flgAllVars, flgVars, flgOnly
  <2> QED
    BY <2>1, <2>2, <2>3, FlgStep, ObjectsAssumption
       DEF ObjectsInv, MCNext, StepOfPools, StepOfSemaphores, StepOfFlags
<1> QED
  BY <1>1, ObjectsInvariance, PTL DEF MCSpec, objectsVars, FlagsServeInTurn

-----------------------------------------------------------------------------
(***************************************************************************)
(* Mutexes                                                                 *)
(***************************************************************************)


MFields == KFields \cup {"loctsk", "mutex_queue"}

\* The locker of a mutex, its list and its wait queue agree, and no task waits
\* for a mutex it holds.
HoldersMatch(k, X, D) ==
    /\ \A m \in MTX \ D, t \in TASK : k.loctsk[m] = t <=> Holds(k, t, m)
    /\ \A m \in D, t \in TASK : ~Holds(k, t, m)
    /\ \A m \in MTX \ D : k.loctsk[m] = NoTask => k.wait_queue[m] = <<>>
    /\ \A m \in MTX \ D, t \in TASK : k.loctsk[m] = t => ~Contains(k.wait_queue[m], t)
    /\ \A t \in TASK : k.tstat[t] = {} \/ t \in X => \A m \in MTX : ~Holds(k, t, m)

\* The priority of t is one of b and the ceilings of its mutexes, the highest.
IsCurrent(k, t, b) ==
    /\ k.priority[t] <= b
    /\ \A m \in CeilMtx : Holds(k, t, m) => k.priority[t] <= CeilPri[m]
    /\ k.priority[t] = b \/ \E m \in CeilMtx : Holds(k, t, m) /\ k.priority[t] = CeilPri[m]

Respected(k, bp) ==
    \A t \in TASK, m \in CeilMtx :
        Holds(k, t, m) \/ Contains(k.wait_queue[m], t) => CeilPri[m] <= bp[t]

MInv(k, bp, X, D) ==
    /\ MFields \subseteq DOMAIN k
    /\ k.loctsk \in [MTX -> TASK \cup {NoTask}]
    /\ k.mutex_queue \in [TASK -> Seq(MTX)]
    /\ \A t \in TASK : Distinct(k.mutex_queue[t])
    /\ HoldersMatch(k, X, D)
    /\ \A t \in TASK \ X : k.tstat[t] # {} => IsCurrent(k, t, bp[t])
    /\ Respected(k, bp)

\* The inductive invariant
MtxInv ==
    /\ IInv /\ WaitInv
    /\ MInv(MState, bpriority, {}, {})
    /\ mtxexist \in SUBSET MTX
    /\ \A m \in MTX \ mtxexist : loctsk[m] = NoTask
    /\ \A t \in TASK : Dormant(t) => bpriority[t] = ipriority[t]


-----------------------------------------------------------------------------
\* Lists of mutexes, ceilings and records

\* A mutex put at the head of a list
LEMMA PrependKeeps ==
    ASSUME NEW A, NEW q \in Seq(A), Distinct(q), NEW t \in A, ~Contains(q, t)
    PROVE  LET n == <<t>> \o q
           IN  /\ n \in Seq(A) /\ Distinct(n)
               /\ \A u : Contains(n, u) <=> Contains(q, u) \/ u = t
<1> DEFINE n == <<t>> \o q
<1>1. <<t>> \in Seq(A) /\ Len(<<t>>) = 1 /\ <<t>>[1] = t
  OBVIOUS
<1>2. /\ n \in Seq(A) /\ Len(n) = Len(q) + 1 /\ n[1] = t
      /\ \A i \in 1 .. Len(q) : n[i + 1] = q[i] /\ i + 1 \in 1 .. Len(n)
      /\ 1 \in 1 .. Len(n) /\ Len(q) \in Nat
  BY <1>1, ConcatFacts
<1> HIDE DEF n
<1>3. ASSUME NEW i \in 1 .. Len(n), i # 1
      PROVE  i - 1 \in 1 .. Len(q) /\ n[i] = q[i - 1]
  <2>1. i - 1 \in 1 .. Len(q) /\ (i - 1) + 1 = i
    BY <1>2, <1>3
  <2> QED
    BY <2>1, <1>2
<1>4. Distinct(n)
  <2> SUFFICES ASSUME NEW i \in 1 .. Len(n), NEW j \in 1 .. Len(n), n[i] = n[j]
               PROVE  i = j
    BY DEF Distinct
  <2>1. \A x \in 1 .. Len(q) : q[x] # t
    BY DEF Contains
  <2>2. CASE i = 1 \/ j = 1
    <3>1. ASSUME NEW x \in 1 .. Len(n), x # 1
          PROVE  n[x] # n[1]
      <4>1. x - 1 \in 1 .. Len(q) /\ n[x] = q[x - 1]
        BY <3>1, <1>3
      <4> QED
        BY <4>1, <2>1, <1>2
    <3>2. n[i] = n[j]
      OBVIOUS
    <3>3. CASE i = 1 /\ j # 1
      BY <3>1, <3>2, <3>3
    <3>4. CASE i # 1 /\ j = 1
      BY <3>1, <3>2, <3>4
    <3> QED
      BY <2>2, <3>3, <3>4
  <2>3. CASE i # 1 /\ j # 1
    <3>1. i - 1 = j - 1
      BY <2>3, <1>3 DEF Distinct
    <3> QED
      BY <3>1
  <2> QED
    BY <2>2, <2>3
<1>5. ASSUME NEW u
      PROVE  Contains(n, u) <=> Contains(q, u) \/ u = t
  <2>1. Contains(n, u) => Contains(q, u) \/ u = t
    BY <1>2, <1>3 DEF Contains
  <2>2. Contains(q, u) => Contains(n, u)
    <3>1. ASSUME NEW i \in 1 .. Len(q), q[i] = u
          PROVE  i + 1 \in 1 .. Len(n) /\ n[i + 1] = u
      BY <3>1, <1>2
    <3> QED
      BY <3>1 DEF Contains
  <2>3. Contains(n, t)
    BY <1>2 DEF Contains
  <2> QED
    BY <2>1, <2>2, <2>3
<1> QED
  BY <1>2, <1>4, <1>5 DEF n

\* Ceilings and priorities are numbers.
LEMMA CeilingsAreNumbers ==
    /\ CeilMtx \subseteq MTX /\ CeilMtx \subseteq TaTpri /\ PRI \subseteq Nat
    /\ \A m \in CeilMtx : CeilPri[m] \in PRI /\ CeilPri[m] \in Nat
  BY CeilPriAssumption, MtxAssumption, TaTpriAssumption DEF MTX, PRI, CeilMtx

\* The recalculated priority is the one IsCurrent describes.
LEMMA CalcPriorityIsCurrent ==
    ASSUME NEW k, NEW t \in TASK, bpriority[t] \in PRI
    PROVE  LET p == CalcPriority(k, t)
           IN  /\ p \in PRI /\ p <= bpriority[t]
               /\ \A m \in CeilMtx : Holds(k, t, m) => p <= CeilPri[m]
               /\ p = bpriority[t] \/ \E m \in CeilMtx : Holds(k, t, m) /\ p = CeilPri[m]
<1> DEFINE S == {bpriority[t]} \cup {CeilPri[m] : m \in {c \in CeilMtx : Holds(k, t, c)}}
<1>1. S \in SUBSET Nat /\ S # {}
  BY CeilingsAreNumbers
<1>2. PICK x \in S : \A y \in S : x <= y
  BY <1>1, LeastNumber
<1>3. Min(S) \in S /\ \A y \in S : Min(S) <= y
  <2> HIDE DEF S
  <2> QED
    BY <1>2 DEF Min
<1>4. CalcPriority(k, t) = Min(S)
  BY DEF CalcPriority
<1> QED
  BY <1>3, <1>4, CeilingsAreNumbers

-----------------------------------------------------------------------------
\* mutex_release

\* The mutex m has passed to the first task waiting for it, which waits no
\* longer, or is free.
HandedOver(k, n, bp, X, D, m) ==
    /\ KInv(n, X) /\ Advances(k, n) /\ MInv(n, bp, X, D \ {m})
    /\ n.loctsk = [k.loctsk EXCEPT ![m] = IF k.wait_queue[m] = <<>> THEN NoTask
                                                                   ELSE Head(k.wait_queue[m])]
    /\ \A v \in MTX \ {m} : n.wait_queue[v] = k.wait_queue[v]
    /\ k.wait_queue[m] # <<>> => "WOBJ" \notin n.tstat[Head(k.wait_queue[m])]

\* The lists and priorities are right again after a mutex in no list is handed over.
LEMMA ReleaseKeeps ==
    ASSUME NEW k, NEW X, NEW D, NEW bp \in [TASK -> PRI], NEW m \in D, m \in MTX,
           KInv(k, X), MInv(k, bp, X, D)
    PROVE  HandedOver(k, Release(k, m), bp, X, D, m)
<1> DEFINE q == k.wait_queue[m]
           h == Head(q)
           n == Release(k, m)
<1>1. /\ MFields \subseteq DOMAIN k /\ KFields \subseteq DOMAIN k
      /\ k.loctsk \in [MTX -> TASK \cup {NoTask}] /\ k.mutex_queue \in [TASK -> Seq(MTX)]
      /\ \A t \in TASK : Distinct(k.mutex_queue[t])
      /\ HoldersMatch(k, X, D)
      /\ \A t \in TASK \ X : k.tstat[t] # {} => IsCurrent(k, t, bp[t])
      /\ Respected(k, bp)
  BY DEF MInv, MFields
<1>2. /\ k.tstat \in [TASK -> TSTAT] /\ k.priority \in [TASK -> PRI]
      /\ QueuesHold(k.wait_queue, k.tstat, X) /\ MTX = WQUEUE
  BY DEF KInv, MTX
<1>3. CASE q = <<>>
  <2>1. /\ DOMAIN n = DOMAIN k /\ n.loctsk = [k.loctsk EXCEPT ![m] = NoTask]
        /\ n.ready = k.ready /\ n.tstat = k.tstat /\ n.priority = k.priority
        /\ n.tmevt = k.tmevt /\ n.wait_queue = k.wait_queue /\ n.dspreq = k.dspreq
        /\ n.mutex_queue = k.mutex_queue
    <3>1. q = <<>> /\ MFields \subseteq DOMAIN k
      BY <1>1, <1>3
    <3> QED
      BY ONLY <3>1, Zenon DEF Release, MFields, KFields
  <2> HIDE DEF n
  <2>2. KInv(n, X) /\ Advances(k, n)
    BY <2>1, <1>1, SameKFields DEF Advances
  <2>3. \A t \in TASK, c \in MTX : Holds(n, t, c) <=> Holds(k, t, c)
    BY <2>1 DEF Holds
  <2>4. HoldersMatch(n, X, D \ {m})
    <3>1. ASSUME NEW c \in MTX \ (D \ {m}), NEW t \in TASK
          PROVE  n.loctsk[c] = t <=> Holds(n, t, c)
      <4>1. CASE c = m
        <5>1. n.loctsk[c] = NoTask
          BY <4>1, <2>1, <1>1
        <5>2. ~Holds(n, t, c)
          BY <4>1, <2>3, <1>1 DEF HoldersMatch
        <5> QED
          BY <5>1, <5>2, NoTaskAssumption
      <4>2. CASE c # m
        BY <4>2, <2>1, <2>3, <1>1 DEF HoldersMatch
      <4> QED
        BY <4>1, <4>2
    <3>2. \A c \in D \ {m}, t \in TASK : ~Holds(n, t, c)
      BY <2>1, <1>1 DEF HoldersMatch, Holds
    <3>3. \A c \in MTX \ (D \ {m}) : n.loctsk[c] = NoTask => n.wait_queue[c] = <<>>
      BY <2>1, <1>1, <1>3 DEF HoldersMatch
    <3>4. \A c \in MTX \ (D \ {m}), t \in TASK : n.loctsk[c] = t => ~Contains(n.wait_queue[c], t)
      BY <2>1, <1>1, NoTaskAssumption DEF HoldersMatch
    <3>5. \A t \in TASK : n.tstat[t] = {} \/ t \in X => \A c \in MTX : ~Holds(n, t, c)
      BY <2>1, <2>3, <1>1 DEF HoldersMatch
    <3> QED
      BY <3>1, <3>2, <3>3, <3>4, <3>5 DEF HoldersMatch
  <2>5. \A t \in TASK \ X : n.tstat[t] # {} => IsCurrent(n, t, bp[t])
    BY <2>1, <2>3, <1>1, CeilingsAreNumbers DEF IsCurrent
  <2>6. Respected(n, bp)
    BY <2>1, <2>3, <1>1, CeilingsAreNumbers DEF Respected
  <2>7. MInv(n, bp, X, D \ {m})
    BY <2>1, <2>4, <2>5, <2>6, <1>1 DEF MInv
  <2> QED
    BY <2>1, <2>2, <2>7, <1>3 DEF HandedOver, n
<1>4. CASE q # <<>>
  <2> DEFINE p == IF m \in CeilMtx THEN Min({k.priority[h], CeilPri[m]}) ELSE k.priority[h]
             e == [k EXCEPT !.loctsk[m] = h, !.mutex_queue[h] = Append(@, m),
                            !.priority[h] = IF m \in CeilMtx THEN Min({@, CeilPri[m]}) ELSE @]
  <2>1. /\ DOMAIN e = DOMAIN k /\ e.loctsk = [k.loctsk EXCEPT ![m] = h]
        /\ e.ready = k.ready /\ e.tstat = k.tstat
        /\ e.priority = [k.priority EXCEPT ![h] = IF m \in CeilMtx THEN Min({@, CeilPri[m]}) ELSE @]
        /\ e.tmevt = k.tmevt /\ e.wait_queue = k.wait_queue /\ e.dspreq = k.dspreq
        /\ e.mutex_queue = [k.mutex_queue EXCEPT ![h] = Append(@, m)]
    <3>1. MFields \subseteq DOMAIN k
      BY <1>1
    <3> QED
      BY ONLY <3>1, Zenon DEF MFields, KFields
  <2>2. n = WaitRelease(e, h)
    BY <1>4 DEF Release
  <2> HIDE DEF e, n
  <2>3. h \in TASK /\ k.priority[h] \in PRI /\ k.priority[h] \in Nat
    <3>1. q \in Seq(TASK)
      BY <1>2 DEF QueuesHold
    <3>2. h \in TASK
      BY <3>1, <1>4
    <3> QED
      BY <3>2, <1>2, CeilingsAreNumbers
  <2>4. /\ p \in PRI /\ p <= k.priority[h]
        /\ m \in CeilMtx => p <= CeilPri[m] /\ (p = k.priority[h] \/ p = CeilPri[m])
        /\ m \notin CeilMtx => p = k.priority[h]
    <3>1. CASE m \in CeilMtx
      <4> DEFINE S == {k.priority[h], CeilPri[m]}
      <4>1. CeilPri[m] \in PRI /\ CeilPri[m] \in Nat /\ S \in SUBSET Nat /\ S # {}
        BY <3>1, <2>3, CeilingsAreNumbers
      <4>2. PICK x \in S : \A y \in S : x <= y
        BY <4>1, LeastNumber
      <4>3. Min(S) \in S /\ \A y \in S : Min(S) <= y
        <5> HIDE DEF S
        <5> QED
          BY <4>2 DEF Min
      <4> QED
        BY <3>1, <4>1, <4>3, <2>3
    <3>2. CASE m \notin CeilMtx
      BY <3>2, <2>3
    <3> QED
      BY <3>1, <3>2
  <2>5. e.priority = [k.priority EXCEPT ![h] = p]
    BY <2>1
  <2> HIDE DEF p
  <2>6. /\ KInv(e, X) /\ Advances(k, e) /\ h \in TASK \ X /\ Contains(q, h)
        /\ "WAITING" \in e.tstat[h] /\ k.tstat[h] # {}
    <3>1. /\ p \in PRI /\ p <= k.priority[h] /\ m \in WQUEUE /\ k.wait_queue[m] # <<>>
      BY <2>4, <1>2, <1>4
    <3> QED
      BY <3>1, <2>1, <2>5, RaiseHeadKeeps
  <2>7. WaitReleased(e, n, X, h)
    BY <2>2, <2>6, WaitReleaseKeeps
  <2>8. /\ KInv(n, X) /\ Advances(k, n) /\ n.priority = [k.priority EXCEPT ![h] = p]
        /\ n.wait_queue = [w \in WQUEUE |-> Unlinked(k.wait_queue[w], h)]
        /\ "WOBJ" \notin n.tstat[h]
    BY <2>1, <2>5, <2>6, <2>7, AdvancesTransitive DEF WaitReleased
  <2>9. n.loctsk = [k.loctsk EXCEPT ![m] = h] /\ n.mutex_queue = [k.mutex_queue EXCEPT ![h] = Append(@, m)]
    <3>1. "loctsk" \in DOMAIN e \ KFields /\ "mutex_queue" \in DOMAIN e \ KFields
      BY <1>1, <2>1 DEF MFields, KFields
    <3>2. n["loctsk"] = e["loctsk"] /\ n["mutex_queue"] = e["mutex_queue"]
      BY <3>1, <2>7 DEF WaitReleased
    <3> QED
      BY <3>2, <2>1
  <2>10. /\ Append(k.mutex_queue[h], m) \in Seq(MTX) /\ Distinct(Append(k.mutex_queue[h], m))
         /\ \A c : Contains(Append(k.mutex_queue[h], m), c) <=> Contains(k.mutex_queue[h], c) \/ c = m
    <3>1. ~Contains(k.mutex_queue[h], m)
      BY <1>1, <2>3 DEF HoldersMatch, Holds
    <3> QED
      BY <3>1, <1>1, <2>3, AppendKeeps
  <2>11. \A t \in TASK, c \in MTX : Holds(n, t, c) <=> Holds(k, t, c) \/ (t = h /\ c = m)
    BY <2>9, <2>10, <1>1 DEF Holds
  <2>12. \A v \in MTX \ {m} : n.wait_queue[v] = k.wait_queue[v]
    <3> TAKE v \in MTX \ {m}
    <3>1. ~Contains(k.wait_queue[v], h)
      BY <2>3, <2>6, <1>2 DEF QueuesHold
    <3> QED
      BY <3>1, <2>8, <1>2 DEF Unlinked
  <2>13. ~Contains(n.wait_queue[m], h) /\ \A t : Contains(n.wait_queue[m], t) => Contains(q, t)
    <3>1. q \in Seq(TASK) /\ Distinct(q) /\ n.wait_queue[m] = Unlinked(q, h)
      BY <1>2, <2>8 DEF QueuesHold
    <3> QED
      BY <3>1, UnlinkedKeeps
  <2>14. HoldersMatch(n, X, D \ {m})
    <3>1. \A c \in MTX \ (D \ {m}), t \in TASK : n.loctsk[c] = t <=> Holds(n, t, c)
      BY <2>3, <2>9, <2>11, <1>1 DEF HoldersMatch
    <3>2. \A c \in D \ {m}, t \in TASK : ~Holds(n, t, c)
      BY <2>9, <2>10, <1>1, <2>3 DEF HoldersMatch, Holds
    <3>3. \A c \in MTX \ (D \ {m}) : n.loctsk[c] = NoTask => n.wait_queue[c] = <<>>
      BY <2>3, <2>9, <2>12, <1>1, NoTaskAssumption DEF HoldersMatch
    <3>4. \A c \in MTX \ (D \ {m}), t \in TASK : n.loctsk[c] = t => ~Contains(n.wait_queue[c], t)
      BY <2>9, <2>12, <2>13, <1>1 DEF HoldersMatch
    <3>5. \A t \in TASK : n.tstat[t] = {} \/ t \in X => \A c \in MTX : ~Holds(n, t, c)
      BY <2>6, <2>8, <2>11, <1>1 DEF HoldersMatch, Advances
    <3> QED
      BY <3>1, <3>2, <3>3, <3>4, <3>5 DEF HoldersMatch
  <2>15. ASSUME NEW t \in TASK \ X, n.tstat[t] # {}
         PROVE  IsCurrent(n, t, bp[t])
    <3>1. IsCurrent(k, t, bp[t])
      BY <2>8, <2>15, <1>1 DEF Advances
    <3>2. CASE t # h
      BY <3>1, <3>2, <2>8, <2>11, <1>2, CeilingsAreNumbers DEF IsCurrent
    <3>3. CASE t = h
      <4>1. n.priority[t] = p /\ bp[t] \in Nat /\ p \in Nat
        BY <3>3, <2>3, <2>4, <2>8, <1>2, CeilingsAreNumbers
      <4>2. n.priority[t] <= bp[t]
        BY <3>1, <3>3, <4>1, <2>3, <2>4 DEF IsCurrent
      <4>3. \A c \in CeilMtx : Holds(n, t, c) => n.priority[t] <= CeilPri[c]
        BY <3>1, <3>3, <4>1, <2>3, <2>4, <2>11, CeilingsAreNumbers DEF IsCurrent
      <4>4. n.priority[t] = bp[t] \/ \E c \in CeilMtx : Holds(n, t, c) /\ n.priority[t] = CeilPri[c]
        BY <3>1, <3>3, <4>1, <2>4, <2>11, <2>3, CeilingsAreNumbers DEF IsCurrent
      <4> QED
        BY <4>2, <4>3, <4>4 DEF IsCurrent
    <3> QED
      BY <3>2, <3>3
  <2>16. Respected(n, bp)
    <3> SUFFICES ASSUME NEW t \in TASK, NEW c \in CeilMtx,
                        Holds(n, t, c) \/ Contains(n.wait_queue[c], t)
                 PROVE  CeilPri[c] <= bp[t]
      BY DEF Respected
    <3>1. c \in MTX
      BY CeilingsAreNumbers
    <3>2. Holds(k, t, c) \/ Contains(k.wait_queue[c], t)
      BY <3>1, <2>6, <2>11, <2>12, <2>13
    <3> QED
      BY <3>2, <1>1 DEF Respected
  <2>17. MInv(n, bp, X, D \ {m})
    <3>1. MFields \subseteq DOMAIN n
      BY <2>8, <1>1 DEF Advances
    <3>2. n.loctsk \in [MTX -> TASK \cup {NoTask}] /\ n.mutex_queue \in [TASK -> Seq(MTX)]
          /\ \A t \in TASK : Distinct(n.mutex_queue[t])
      BY <2>3, <2>9, <2>10, <1>1
    <3> QED
      BY <3>1, <3>2, <2>14, <2>15, <2>16 DEF MInv
  <2> QED
    BY <2>8, <2>9, <2>12, <2>17, <1>4 DEF HandedOver, n
<1> QED
  BY <1>3, <1>4

-----------------------------------------------------------------------------
\* mutex_release_all, a loop over the list of the ending task

\* The records of the loop: the first is k, each other one follows from the one
\* before it.
MutexLoop(k, q, f) ==
    f = [n \in 0 .. Len(q) |-> IF n = 0 THEN k ELSE Release(f[n - 1], q[n])]

\* There are such records, whatever the record and the mutexes.
LEMMA MutexesReleasedIsDefined ==
    ASSUME NEW k, NEW q, Len(q) \in Nat
    PROVE  \E f : MutexLoop(k, q, f)
<1> USE DEF MutexLoop
<1> DEFINE Loop(f, N) == f = [n \in 0 .. N |-> IF n = 0 THEN k ELSE Release(f[n - 1], q[n])]
           S == {N \in 0 .. Len(q) : \E f : Loop(f, N)}
<1>1. 0 \in S
  <2> DEFINE g == [n \in 0 .. 0 |-> k]
  <2>1. Loop(g, 0)
    <3>1. \A n \in 0 .. 0 : n = 0
      OBVIOUS
    <3> QED
      BY <3>1
  <2> HIDE DEF Loop
  <2> QED
    BY <2>1
<1>2. ASSUME NEW N \in 0 .. Len(q), N < Len(q), N \in S
      PROVE  N + 1 \in S
  <2>1. PICK f : Loop(f, N)
    BY <1>2
  <2> DEFINE g == [n \in 0 .. N + 1 |-> IF n = N + 1 THEN Release(f[N], q[N + 1]) ELSE f[n]]
  <2>2. ASSUME NEW n \in 0 .. N + 1
        PROVE  g[n] = IF n = 0 THEN k ELSE Release(g[n - 1], q[n])
    <3>1. CASE n = N + 1
      <4>1. n - 1 \in 0 .. N + 1 /\ n - 1 # N + 1 /\ n - 1 = N /\ n # 0
        BY <3>1
      <4>2. g[n - 1] = f[N] /\ g[n] = Release(f[N], q[N + 1])
        BY <3>1, <4>1
      <4> QED
        BY <3>1, <4>1, <4>2
    <3>2. CASE n # N + 1
      <4>1. n \in 0 .. N /\ g[n] = f[n]
        BY <3>2
      <4>2. f[n] = IF n = 0 THEN k ELSE Release(f[n - 1], q[n])
        BY <4>1, <2>1
      <4>3. n # 0 => n - 1 \in 0 .. N + 1 /\ n - 1 # N + 1
        BY <4>1
      <4>4. n # 0 => g[n - 1] = f[n - 1]
        BY <4>3
      <4> QED
        BY <4>1, <4>2, <4>4
    <3> QED
      BY <3>1, <3>2
  <2>3. Loop(g, N + 1)
    BY <2>2
  <2>4. N + 1 \in 0 .. Len(q)
    BY <1>2
  <2> HIDE DEF Loop, g
  <2> QED
    BY <2>3, <2>4
<1>3. S = 0 .. Len(q)
  <2>1. S \in SUBSET (0 .. Len(q))
    OBVIOUS
  <2> HIDE DEF S
  <2> QED
    BY <1>1, <1>2, <2>1, LoopInduction
<1>4. \E f : Loop(f, Len(q))
  <2>1. Len(q) \in S
    BY <1>3
  <2> QED
    BY <2>1
<1> QED
  BY <1>4


\* The mutexes from the n-th place of a list on
Rest(q, n) == {q[i] : i \in n + 1 .. Len(q)}

NextLocker(k, m) == IF k.wait_queue[m] = <<>> THEN NoTask ELSE Head(k.wait_queue[m])

\* After the first n mutexes of the list q of t have been released: each is with
\* the task that was first in its queue in k, the others are as they were.
MutexesReleased(k, bp, t, q, n, r) ==
    /\ KInv(r, {t}) /\ Advances(k, r) /\ MInv(r, bp, {t}, Rest(q, n))
    /\ \A i \in 1 .. n : r.loctsk[q[i]] = NextLocker(k, q[i])
    /\ \A i \in 1 .. n : k.wait_queue[q[i]] # <<>> => "WOBJ" \notin r.tstat[Head(k.wait_queue[q[i]])]
    /\ \A m \in MTX : (\A i \in 1 .. n : q[i] # m)
                        => r.loctsk[m] = k.loctsk[m] /\ r.wait_queue[m] = k.wait_queue[m]

\* One more mutex is released.
LEMMA MutexReleaseNext ==
    ASSUME NEW k, NEW t, NEW bp \in [TASK -> PRI], NEW q \in Seq(MTX), Distinct(q),
           KInv(k, {t}), NEW n \in Nat, n < Len(q), NEW r, MutexesReleased(k, bp, t, q, n, r)
    PROVE  MutexesReleased(k, bp, t, q, n + 1, Release(r, q[n + 1]))
<1> DEFINE m == q[n + 1]
           s == Release(r, m)
<1>1. /\ n + 1 \in 1 .. Len(q) /\ m \in MTX /\ Len(q) \in Nat
      /\ \A i \in 1 .. n : i \in 1 .. Len(q) /\ q[i] \in MTX /\ q[i] # m
  BY DEF Distinct
<1>2. m \in Rest(q, n) /\ Rest(q, n) \ {m} = Rest(q, n + 1)
  <2>1. n + 1 \in n + 1 .. Len(q)
    BY <1>1
  <2>2. \A i \in n + 2 .. Len(q) : q[i] # m /\ i \in n + 1 .. Len(q)
    BY <1>1 DEF Distinct
  <2>3. \A i \in n + 1 .. Len(q) : i = n + 1 \/ i \in n + 2 .. Len(q)
    BY <1>1
  <2>4. (n + 1) + 1 = n + 2
    OBVIOUS
  <2> QED
    BY <2>1, <2>2, <2>3, <2>4 DEF Rest
<1>3. KInv(r, {t}) /\ MInv(r, bp, {t}, Rest(q, n)) /\ Advances(k, r)
  BY DEF MutexesReleased
<1>4. HandedOver(r, s, bp, {t}, Rest(q, n), m)
  BY <1>1, <1>2, <1>3, ReleaseKeeps
<1> HIDE DEF s
<1>5. r.loctsk \in [MTX -> TASK \cup {NoTask}] /\ r.wait_queue[m] = k.wait_queue[m]
  BY <1>1, <1>3 DEF MutexesReleased, MInv
<1>6. /\ KInv(s, {t}) /\ Advances(k, s) /\ Advances(r, s) /\ MInv(s, bp, {t}, Rest(q, n + 1))
      /\ s.loctsk = [r.loctsk EXCEPT ![m] = NextLocker(k, m)]
      /\ \A v \in MTX \ {m} : s.wait_queue[v] = r.wait_queue[v]
      /\ k.wait_queue[m] # <<>> => "WOBJ" \notin s.tstat[Head(k.wait_queue[m])]
  BY <1>2, <1>3, <1>4, <1>5, AdvancesTransitive DEF HandedOver, NextLocker
<1>7. ASSUME NEW i \in 1 .. n + 1
      PROVE  i = n + 1 \/ i \in 1 .. n
  OBVIOUS
<1>8. \A i \in 1 .. n + 1 : s.loctsk[q[i]] = NextLocker(k, q[i])
  <2> TAKE i \in 1 .. n + 1
  <2>1. CASE i = n + 1
    BY <2>1, <1>1, <1>5, <1>6
  <2>2. CASE i \in 1 .. n
    <3>1. q[i] # m /\ q[i] \in MTX
      BY <2>2, <1>1
    <3>2. s.loctsk[q[i]] = r.loctsk[q[i]]
      BY <3>1, <1>5, <1>6
    <3> QED
      BY <2>2, <3>2 DEF MutexesReleased
  <2> QED
    BY <1>7, <2>1, <2>2
<1>9. \A i \in 1 .. n + 1 : k.wait_queue[q[i]] # <<>> => "WOBJ" \notin s.tstat[Head(k.wait_queue[q[i]])]
  <2> SUFFICES ASSUME NEW i \in 1 .. n + 1, k.wait_queue[q[i]] # <<>>
               PROVE  "WOBJ" \notin s.tstat[Head(k.wait_queue[q[i]])]
    OBVIOUS
  <2>1. CASE i = n + 1
    BY <2>1, <1>6
  <2>2. CASE i \in 1 .. n
    <3>1. q[i] \in WQUEUE
      BY <2>2, <1>1 DEF MTX
    <3>2. Head(k.wait_queue[q[i]]) \in TASK
      BY <3>1 DEF KInv, QueuesHold
    <3>3. "WOBJ" \notin r.tstat[Head(k.wait_queue[q[i]])]
      BY <2>2 DEF MutexesReleased
    <3> QED
      BY <3>2, <3>3, <1>6 DEF Advances
  <2> QED
    BY <1>7, <2>1, <2>2
<1>10. ASSUME NEW v \in MTX, \A i \in 1 .. n + 1 : q[i] # v
       PROVE  s.loctsk[v] = k.loctsk[v] /\ s.wait_queue[v] = k.wait_queue[v]
  <2>1. v # m /\ \A i \in 1 .. n : q[i] # v
    <3>1. n + 1 \in 1 .. n + 1 /\ \A i \in 1 .. n : i \in 1 .. n + 1
      OBVIOUS
    <3> QED
      BY <3>1, <1>10
  <2>2. r.loctsk[v] = k.loctsk[v] /\ r.wait_queue[v] = k.wait_queue[v]
    BY <2>1 DEF MutexesReleased
  <2> QED
    BY <2>1, <2>2, <1>5, <1>6
<1> QED
  BY <1>6, <1>8, <1>9, <1>10 DEF MutexesReleased, s

\* The ending task t has left its queues, and its list is taken from it: the
\* mutexes it held are in no list.
LEMMA ListEmptied ==
    ASSUME NEW a, NEW t \in TASK, NEW bp \in [TASK -> PRI], KInv(a, {}), MInv(a, bp, {}, {}),
           NEW k, QueuesLeft(a, k, t),
           NEW b, b = [k EXCEPT !.mutex_queue[t] = <<>>]
    PROVE  MutexesReleased(k, bp, t, a.mutex_queue[t], 0, b)
<1> DEFINE q == a.mutex_queue[t]
<1>1. /\ MFields \subseteq DOMAIN a /\ a.loctsk \in [MTX -> TASK \cup {NoTask}]
      /\ a.mutex_queue \in [TASK -> Seq(MTX)] /\ \A u \in TASK : Distinct(a.mutex_queue[u])
      /\ HoldersMatch(a, {}, {})
      /\ \A u \in TASK : a.tstat[u] # {} => IsCurrent(a, u, bp[u])
      /\ Respected(a, bp)
  BY DEF MInv
<1>2. /\ KInv(k, {t}) /\ DOMAIN k = DOMAIN a
      /\ k.tstat = a.tstat /\ k.priority = a.priority
      /\ \A w \in WQUEUE, u \in TASK : Contains(k.wait_queue[w], u) => Contains(a.wait_queue[w], u)
      /\ \A w \in WQUEUE, u \in TASK : Contains(k.wait_queue[w], u) => u # t
      /\ \A w \in WQUEUE : ~Contains(a.wait_queue[w], t) => k.wait_queue[w] = a.wait_queue[w]
  BY DEF QueuesLeft
<1>3. k.loctsk = a.loctsk /\ k.mutex_queue = a.mutex_queue
  <2>1. "loctsk" \in DOMAIN a \ KFields /\ "mutex_queue" \in DOMAIN a \ KFields
    BY <1>1 DEF MFields, KFields
  <2>2. k["loctsk"] = a["loctsk"] /\ k["mutex_queue"] = a["mutex_queue"]
    BY <2>1 DEF QueuesLeft
  <2> QED
    BY <2>2
<1>4. /\ DOMAIN b = DOMAIN k /\ b.loctsk = k.loctsk /\ b.ready = k.ready /\ b.tstat = k.tstat
      /\ b.priority = k.priority /\ b.tmevt = k.tmevt /\ b.wait_queue = k.wait_queue
      /\ b.dspreq = k.dspreq /\ b.mutex_queue = [k.mutex_queue EXCEPT ![t] = <<>>]
  <2>1. MFields \subseteq DOMAIN k /\ b = [k EXCEPT !.mutex_queue[t] = <<>>]
    BY <1>1, <1>2
  <2> QED
    BY ONLY <2>1, Zenon DEF MFields, KFields
<1>5. KInv(b, {t}) /\ Advances(k, b)
  <2>1. KFields \subseteq DOMAIN b
    BY <1>1, <1>2, <1>4 DEF MFields
  <2> QED
    BY <2>1, <1>2, <1>4, SameKFields DEF Advances
<1>6. q \in Seq(MTX) /\ \A m \in MTX : m \in Rest(q, 0) <=> Holds(a, t, m)
  <2>1. q \in Seq(MTX) /\ 0 + 1 = 1
    BY <1>1
  <2> QED
    BY <2>1 DEF Rest, Holds, Contains
<1>7. ASSUME NEW u \in TASK, NEW m \in MTX
      PROVE  Holds(b, u, m) <=> Holds(a, u, m) /\ u # t
  <2>1. CASE u = t
    <3>1. b.mutex_queue[u] = <<>> /\ Len(<<>>) = 0
      BY <2>1, <1>1, <1>3, <1>4
    <3> QED
      BY <2>1, <3>1 DEF Holds, Contains
  <2>2. CASE u # t
    BY <2>2, <1>1, <1>3, <1>4 DEF Holds
  <2> QED
    BY <2>1, <2>2
<1>8. HoldersMatch(b, {t}, Rest(q, 0))
  <2> DEFINE D == Rest(q, 0)
  <2>1. \A m \in MTX : m \in D <=> Holds(a, t, m)
    BY <1>6
  <2>2. D \subseteq MTX
    <3>1. \A i \in 0 + 1 .. Len(q) : q[i] \in MTX
      BY <1>6
    <3> QED
      BY <3>1 DEF Rest
  <2> HIDE DEF D
  <2>3. ASSUME NEW m \in MTX \ D, NEW u \in TASK
        PROVE  b.loctsk[m] = u <=> Holds(b, u, m)
    <3>1. a.loctsk[m] = u <=> Holds(a, u, m)
      BY <1>1 DEF HoldersMatch
    <3>2. Holds(b, u, m) <=> Holds(a, u, m) /\ u # t
      BY <1>7
    <3>3. ~Holds(a, t, m)
      BY <2>1
    <3>4. b.loctsk[m] = a.loctsk[m]
      BY <1>3, <1>4
    <3> QED
      BY <3>1, <3>2, <3>3, <3>4
  <2>4. \A m \in D, u \in TASK : ~Holds(b, u, m)
    BY <2>1, <2>2, <1>1, <1>7 DEF HoldersMatch
  <2>5. \A m \in MTX \ D : b.loctsk[m] = NoTask => b.wait_queue[m] = <<>>
    <3> SUFFICES ASSUME NEW m \in MTX, b.loctsk[m] = NoTask
                 PROVE  b.wait_queue[m] = <<>>
      OBVIOUS
    <3>1. a.wait_queue[m] = <<>> /\ Len(<<>>) = 0 /\ m \in WQUEUE
      BY <1>1, <1>3, <1>4 DEF HoldersMatch, MTX
    <3>2. ~Contains(a.wait_queue[m], t)
      BY <3>1 DEF Contains
    <3> QED
      BY <3>1, <3>2, <1>2, <1>4
  <2>6. \A m \in MTX \ D, u \in TASK : b.loctsk[m] = u => ~Contains(b.wait_queue[m], u)
    BY <1>1, <1>2, <1>3, <1>4 DEF HoldersMatch, MTX
  <2>7. \A u \in TASK : b.tstat[u] = {} \/ u \in {t} => \A m \in MTX : ~Holds(b, u, m)
    BY <1>1, <1>2, <1>4, <1>7 DEF HoldersMatch
  <2> QED
    BY <2>3, <2>4, <2>5, <2>6, <2>7 DEF HoldersMatch, D
<1>9. ASSUME NEW u \in TASK \ {t}, b.tstat[u] # {}
      PROVE  IsCurrent(b, u, bp[u])
  <2>1. IsCurrent(a, u, bp[u]) /\ b.priority[u] = a.priority[u]
    BY <1>1, <1>2, <1>4, <1>9
  <2>2. \A m \in CeilMtx : Holds(b, u, m) <=> Holds(a, u, m)
    BY <1>7, CeilingsAreNumbers
  <2> QED
    BY <2>1, <2>2 DEF IsCurrent
<1>10. Respected(b, bp)
  BY <1>1, <1>2, <1>4, <1>7, CeilingsAreNumbers DEF Respected, MTX
<1>11. MInv(b, bp, {t}, Rest(q, 0))
  <2>1. <<>> \in Seq(MTX) /\ Distinct(<<>>)
    BY DEF Distinct
  <2>2. b.mutex_queue \in [TASK -> Seq(MTX)] /\ \A u \in TASK : Distinct(b.mutex_queue[u])
    BY <2>1, <1>1, <1>3, <1>4
  <2> QED
    BY <2>2, <1>1, <1>2, <1>3, <1>4, <1>8, <1>9, <1>10 DEF MInv
<1> QED
  BY <1>4, <1>5, <1>11 DEF MutexesReleased

\* mutex_release_all hands over every mutex of the ending task.
LEMMA ReleaseAllKeeps ==
    ASSUME NEW a, NEW t \in TASK, NEW bp \in [TASK -> PRI], KInv(a, {}), MInv(a, bp, {}, {}),
           NEW k, QueuesLeft(a, k, t)
    PROVE  LET q == a.mutex_queue[t]
           IN  MutexesReleased(k, bp, t, q, Len(q), ReleaseAll(k, t))
<1> DEFINE q == a.mutex_queue[t]
           b == [k EXCEPT !.mutex_queue[t] = <<>>]
           locks == k.mutex_queue[t]
           R[n \in 0 .. Len(locks)] == IF n = 0 THEN b ELSE Release(R[n - 1], locks[n])
           S == {n \in 0 .. Len(q) : MutexesReleased(k, bp, t, q, n, R[n])}
<1>1. q \in Seq(MTX) /\ Distinct(q) /\ Len(q) \in Nat
  BY DEF MInv
<1>2. locks = q
  <2>1. "mutex_queue" \in DOMAIN a \ KFields
    BY DEF MInv, MFields, KFields
  <2>2. k["mutex_queue"] = a["mutex_queue"]
    BY <2>1 DEF QueuesLeft
  <2> QED
    BY <2>2
<1>3. R = [n \in 0 .. Len(locks) |-> IF n = 0 THEN b ELSE Release(R[n - 1], locks[n])]
  <2>1. Len(locks) \in Nat
    BY <1>1, <1>2
  <2>2. \E f : MutexLoop(b, locks, f)
    BY <2>1, MutexesReleasedIsDefined
  <2> QED
    BY <2>2 DEF MutexLoop
<1>4. ReleaseAll(k, t) = R[Len(locks)]
  BY DEF ReleaseAll
<1>5. KInv(k, {t})
  BY DEF QueuesLeft
<1> DEFINE c == b
<1>6. MutexesReleased(k, bp, t, q, 0, c)
  BY ListEmptied
<1>7. c = b
  OBVIOUS
<1> HIDE DEF R, locks, c, b
<1>8. /\ R[0] = c
      /\ \A n \in 0 .. Len(q) : n # 0 => R[n] = Release(R[n - 1], q[n])
  <2> HIDE DEF q
  <2>1. R = [n \in 0 .. Len(q) |-> IF n = 0 THEN b ELSE Release(R[n - 1], q[n])] /\ 0 \in 0 .. Len(q)
    BY <1>1, <1>2, <1>3
  <2> QED
    BY <2>1, <1>7
<1>9. 0 \in S
  BY <1>1, <1>6, <1>8
<1>10. ASSUME NEW n \in 0 .. Len(q), n < Len(q), n \in S
       PROVE  n + 1 \in S
  <2>1. n + 1 \in 0 .. Len(q) /\ n + 1 # 0 /\ (n + 1) - 1 = n /\ n \in Nat
    BY <1>1, <1>10
  <2>2. R[n + 1] = Release(R[n], q[n + 1])
    BY <2>1, <1>8
  <2>3. MutexesReleased(k, bp, t, q, n, R[n])
    BY <1>10
  <2>4. MutexesReleased(k, bp, t, q, n + 1, Release(R[n], q[n + 1]))
    BY <2>1, <2>3, <1>1, <1>5, <1>10, MutexReleaseNext
  <2> QED
    BY <2>1, <2>2, <2>4
<1>11. S = 0 .. Len(q)
  <2>1. S \in SUBSET (0 .. Len(q))
    OBVIOUS
  <2> HIDE DEF S
  <2> QED
    BY <1>1, <1>9, <1>10, <2>1, LoopInduction
<1>12. Len(q) \in S
  BY <1>1, <1>11
<1> QED
  BY <1>2, <1>4, <1>12

-----------------------------------------------------------------------------
\* The end of a task

\* What a record means to MInv is in its fields.
LEMMA SameMFields ==
    ASSUME NEW k, NEW bp, NEW X, NEW D, MInv(k, bp, X, D), NEW n, MFields \subseteq DOMAIN n,
           n.tstat = k.tstat, n.priority = k.priority, n.wait_queue = k.wait_queue,
           n.loctsk = k.loctsk, n.mutex_queue = k.mutex_queue
    PROVE  MInv(n, bp, X, D)
  BY DEF MInv, HoldersMatch, IsCurrent, Respected, Holds

\* A task that holds nothing is back at its initial priorities.
LEMMA DormantHolders ==
    ASSUME NEW k, NEW t \in TASK, NEW bp \in [TASK -> PRI], KInv(k, {t}), MInv(k, bp, {t}, {}),
           NEW n, MFields \subseteq DOMAIN n, NEW p \in PRI, n.priority[t] = p,
           n.loctsk = k.loctsk, n.mutex_queue = k.mutex_queue, n.wait_queue = k.wait_queue,
           \A u \in TASK \ {t} : n.tstat[u] = k.tstat[u] /\ n.priority[u] = k.priority[u],
           NEW b, b[t] = p, \A u \in TASK \ {t} : b[u] = bp[u]
    PROVE  MInv(n, b, {}, {})
<1>1. /\ k.loctsk \in [MTX -> TASK \cup {NoTask}]
      /\ k.mutex_queue \in [TASK -> Seq(MTX)] /\ \A u \in TASK : Distinct(k.mutex_queue[u])
      /\ HoldersMatch(k, {t}, {})
      /\ \A u \in TASK \ {t} : k.tstat[u] # {} => IsCurrent(k, u, bp[u])
      /\ Respected(k, bp)
  BY DEF MInv
<1>2. b[t] = p /\ \A u \in TASK \ {t} : b[u] = bp[u]
  OBVIOUS
<1>3. \A u \in TASK, m \in MTX : Holds(n, u, m) <=> Holds(k, u, m)
  BY DEF Holds
<1>4. \A m \in MTX : ~Holds(n, t, m)
  BY <1>1, <1>3 DEF HoldersMatch
<1>5. \A m \in MTX : ~Contains(n.wait_queue[m], t)
  BY DEF KInv, QueuesHold, MTX
<1>6. HoldersMatch(n, {}, {})
  <2>1. \A m \in MTX \ {}, u \in TASK : n.loctsk[m] = u <=> Holds(n, u, m)
    BY <1>1, <1>3 DEF HoldersMatch
  <2>2. \A m \in MTX \ {} : n.loctsk[m] = NoTask => n.wait_queue[m] = <<>>
    BY <1>1 DEF HoldersMatch
  <2>3. \A m \in MTX \ {}, u \in TASK : n.loctsk[m] = u => ~Contains(n.wait_queue[m], u)
    BY <1>1 DEF HoldersMatch
  <2>4. ASSUME NEW u \in TASK, n.tstat[u] = {} \/ u \in {}
        PROVE  \A m \in MTX : ~Holds(n, u, m)
    <3>1. CASE u = t
      BY <3>1, <1>4
    <3>2. CASE u # t
      <4>1. k.tstat[u] = {}
        BY <3>2, <2>4
      <4> QED
        BY <4>1, <1>1, <1>3 DEF HoldersMatch
    <3> QED
      BY <3>1, <3>2
  <2> QED
    BY <2>1, <2>2, <2>3, <2>4 DEF HoldersMatch
<1>7. ASSUME NEW u \in TASK, n.tstat[u] # {}
      PROVE  IsCurrent(n, u, b[u])
  <2>1. CASE u = t
    BY <2>1, <1>2, <1>4, CeilingsAreNumbers DEF IsCurrent
  <2>2. CASE u # t
    <3>1. IsCurrent(k, u, bp[u])
      BY <2>2, <1>1, <1>7
    <3> QED
      BY <3>1, <2>2, <1>2, <1>3, CeilingsAreNumbers DEF IsCurrent
  <2> QED
    BY <2>1, <2>2
<1>8. ASSUME NEW u \in TASK, NEW m \in CeilMtx, Holds(n, u, m) \/ Contains(n.wait_queue[m], u)
      PROVE  CeilPri[m] <= b[u]
  <2>1. m \in MTX
    BY CeilingsAreNumbers
  <2>2. u # t
    BY <2>1, <1>4, <1>5, <1>8
  <2>3. Holds(k, u, m) \/ Contains(k.wait_queue[m], u)
    BY <2>1, <1>3, <1>8
  <2> QED
    BY <2>2, <2>3, <1>1, <1>2 DEF Respected
<1>9. Respected(n, b)
  BY <1>8 DEF Respected
<1> QED
  BY <1>1, <1>6, <1>7, <1>9 DEF MInv

\* The fields of MState
LEMMA MStateFields ==
    /\ MFields \subseteq DOMAIN MState /\ DOMAIN MState = MFields
    /\ MState.ready = ready /\ MState.tstat = tstat /\ MState.priority = priority
    /\ MState.tmevt = tmevt /\ MState.wait_queue = wait_queue /\ MState.dspreq = FALSE
    /\ MState.loctsk = loctsk /\ MState.mutex_queue = mutex_queue
  BY DEF MState, MFields, KFields

\* The record a call on mutexes starts with is in order.
LEMMA MStateInv ==
    ASSUME MtxInv
    PROVE  KInv(MState, {}) /\ MInv(MState, bpriority, {}, {}) /\ bpriority \in [TASK -> PRI]
<1>1. KInv(KState, {})
  BY KStateInv DEF MtxInv
<1>2. /\ KState.ready = ready /\ KState.tstat = tstat /\ KState.priority = priority
      /\ KState.tmevt = tmevt /\ KState.wait_queue = wait_queue /\ KState.dspreq = FALSE
  BY DEF KState
<1>3. KInv(MState, {})
  BY <1>1, <1>2, MStateFields, SameKFields DEF MFields
<1> QED
  BY <1>3 DEF MtxInv, IInv, TcbInv

\* What a step does to the mutexes that tasks wait for: the body of HandoverIsInOrder
InOrder(old, wq, new, ts) ==
    \A m \in MTX : new[m] \notin {NoTask, old[m]} /\ wq[m] # <<>>
        => new[m] = Head(wq[m]) /\ "WOBJ" \notin ts[new[m]]

\* The mutex part of the invariant, without the scheduler's
HoldersInv ==
    /\ MInv(MState, bpriority, {}, {})
    /\ mtxexist \in SUBSET MTX
    /\ \A m \in MTX \ mtxexist : loctsk[m] = NoTask
    /\ \A t \in TASK : Dormant(t) => bpriority[t] = ipriority[t]

\* ext_tsk and ter_tsk: the task leaves its queues, hands its mutexes over and
\* becomes dormant, or ready again if an activation is queued.
LEMMA EndedKeeps ==
    ASSUME MtxInv, NEW t \in TASK, t \in exist, DormantFields(t), mtxexist' = mtxexist,
           NEW n, n = Ended(t), tstat' = n.tstat, priority' = n.priority, tmevt' = n.tmevt,
           wait_queue' = n.wait_queue, loctsk' = n.loctsk, mutex_queue' = n.mutex_queue
    PROVE  /\ TcbInv' /\ WaitInv' /\ HoldersInv'
           /\ ReadyInv(n.ready, RunnableTasks', priority')
           /\ ready.schedtsk # t /\ n.ready.schedtsk # ready.schedtsk => n.dspreq
           /\ \A u \in TASK \ {t} : "RUNNABLE" \in tstat[u] => "RUNNABLE" \in tstat'[u]
           /\ InOrder(loctsk, wait_queue, loctsk', tstat')
<1> DEFINE a == MState
           k == LeaveQueues(a, t)
           r == ReleaseAll(k, t)
           q == a.mutex_queue[t]
<1>1. KInv(a, {}) /\ MInv(a, bpriority, {}, {}) /\ bpriority \in [TASK -> PRI]
  BY MStateInv
<1>2. QueuesLeft(a, k, t)
  BY <1>1, LeaveQueuesKeeps
<1>3. MutexesReleased(k, bpriority, t, q, Len(q), r)
  BY <1>1, <1>2, ReleaseAllKeeps
<1>4. n = MakeDormantK(r, t)
  BY DEF Ended
<1>5. a = MState
  OBVIOUS
<1> HIDE DEF a, k, r
<1>6. /\ a.ready = ready /\ a.tstat = tstat /\ a.priority = priority /\ a.loctsk = loctsk
      /\ a.wait_queue = wait_queue /\ a.mutex_queue = mutex_queue /\ MFields \subseteq DOMAIN a
  BY <1>5, MStateFields
<1>7. /\ q \in Seq(MTX) /\ Len(q) \in Nat /\ Rest(q, Len(q)) = {}
      /\ \A m \in MTX : loctsk[m] = t <=> Contains(q, m)
      /\ \A m \in MTX : loctsk[m] = t => ~Contains(wait_queue[m], t)
      /\ loctsk \in [MTX -> TASK \cup {NoTask}]
  <2>1. q \in Seq(MTX) /\ HoldersMatch(a, {}, {}) /\ a.loctsk \in [MTX -> TASK \cup {NoTask}]
    BY <1>1 DEF MInv
  <2>2. Len(q) \in Nat /\ Len(q) + 1 .. Len(q) = {}
    BY <2>1
  <2> QED
    BY <2>1, <2>2, <1>6 DEF HoldersMatch, Holds, Rest
<1>8. KInv(r, {t}) /\ Advances(k, r) /\ MInv(r, bpriority, {t}, {})
  BY <1>3, <1>7 DEF MutexesReleased
<1>9. TcbInv
  BY DEF MtxInv, IInv
<1>10. /\ TcbInv' /\ WaitInv'
       /\ ReadyInv(n.ready, RunnableTasks', priority')
       /\ n.wait_queue = r.wait_queue
       /\ r.dspreq => n.dspreq
       /\ n.ready.schedtsk # r.ready.schedtsk => n.dspreq
       /\ \A u \in TASK \ {t} : n.tstat[u] = r.tstat[u] /\ n.priority[u] = r.priority[u]
       /\ n.tstat[t] \in {{}, {"RUNNABLE"}} /\ n.priority[t] = ipriority[t]
       /\ \A f \in DOMAIN r \ KFields : n[f] = r[f]
  BY <1>4, <1>8, <1>9, MakeDormantKeeps
<1>11. /\ DOMAIN n = DOMAIN r /\ MFields \subseteq DOMAIN n
       /\ n.loctsk = r.loctsk /\ n.mutex_queue = r.mutex_queue
  <2>1. MFields \subseteq DOMAIN r
    BY <1>8 DEF MInv
  <2>2. DOMAIN n = DOMAIN r
    <3>1. KFields \subseteq DOMAIN r
      BY <2>1 DEF MFields
    <3> QED
      BY ONLY <3>1, <1>4, Zenon DEF MakeDormantK, WithReady, KFields
  <2>3. "loctsk" \in DOMAIN r \ KFields /\ "mutex_queue" \in DOMAIN r \ KFields
    BY <2>1 DEF MFields, KFields
  <2>4. n["loctsk"] = r["loctsk"] /\ n["mutex_queue"] = r["mutex_queue"]
    BY <2>3, <1>10
  <2> QED
    BY <2>1, <2>2, <2>4
<1>12. ipriority[t] \in PRI /\ bpriority' = [bpriority EXCEPT ![t] = ipriority[t]] /\ ipriority' = ipriority
  BY <1>9 DEF TcbInv, DormantFields
<1>13. MInv(n, bpriority', {}, {})
  <2>1. bpriority \in [TASK -> PRI]
    BY <1>9 DEF TcbInv
  <2>2. KInv(r, {t}) /\ MInv(r, bpriority, {t}, {})
    BY <1>8
  <2>3. /\ MFields \subseteq DOMAIN n /\ n.loctsk = r.loctsk /\ n.mutex_queue = r.mutex_queue
        /\ n.wait_queue = r.wait_queue /\ n.priority[t] = ipriority[t] /\ ipriority[t] \in PRI
        /\ \A u \in TASK \ {t} : n.tstat[u] = r.tstat[u] /\ n.priority[u] = r.priority[u]
    BY <1>10, <1>11, <1>12
  <2>4. bpriority'[t] = ipriority[t] /\ \A u \in TASK \ {t} : bpriority'[u] = bpriority[u]
    BY <2>1, <1>12
  <2> QED
    BY <2>1, <2>2, <2>3, <2>4, DormantHolders
<1>14. MInv(MState, bpriority, {}, {})'
  <2>1. /\ MState'.tstat = tstat' /\ MState'.priority = priority' /\ MFields \subseteq DOMAIN MState'
        /\ MState'.wait_queue = wait_queue' /\ MState'.loctsk = loctsk'
        /\ MState'.mutex_queue = mutex_queue'
    BY DEF MState, MFields, KFields
  <2>2. MInv(MState', bpriority', {}, {})
    BY <2>1, <1>13, SameMFields
  <2> QED
    BY <2>2
<1>15. ASSUME NEW m \in MTX
       PROVE  /\ loctsk[m] # t => loctsk'[m] = loctsk[m]
              /\ loctsk[m] = t => /\ loctsk'[m] = NextLocker(a, m)
                                  /\ wait_queue[m] # <<>> => "WOBJ" \notin r.tstat[Head(wait_queue[m])]
  <2>1. CASE loctsk[m] # t
    <3>1. \A i \in 1 .. Len(q) : q[i] # m
      BY <2>1, <1>7 DEF Contains
    <3>2. r.loctsk[m] = k.loctsk[m]
      BY <3>1, <1>3 DEF MutexesReleased
    <3>3. k["loctsk"] = a["loctsk"]
      BY <1>2, <1>6 DEF QueuesLeft, MFields, KFields
    <3> QED
      BY <2>1, <3>2, <3>3, <1>6, <1>11
  <2>2. CASE loctsk[m] = t
    <3>1. PICK i \in 1 .. Len(q) : q[i] = m
      BY <2>2, <1>7 DEF Contains
    <3>2. k.wait_queue[m] = wait_queue[m]
      BY <2>2, <1>2, <1>6, <1>7 DEF QueuesLeft, MTX
    <3>3. /\ r.loctsk[m] = NextLocker(k, m)
          /\ k.wait_queue[m] # <<>> => "WOBJ" \notin r.tstat[Head(k.wait_queue[m])]
      BY <3>1, <1>3 DEF MutexesReleased
    <3> QED
      BY <2>2, <3>2, <3>3, <1>6, <1>11 DEF NextLocker
  <2> QED
    BY <2>1, <2>2
<1>16. \A m \in MTX \ mtxexist' : loctsk'[m] = NoTask
  BY <1>15, NoTaskAssumption DEF MtxInv
<1>17. ASSUME NEW u \in TASK, Dormant(u)'
       PROVE  bpriority'[u] = ipriority'[u]
  <2>1. CASE u = t
    BY <2>1, <1>1, <1>12
  <2>2. CASE u # t
    <3>1. r.tstat[u] = {} /\ tstat[u] = k.tstat[u]
      BY <2>2, <1>2, <1>6, <1>10, <1>17 DEF Dormant, QueuesLeft
    <3>2. Dormant(u)
      BY <3>1, <1>8 DEF Advances, Dormant
    <3> QED
      BY <2>2, <3>2, <1>12 DEF MtxInv
  <2> QED
    BY <2>1, <2>2
<1>18. HoldersInv'
  <2>1. mtxexist' \in SUBSET MTX
    BY DEF MtxInv
  <2>2. \A u \in TASK : Dormant(u)' => bpriority'[u] = ipriority'[u]
    BY <1>17
  <2> QED
    BY <2>1, <2>2, <1>14, <1>16 DEF HoldersInv
<1>19. ready.schedtsk # t /\ n.ready.schedtsk # ready.schedtsk => n.dspreq
  BY <1>2, <1>6, <1>8, <1>10 DEF QueuesLeft, Advances
<1>20. \A u \in TASK \ {t} : "RUNNABLE" \in tstat[u] => "RUNNABLE" \in tstat'[u]
  BY <1>2, <1>6, <1>8, <1>10 DEF QueuesLeft, Advances
<1>21. InOrder(loctsk, wait_queue, loctsk', tstat')
  <2> SUFFICES ASSUME NEW m \in MTX, loctsk'[m] \notin {NoTask, loctsk[m]}, wait_queue[m] # <<>>
               PROVE  loctsk'[m] = Head(wait_queue[m]) /\ "WOBJ" \notin tstat'[loctsk'[m]]
    BY DEF InOrder
  <2>1. loctsk[m] = t /\ loctsk'[m] = Head(wait_queue[m])
        /\ "WOBJ" \notin r.tstat[Head(wait_queue[m])]
    BY <1>6, <1>15 DEF NextLocker
  <2>2. Head(wait_queue[m]) \in TASK
    BY DEF MtxInv, WaitInv, QueuesHold, MTX
  <2>3. CASE Head(wait_queue[m]) = t
    BY <2>1, <2>3, <1>10
  <2>4. CASE Head(wait_queue[m]) # t
    BY <2>1, <2>2, <2>4, <1>10
  <2> QED
    BY <2>1, <2>3, <2>4
<1> QED
  BY <1>10, <1>18, <1>19, <1>20, <1>21

\* ext_tsk keeps the invariant.
LEMMA ExtTskMtxKeeps ==
    ASSUME MtxInv, ExtTskMtx
    PROVE  MtxInv' /\ InOrder(loctsk, wait_queue, loctsk', tstat')
<1> DEFINE t == runtsk
           n == Ended(t)
<1>1. /\ tstat' = n.tstat /\ priority' = n.priority /\ tmevt' = n.tmevt
      /\ wait_queue' = n.wait_queue /\ loctsk' = n.loctsk /\ mutex_queue' = n.mutex_queue
      /\ DormantFields(t) /\ mtxexist' = mtxexist /\ nest = 0 /\ reqflg' = reqflg
      /\ disdsp' = FALSE /\ ipmflg' = TRUE /\ dspflg' = TRUE /\ locked' = FALSE
      /\ ready' = n.ready /\ Dispatcher(n.ready)
  BY DEF ExtTskMtx
<1> HIDE DEF n
<1>2. t \in TASK /\ t \in exist /\ reqflg' = FALSE
  BY <1>1, TaskContext DEF MtxInv, RunnableTasks
<1>3. TcbInv' /\ WaitInv' /\ HoldersInv' /\ ReadyInv(n.ready, RunnableTasks', priority')
      /\ InOrder(loctsk, wait_queue, loctsk', tstat')
  BY <1>1, <1>2, EndedKeeps DEF n
<1>4. QueueInv' /\ ModeInv'
  BY <1>1, <1>3 DEF QueueInv, ModeInv, DspflgIsCache
<1>5. CpuInv'
  BY <1>1, <1>2, <1>3, <1>4, DispatcherInv
<1> QED
  BY <1>3, <1>4, <1>5 DEF MtxInv, HoldersInv, IInv

\* ter_tsk keeps the invariant.
LEMMA TerTskMtxKeeps ==
    ASSUME MtxInv, NEW t \in TASK, TerTskMtx(t)
    PROVE  MtxInv' /\ InOrder(loctsk, wait_queue, loctsk', tstat')
<1> DEFINE n == Ended(t)
<1>1. /\ tstat' = n.tstat /\ priority' = n.priority /\ tmevt' = n.tmevt
      /\ wait_queue' = n.wait_queue /\ loctsk' = n.loctsk /\ mutex_queue' = n.mutex_queue
      /\ DormantFields(t) /\ mtxexist' = mtxexist /\ Reschedule(n.ready, n.dspreq)
      /\ UNCHANGED modeVars /\ nest = 0 /\ t \in exist /\ t # runtsk
  BY DEF TerTskMtx, MCommit, Commit, TskCtxUnl
<1> HIDE DEF n
<1>2. TcbInv' /\ WaitInv' /\ HoldersInv' /\ ReadyInv(n.ready, RunnableTasks', priority')
      /\ (ready.schedtsk # t /\ n.ready.schedtsk # ready.schedtsk => n.dspreq)
      /\ (\A u \in TASK \ {t} : "RUNNABLE" \in tstat[u] => "RUNNABLE" \in tstat'[u])
      /\ InOrder(loctsk, wait_queue, loctsk', tstat')
  BY <1>1, EndedKeeps DEF n
<1>3. IInv /\ (dspflg => runtsk = ready.schedtsk) /\ runtsk \in RunnableTasks
  BY <1>1, TaskContext DEF MtxInv
<1>4. runtsk \in RunnableTasks'
  BY <1>1, <1>2, <1>3 DEF RunnableTasks, Runnable
<1>5. ModeInv' /\ dspflg' = dspflg
  BY <1>1, <1>3, ModeUnchanged DEF IInv
<1>6. dspflg /\ n.ready.schedtsk # ready.schedtsk => n.dspreq
  BY <1>1, <1>2, <1>3
<1>7. QueueInv' /\ CpuInv'
  BY <1>1, <1>2, <1>3, <1>4, <1>5, <1>6, RescheduleInv
<1> QED
  BY <1>2, <1>5, <1>7 DEF MtxInv, HoldersInv, IInv

-----------------------------------------------------------------------------
\* Locking, unlocking and the priority of the holder

\* MInv, but for the priority of t
MInvBut(k, bp, D, t) ==
    /\ MFields \subseteq DOMAIN k
    /\ k.loctsk \in [MTX -> TASK \cup {NoTask}]
    /\ k.mutex_queue \in [TASK -> Seq(MTX)]
    /\ \A u \in TASK : Distinct(k.mutex_queue[u])
    /\ HoldersMatch(k, {}, D)
    /\ \A u \in TASK \ {t} : k.tstat[u] # {} => IsCurrent(k, u, bp[u])
    /\ Respected(k, bp)

\* change_priority gives t the right priority; it moves t in the wait queues, and
\* no task in or out of them.
LEMMA NewPriorityKeeps ==
    ASSUME NEW k, NEW bp \in [TASK -> PRI], NEW D, NEW t \in TASK, KInv(k, {}), MInvBut(k, bp, D, t),
           NEW p \in PRI, p <= bp[t], \A m \in CeilMtx : Holds(k, t, m) => p <= CeilPri[m],
           p = bp[t] \/ \E m \in CeilMtx : Holds(k, t, m) /\ p = CeilPri[m],
           NEW n, PriorityChanged(k, n, {}, t, p)
    PROVE  /\ MInv(n, bp, {}, D)
           /\ n.loctsk = k.loctsk /\ n.mutex_queue = k.mutex_queue
<1>1. /\ MFields \subseteq DOMAIN k /\ k.loctsk \in [MTX -> TASK \cup {NoTask}]
      /\ k.mutex_queue \in [TASK -> Seq(MTX)] /\ \A u \in TASK : Distinct(k.mutex_queue[u])
      /\ HoldersMatch(k, {}, D)
      /\ \A u \in TASK \ {t} : k.tstat[u] # {} => IsCurrent(k, u, bp[u])
      /\ Respected(k, bp)
  BY DEF MInvBut
<1>2. /\ n.priority = [k.priority EXCEPT ![t] = p] /\ n.tstat = k.tstat /\ DOMAIN n = DOMAIN k
      /\ \A w \in WQUEUE, u \in TASK : Contains(n.wait_queue[w], u) <=> Contains(k.wait_queue[w], u)
      /\ \A w \in WQUEUE : k.wait_queue[w] = <<>> => n.wait_queue[w] = <<>>
  BY DEF PriorityChanged, Advances
<1>3. n.loctsk = k.loctsk /\ n.mutex_queue = k.mutex_queue
  <2>1. "loctsk" \in DOMAIN k \ KFields /\ "mutex_queue" \in DOMAIN k \ KFields
    BY <1>1 DEF MFields, KFields
  <2>2. n["loctsk"] = k["loctsk"] /\ n["mutex_queue"] = k["mutex_queue"]
    BY <2>1 DEF PriorityChanged
  <2> QED
    BY <2>2
<1>4. \A u \in TASK, m \in MTX : Holds(n, u, m) <=> Holds(k, u, m)
  BY <1>3 DEF Holds
<1>5. k.priority \in [TASK -> PRI]
  BY DEF KInv
<1>6. HoldersMatch(n, {}, D)
  <2>1. \A m \in MTX \ D, u \in TASK : n.loctsk[m] = u <=> Holds(n, u, m)
    BY <1>1, <1>3, <1>4 DEF HoldersMatch
  <2>2. \A m \in D, u \in TASK : ~Holds(n, u, m)
    BY <1>1, <1>3 DEF HoldersMatch, Holds
  <2>3. \A m \in MTX \ D : n.loctsk[m] = NoTask => n.wait_queue[m] = <<>>
    BY <1>1, <1>2, <1>3 DEF HoldersMatch, MTX
  <2>4. \A m \in MTX \ D, u \in TASK : n.loctsk[m] = u => ~Contains(n.wait_queue[m], u)
    BY <1>1, <1>2, <1>3 DEF HoldersMatch, MTX
  <2>5. \A u \in TASK : n.tstat[u] = {} \/ u \in {} => \A m \in MTX : ~Holds(n, u, m)
    BY <1>1, <1>2, <1>4 DEF HoldersMatch
  <2> QED
    BY <2>1, <2>2, <2>3, <2>4, <2>5 DEF HoldersMatch
<1>7. ASSUME NEW u \in TASK, n.tstat[u] # {}
      PROVE  IsCurrent(n, u, bp[u])
  <2>1. CASE u = t
    BY <2>1, <1>2, <1>4, <1>5, CeilingsAreNumbers DEF IsCurrent
  <2>2. CASE u # t
    <3>1. IsCurrent(k, u, bp[u]) /\ n.priority[u] = k.priority[u]
      BY <2>2, <1>1, <1>2, <1>5, <1>7
    <3> QED
      BY <3>1, <1>4, CeilingsAreNumbers DEF IsCurrent
  <2> QED
    BY <2>1, <2>2
<1>8. Respected(n, bp)
  BY <1>1, <1>2, <1>4, CeilingsAreNumbers DEF Respected, MTX
<1> QED
  BY <1>1, <1>2, <1>3, <1>6, <1>7, <1>8 DEF MInv

\* A free mutex is locked, and its ceiling raises the task.
LEMMA AcquireKeeps ==
    ASSUME NEW k, NEW bp \in [TASK -> PRI], KInv(k, {}), MInv(k, bp, {}, {}),
           NEW t \in TASK, k.tstat[t] # {}, NEW m \in MTX, k.loctsk[m] = NoTask,
           m \in CeilMtx => CeilPri[m] <= bp[t]
    PROVE  LET n == Acquire(k, t, m)
           IN  /\ KInv(n, {}) /\ Advances(k, n) /\ MInv(n, bp, {}, {})
               /\ n.loctsk = [k.loctsk EXCEPT ![m] = t]
               /\ n.tstat = k.tstat
               /\ k.ready.schedtsk = t /\ "RUNNABLE" \in k.tstat[t] => n.ready.schedtsk = t
<1> DEFINE e == [k EXCEPT !.loctsk[m] = t, !.mutex_queue[t] = <<m>> \o @]
           c == ChangePriorityK(e, t, CeilPri[m], TRUE)
           n == Acquire(k, t, m)
           raises == m \in CeilMtx /\ CeilPri[m] < k.priority[t]
<1>1. /\ MFields \subseteq DOMAIN k /\ k.loctsk \in [MTX -> TASK \cup {NoTask}]
      /\ k.mutex_queue \in [TASK -> Seq(MTX)] /\ \A u \in TASK : Distinct(k.mutex_queue[u])
      /\ HoldersMatch(k, {}, {})
      /\ \A u \in TASK : k.tstat[u] # {} => IsCurrent(k, u, bp[u])
      /\ Respected(k, bp) /\ k.priority \in [TASK -> PRI]
  BY DEF MInv, KInv
<1>2. /\ DOMAIN e = DOMAIN k /\ e.loctsk = [k.loctsk EXCEPT ![m] = t]
      /\ e.mutex_queue = [k.mutex_queue EXCEPT ![t] = <<m>> \o @]
      /\ e.ready = k.ready /\ e.tstat = k.tstat /\ e.priority = k.priority
      /\ e.tmevt = k.tmevt /\ e.wait_queue = k.wait_queue /\ e.dspreq = k.dspreq
  <2>1. MFields \subseteq DOMAIN k
    BY <1>1
  <2> QED
    BY ONLY <2>1, Zenon DEF MFields, KFields
<1>3. n = IF raises THEN c ELSE e
  BY DEF Acquire
<1> HIDE DEF e, n
<1>4. KInv(e, {}) /\ Advances(k, e)
  <2>1. KFields \subseteq DOMAIN e
    BY <1>1, <1>2 DEF MFields
  <2> QED
    BY <2>1, <1>2, SameKFields DEF Advances
<1>5. \A u \in TASK : ~Holds(k, u, m)
  BY <1>1, NoTaskAssumption DEF HoldersMatch
<1>6. /\ <<m>> \o k.mutex_queue[t] \in Seq(MTX) /\ Distinct(<<m>> \o k.mutex_queue[t])
      /\ \A x : Contains(<<m>> \o k.mutex_queue[t], x) <=> Contains(k.mutex_queue[t], x) \/ x = m
  BY <1>1, <1>5, PrependKeeps DEF Holds
<1>7. \A u \in TASK, x \in MTX : Holds(e, u, x) <=> Holds(k, u, x) \/ (u = t /\ x = m)
  BY <1>1, <1>2, <1>6 DEF Holds
<1>8. k.wait_queue[m] = <<>> /\ \A u : ~Contains(k.wait_queue[m], u)
  <2>1. k.wait_queue[m] = <<>> /\ Len(<<>>) = 0
    BY <1>1 DEF HoldersMatch
  <2> QED
    BY <2>1 DEF Contains
<1>9. HoldersMatch(e, {}, {})
  <2>1. ASSUME NEW x \in MTX \ {}, NEW u \in TASK
        PROVE  e.loctsk[x] = u <=> Holds(e, u, x)
    <3>1. CASE x = m
      <4>1. e.loctsk[x] = t /\ (Holds(e, u, x) <=> u = t)
        BY <3>1, <1>1, <1>2, <1>5, <1>7
      <4> QED
        BY <4>1
    <3>2. CASE x # m
      BY <3>2, <1>1, <1>2, <1>7 DEF HoldersMatch
    <3> QED
      BY <3>1, <3>2
  <2>2. \A x \in MTX \ {} : e.loctsk[x] = NoTask => e.wait_queue[x] = <<>>
    BY <1>1, <1>2, <1>8 DEF HoldersMatch
  <2>3. ASSUME NEW x \in MTX \ {}, NEW u \in TASK, e.loctsk[x] = u
        PROVE  ~Contains(e.wait_queue[x], u)
    <3>1. CASE x = m
      BY <3>1, <1>2, <1>8
    <3>2. CASE x # m
      BY <3>2, <2>3, <1>1, <1>2 DEF HoldersMatch
    <3> QED
      BY <3>1, <3>2
  <2>4. ASSUME NEW u \in TASK, e.tstat[u] = {} \/ u \in {}, NEW x \in MTX
        PROVE  ~Holds(e, u, x)
    <3>1. u # t /\ ~Holds(k, u, x)
      BY <2>4, <1>1, <1>2 DEF HoldersMatch
    <3> QED
      BY <3>1, <1>7
  <2> QED
    BY <2>1, <2>2, <2>3, <2>4 DEF HoldersMatch
<1>10. ASSUME NEW u \in TASK \ {t}, e.tstat[u] # {}
       PROVE  IsCurrent(e, u, bp[u])
  <2>1. IsCurrent(k, u, bp[u])
    BY <1>1, <1>2, <1>10
  <2> QED
    BY <2>1, <1>2, <1>7, CeilingsAreNumbers DEF IsCurrent
<1>11. Respected(e, bp)
  BY <1>1, <1>2, <1>7, CeilingsAreNumbers DEF Respected
<1>12. /\ e.loctsk \in [MTX -> TASK \cup {NoTask}] /\ e.mutex_queue \in [TASK -> Seq(MTX)]
       /\ \A u \in TASK : Distinct(e.mutex_queue[u])
  BY <1>1, <1>2, <1>6
<1>13. MInvBut(e, bp, {}, t)
  BY <1>1, <1>2, <1>9, <1>10, <1>11, <1>12 DEF MInvBut
<1>14. IsCurrent(k, t, bp[t]) /\ k.priority[t] \in Nat /\ bp[t] \in Nat
  BY <1>1, CeilingsAreNumbers
<1>15. CASE raises
  <2> DEFINE p == CeilPri[m]
  <2>1. p \in PRI /\ p \in Nat /\ p <= bp[t] /\ p < k.priority[t]
    BY <1>15, CeilingsAreNumbers
  <2>2. PriorityChanged(e, c, {}, t, p)
    BY <2>1, <1>2, <1>4, ChangePriorityKeeps
  <2>3. \A x \in CeilMtx : Holds(e, t, x) => p <= CeilPri[x]
    BY <2>1, <1>7, <1>14, CeilingsAreNumbers DEF IsCurrent
  <2>4. \E x \in CeilMtx : Holds(e, t, x) /\ p = CeilPri[x]
    BY <1>7, <1>15
  <2> HIDE DEF c
  <2>5. MInv(c, bp, {}, {}) /\ c.loctsk = e.loctsk
    <3> HIDE DEF p
    <3>1. p = bp[t] \/ \E x \in CeilMtx : Holds(e, t, x) /\ p = CeilPri[x]
      BY <2>4
    <3>2. KInv(e, {}) /\ MInvBut(e, bp, {}, t)
      BY <1>4, <1>13
    <3> QED
      BY <2>1, <2>2, <2>3, <3>1, <3>2, NewPriorityKeeps
  <2> USE DEF c
  <2>6. e.ready.schedtsk = t /\ "RUNNABLE" \in e.tstat[t] => c.ready.schedtsk = t
    <3>1. KFields \subseteq DOMAIN e /\ ~(p >= e.priority[t])
      BY <2>1, <1>2, <1>14, <1>1 DEF MFields
    <3> QED
      BY <3>1, RaiseKeepsSchedtsk
  <2>7. KInv(c, {}) /\ Advances(e, c) /\ c.tstat = e.tstat
    BY <2>2 DEF PriorityChanged
  <2>8. Advances(k, c)
    BY <2>7, <1>4, AdvancesTransitive
  <2>9. n = c
    BY <1>3, <1>15
  <2> HIDE DEF c
  <2> QED
    BY <2>5, <2>6, <2>7, <2>8, <2>9, <1>2 DEF n
<1>16. CASE ~raises
  <2>1. m \in CeilMtx => k.priority[t] <= CeilPri[m]
    BY <1>16, <1>14, CeilingsAreNumbers
  <2>2. IsCurrent(e, t, bp[t])
    BY <2>1, <1>2, <1>7, <1>14, CeilingsAreNumbers DEF IsCurrent
  <2>3. MInv(e, bp, {}, {})
    BY <2>2, <1>13 DEF MInv, MInvBut
  <2> QED
    BY <2>3, <1>2, <1>3, <1>4, <1>16 DEF n
<1> QED
  BY <1>15, <1>16

\* k is a, but p_loctsk of m may have been reset.
ButLoctsk(a, k, m) ==
    /\ DOMAIN k = DOMAIN a /\ k.ready = a.ready /\ k.tstat = a.tstat
    /\ k.priority = a.priority /\ k.tmevt = a.tmevt /\ k.wait_queue = a.wait_queue
    /\ k.dspreq = a.dspreq /\ k.mutex_queue = a.mutex_queue
    /\ k.loctsk \in [MTX -> TASK \cup {NoTask}]
    /\ \A c \in MTX \ {m} : k.loctsk[c] = a.loctsk[c]

\* The mutex m of k is in no list of n.
MutexLost(a, k, n, t, m) ==
    /\ KInv(n, {}) /\ Advances(a, n) /\ MInv(n, bpriority, {}, {m})
    /\ n.loctsk = k.loctsk /\ n.tstat = k.tstat
    /\ "RUNNABLE" \in k.tstat[t] => n.wait_queue = k.wait_queue
    /\ \A w \in WQUEUE : k.wait_queue[w] = <<>> => n.wait_queue[w] = <<>>

\* The holder t of m in a loses it: m leaves its list, and its priority falls if
\* the ceiling of m held it up.
LEMMA LoseMutexKeeps ==
    ASSUME NEW a, bpriority \in [TASK -> PRI], KInv(a, {}), MInv(a, bpriority, {}, {}),
           NEW m \in MTX, NEW t \in TASK, a.loctsk[m] = t, NEW k, ButLoctsk(a, k, m)
    PROVE  MutexLost(a, k, LoseMutex(k, t, m), t, m)
<1> USE DEF ButLoctsk, MutexLost
<1> DEFINE b == [k EXCEPT !.mutex_queue[t] = Delete(@, m)]
           p == CalcPriority(b, t)
           c == ChangePriorityK(b, t, p, TRUE)
           n == LoseMutex(k, t, m)
           falls == m \in CeilMtx /\ b.priority[t] = CeilPri[m] /\ p # b.priority[t]
<1>1. /\ MFields \subseteq DOMAIN a /\ a.loctsk \in [MTX -> TASK \cup {NoTask}]
      /\ a.mutex_queue \in [TASK -> Seq(MTX)] /\ \A u \in TASK : Distinct(a.mutex_queue[u])
      /\ HoldersMatch(a, {}, {})
      /\ \A u \in TASK : a.tstat[u] # {} => IsCurrent(a, u, bpriority[u])
      /\ Respected(a, bpriority) /\ a.priority \in [TASK -> PRI]
  BY DEF MInv, KInv
<1>2. /\ DOMAIN b = DOMAIN k /\ b.loctsk = k.loctsk
      /\ b.mutex_queue = [k.mutex_queue EXCEPT ![t] = Delete(@, m)]
      /\ b.ready = k.ready /\ b.tstat = k.tstat /\ b.priority = k.priority
      /\ b.tmevt = k.tmevt /\ b.wait_queue = k.wait_queue /\ b.dspreq = k.dspreq
  <2>1. MFields \subseteq DOMAIN k
    BY <1>1
  <2> QED
    BY ONLY <2>1, Zenon DEF MFields, KFields
<1>3. n = IF falls THEN c ELSE b
  BY DEF LoseMutex, DropPriority
<1>4. b = [k EXCEPT !.mutex_queue[t] = Delete(@, m)]
  OBVIOUS
<1> HIDE DEF b, n
<1>5. KInv(b, {}) /\ Advances(a, b)
  <2>1. KFields \subseteq DOMAIN b
    BY <1>1, <1>2 DEF MFields
  <2> QED
    BY <2>1, <1>2, SameKFields DEF Advances
<1>6. Holds(a, t, m) /\ a.tstat[t] # {} /\ \A u \in TASK \ {t} : ~Holds(a, u, m)
  BY <1>1 DEF HoldersMatch
<1>7. /\ Delete(a.mutex_queue[t], m) \in Seq(MTX) /\ Distinct(Delete(a.mutex_queue[t], m))
      /\ \A y : Contains(Delete(a.mutex_queue[t], m), y) <=> Contains(a.mutex_queue[t], y) /\ y # m
  BY <1>1, <1>6, DeleteKeeps DEF Holds
<1>8. \A u \in TASK, y \in MTX : Holds(b, u, y) <=> Holds(a, u, y) /\ y # m
  BY <1>1, <1>2, <1>6, <1>7 DEF Holds
<1>9. HoldersMatch(b, {}, {m})
  <2>1. \A y \in MTX \ {m} : b.loctsk[y] = a.loctsk[y]
    BY <1>1, <1>2
  <2> QED
    <3>1. \A y \in MTX \ {m}, u \in TASK : b.loctsk[y] = u <=> Holds(b, u, y)
      BY <2>1, <1>1, <1>8 DEF HoldersMatch
    <3>2. \A y \in {m}, u \in TASK : ~Holds(b, u, y)
      BY <1>8
    <3>3. \A y \in MTX \ {m} : b.loctsk[y] = NoTask => b.wait_queue[y] = <<>>
      BY <2>1, <1>1, <1>2 DEF HoldersMatch
    <3>4. \A y \in MTX \ {m}, u \in TASK : b.loctsk[y] = u => ~Contains(b.wait_queue[y], u)
      BY <2>1, <1>1, <1>2 DEF HoldersMatch
    <3>5. \A u \in TASK : b.tstat[u] = {} \/ u \in {} => \A y \in MTX : ~Holds(b, u, y)
      BY <1>1, <1>2, <1>8 DEF HoldersMatch
    <3> QED
      BY <3>1, <3>2, <3>3, <3>4, <3>5 DEF HoldersMatch
<1>10. ASSUME NEW u \in TASK \ {t}, b.tstat[u] # {}
       PROVE  IsCurrent(b, u, bpriority[u])
  <2>1. IsCurrent(a, u, bpriority[u])
    BY <1>1, <1>2, <1>10
  <2> QED
    BY <2>1, <1>2, <1>6, <1>8, CeilingsAreNumbers DEF IsCurrent
<1>11. Respected(b, bpriority)
  BY <1>1, <1>2, <1>8, CeilingsAreNumbers DEF Respected
<1>12. /\ b.loctsk \in [MTX -> TASK \cup {NoTask}] /\ b.mutex_queue \in [TASK -> Seq(MTX)]
       /\ \A u \in TASK : Distinct(b.mutex_queue[u])
  BY <1>1, <1>2, <1>7
<1>13. MInvBut(b, bpriority, {m}, t)
  BY <1>1, <1>2, <1>9, <1>10, <1>11, <1>12 DEF MInvBut
<1>14. /\ p \in PRI /\ p <= bpriority[t]
       /\ \A y \in CeilMtx : Holds(b, t, y) => p <= CeilPri[y]
       /\ p = bpriority[t] \/ \E y \in CeilMtx : Holds(b, t, y) /\ p = CeilPri[y]
  BY CalcPriorityIsCurrent
<1> HIDE DEF p
<1>15. CASE falls
  <2>1. PriorityChanged(b, c, {}, t, p)
    BY <1>2, <1>5, <1>6, <1>14, ChangePriorityKeeps
  <2>2. MInv(c, bpriority, {}, {m}) /\ c.loctsk = b.loctsk
    <3> HIDE DEF c
    <3> QED
      BY <2>1, <1>5, <1>13, <1>14, NewPriorityKeeps
  <2>3. KInv(c, {}) /\ Advances(b, c) /\ c.tstat = b.tstat
    BY <2>1 DEF PriorityChanged
  <2> HIDE DEF c
  <2>4. Advances(a, c)
    BY <2>3, <1>5, AdvancesTransitive
  <2>5. /\ "RUNNABLE" \in k.tstat[t] => c.wait_queue = k.wait_queue
        /\ \A w \in WQUEUE : k.wait_queue[w] = <<>> => c.wait_queue[w] = <<>>
    BY <2>1, <1>2 DEF PriorityChanged
  <2> QED
    BY <2>2, <2>3, <2>4, <2>5, <1>2, <1>3, <1>15 DEF n
<1>16. CASE ~falls
  <2>1. IsCurrent(a, t, bpriority[t])
    BY <1>1, <1>6
  <2>2. IsCurrent(b, t, bpriority[t])
    <3>1. b.priority[t] \in Nat /\ bpriority[t] \in Nat /\ p \in Nat
      <4>1. b.priority[t] \in PRI /\ bpriority[t] \in PRI /\ p \in PRI
        BY <1>1, <1>2, <1>14
      <4> QED
        BY <4>1 DEF PRI
    <3>2. /\ b.priority[t] <= bpriority[t]
          /\ \A y \in CeilMtx : Holds(b, t, y) => b.priority[t] <= CeilPri[y]
      BY <2>1, <1>2, <1>8, CeilingsAreNumbers DEF IsCurrent
    <3>3. b.priority[t] = bpriority[t] \/ \E y \in CeilMtx : Holds(b, t, y) /\ b.priority[t] = CeilPri[y]
      <4>1. CASE m \in CeilMtx /\ b.priority[t] = CeilPri[m]
        BY <4>1, <1>14, <1>16
      <4>2. CASE ~(m \in CeilMtx /\ b.priority[t] = CeilPri[m])
        BY <4>2, <2>1, <1>2, <1>8, CeilingsAreNumbers DEF IsCurrent
      <4> QED
        BY <4>1, <4>2
    <3> QED
      BY <3>2, <3>3 DEF IsCurrent
  <2>3. MInv(b, bpriority, {}, {m})
    BY <2>2, <1>13 DEF MInv, MInvBut
  <2> QED
    BY <2>3, <1>2, <1>3, <1>5, <1>16 DEF n
<1> QED
  BY <1>15, <1>16

-----------------------------------------------------------------------------
\* The service calls

\* A call that ends by making k the next state
LEMMA MCommitKeeps ==
    ASSUME MtxInv, NEW k, KInv(k, {}), MInv(k, bpriority', {}, {}), MCommit(k),
           dspflg /\ k.ready.schedtsk # ready.schedtsk => k.dspreq,
           runtsk # NoTask => "RUNNABLE" \in k.tstat[runtsk],
           UNCHANGED <<exist, ipriority, actque, wupque, waifbd, modeVars>>,
           bpriority' \in [TASK -> PRI], mtxexist' \in SUBSET MTX,
           \A m \in MTX \ mtxexist' : k.loctsk[m] = NoTask,
           \A t \in TASK : k.tstat[t] = {} => bpriority'[t] = ipriority[t]
    PROVE  MtxInv'
<1>1. /\ tstat' = k.tstat /\ priority' = k.priority /\ tmevt' = k.tmevt
      /\ wait_queue' = k.wait_queue /\ loctsk' = k.loctsk /\ mutex_queue' = k.mutex_queue
      /\ Commit(k) /\ ipriority' = ipriority
  BY DEF MCommit, Commit
<1>2. IInv' /\ WaitInv'
  BY <1>1, CommitKeeps DEF MtxInv
<1>3. MInv(MState, bpriority, {}, {})'
  <2>1. /\ MState'.tstat = tstat' /\ MState'.priority = priority' /\ MFields \subseteq DOMAIN MState'
        /\ MState'.wait_queue = wait_queue' /\ MState'.loctsk = loctsk'
        /\ MState'.mutex_queue = mutex_queue'
    BY DEF MState, MFields, KFields
  <2>2. MInv(MState', bpriority', {}, {})
    BY <2>1, <1>1, SameMFields
  <2> QED
    BY <2>2
<1>4. (\A m \in MTX \ mtxexist : loctsk[m] = NoTask)'
  BY <1>1
<1>5. (\A t \in TASK : Dormant(t) => bpriority[t] = ipriority[t])'
  BY <1>1 DEF Dormant
<1> QED
  BY <1>2, <1>3, <1>4, <1>5 DEF MtxInv

\* A call that changes no base priority and advances from the present state
LEMMA CallKeeps ==
    ASSUME MtxInv, NEW k, KInv(k, {}), MInv(k, bpriority, {}, {}), MCommit(k),
           dspflg /\ k.ready.schedtsk # ready.schedtsk => k.dspreq,
           NEW n, Advances(MState, n), n.tstat = k.tstat,
           UNCHANGED restVars, mtxexist' \in SUBSET MTX,
           \A m \in MTX \ mtxexist' : k.loctsk[m] = NoTask
    PROVE  MtxInv'
<1>1. /\ UNCHANGED <<exist, ipriority, actque, wupque, waifbd, modeVars>> /\ bpriority' = bpriority
      /\ bpriority \in [TASK -> PRI]
  BY MStateInv DEF restVars
<1>2. runtsk # NoTask => runtsk \in TASK /\ "RUNNABLE" \in tstat[runtsk]
  BY DEF MtxInv, IInv, CpuInv, RunningTaskIsRunnable, Runnable
<1>3. MState.tstat = tstat
  BY MStateFields
<1>4. runtsk # NoTask => "RUNNABLE" \in k.tstat[runtsk]
  BY <1>2, <1>3 DEF Advances
<1>5. \A t \in TASK : k.tstat[t] = {} => bpriority'[t] = ipriority[t]
  BY <1>1, <1>3 DEF Advances, MtxInv, Dormant
<1> QED
  BY <1>1, <1>4, <1>5, MCommitKeeps

\* loc_mtx, tloc_mtx and ploc_mtx on a free mutex: no dispatch is asked for, and
\* none is needed.
LEMMA LockFreeKeeps ==
    ASSUME MtxInv, NEW m \in MTX, TskCtxUnl, MayLock(m), LockFree(m)
    PROVE  MtxInv' /\ InOrder(loctsk, wait_queue, loctsk', tstat')
<1> DEFINE t == runtsk
           n == Acquire(MState, t, m)
           k == [n EXCEPT !.dspreq = FALSE]
<1>1. KInv(MState, {}) /\ MInv(MState, bpriority, {}, {}) /\ bpriority \in [TASK -> PRI]
  BY MStateInv
<1>2. /\ t \in TASK /\ tstat[t] # {} /\ "RUNNABLE" \in tstat[t]
      /\ dspflg => t = ready.schedtsk
  BY TaskContext DEF MtxInv, TskCtxUnl, RunnableTasks, Runnable, Dormant
<1>3. loctsk[m] = NoTask /\ MCommit(k) /\ UNCHANGED restVars /\ mtxexist' = mtxexist
  BY DEF LockFree
<1>4. m \in mtxexist /\ (m \in CeilMtx => CeilPri[m] <= bpriority[t])
  BY DEF MayLock
<1>5. /\ KInv(n, {}) /\ Advances(MState, n) /\ MInv(n, bpriority, {}, {})
      /\ n.loctsk = [loctsk EXCEPT ![m] = t] /\ n.tstat = tstat
      /\ (ready.schedtsk = t => n.ready.schedtsk = t)
  <2>1. /\ MState.tstat = tstat /\ MState.loctsk = loctsk /\ MState.ready = ready
    BY MStateFields
  <2> QED
    BY <2>1, <1>1, <1>2, <1>3, <1>4, AcquireKeeps
<1> HIDE DEF n
<1>6. /\ DOMAIN k = DOMAIN n /\ k.ready = n.ready /\ k.tstat = n.tstat /\ k.priority = n.priority
      /\ k.tmevt = n.tmevt /\ k.wait_queue = n.wait_queue /\ k.loctsk = n.loctsk
      /\ k.mutex_queue = n.mutex_queue
  <2>1. MFields \subseteq DOMAIN n
    BY <1>5 DEF MInv
  <2> QED
    BY ONLY <2>1, Zenon DEF MFields, KFields
<1> HIDE DEF k
<1>7. KInv(k, {}) /\ MInv(k, bpriority, {}, {})
  <2>1. MFields \subseteq DOMAIN k /\ KFields \subseteq DOMAIN k
    BY <1>5, <1>6 DEF MInv, MFields
  <2> QED
    BY <2>1, <1>5, <1>6, SameKFields, SameMFields
<1>8. dspflg /\ k.ready.schedtsk # ready.schedtsk => k.dspreq
  BY <1>2, <1>5, <1>6
<1>9. loctsk \in [MTX -> TASK \cup {NoTask}] /\ wait_queue[m] = <<>>
  <2>1. MInv(MState, bpriority, {}, {}) /\ MState.loctsk = loctsk /\ MState.wait_queue = wait_queue
    BY <1>1, MStateFields
  <2> QED
    BY <2>1, <1>3 DEF MInv, HoldersMatch
<1>10. mtxexist' \in SUBSET MTX /\ \A c \in MTX \ mtxexist' : k.loctsk[c] = NoTask
  BY <1>3, <1>4, <1>5, <1>6, <1>9 DEF MtxInv
<1>11. MtxInv'
  BY <1>3, <1>5, <1>6, <1>7, <1>8, <1>10, CallKeeps
<1>12. loctsk' = [loctsk EXCEPT ![m] = t]
  BY <1>3, <1>5, <1>6 DEF MCommit
<1> QED
  BY <1>9, <1>11, <1>12 DEF InOrder

\* A step that leaves the mutexes and the priorities alone, and lets no task wait
\* for a mutex that is free, its own or of a ceiling too low.
LEMMA HoldersUnchanged ==
    ASSUME MtxInv, IInv', WaitInv',
           UNCHANGED <<mtxexist, loctsk, mutex_queue, priority, bpriority, ipriority>>,
           \A t \in TASK : Dormant(t)' => Dormant(t),
           \A m \in MTX, t \in TASK : Contains(wait_queue'[m], t) =>
               \/ Contains(wait_queue[m], t)
               \/ loctsk[m] # t /\ (m \in CeilMtx => CeilPri[m] <= bpriority[t]),
           \A m \in MTX : loctsk[m] = NoTask => wait_queue'[m] = <<>>
    PROVE  MtxInv' /\ InOrder(loctsk, wait_queue, loctsk', tstat')
<1> DEFINE a == MState
           k == MState'
<1>1. /\ MInv(a, bpriority, {}, {})
      /\ a.tstat = tstat /\ a.priority = priority /\ a.wait_queue = wait_queue
      /\ a.loctsk = loctsk /\ a.mutex_queue = mutex_queue
  BY MStateInv, MStateFields
<1>2. /\ k.tstat = tstat' /\ k.priority = priority' /\ MFields \subseteq DOMAIN k
      /\ k.wait_queue = wait_queue' /\ k.loctsk = loctsk' /\ k.mutex_queue = mutex_queue'
  BY DEF MState, MFields, KFields
<1>3. /\ priority' = priority /\ bpriority' = bpriority /\ ipriority' = ipriority
      /\ loctsk' = loctsk /\ mutex_queue' = mutex_queue /\ mtxexist' = mtxexist
  OBVIOUS
<1> HIDE DEF a, k
<1>4. /\ loctsk \in [MTX -> TASK \cup {NoTask}] /\ mutex_queue \in [TASK -> Seq(MTX)]
      /\ \A u \in TASK : Distinct(mutex_queue[u])
      /\ HoldersMatch(a, {}, {}) /\ Respected(a, bpriority)
      /\ \A u \in TASK : tstat[u] # {} => IsCurrent(a, u, bpriority[u])
  BY <1>1 DEF MInv
<1>5. \A u \in TASK, m \in MTX : Holds(k, u, m) <=> Holds(a, u, m)
  BY <1>1, <1>2, <1>3 DEF Holds
<1>6. HoldersMatch(k, {}, {})
  <2>1. \A m \in MTX, u \in TASK : k.loctsk[m] = u <=> Holds(k, u, m)
    BY <1>1, <1>2, <1>3, <1>4, <1>5 DEF HoldersMatch
  <2>2. \A m \in MTX : k.loctsk[m] = NoTask => k.wait_queue[m] = <<>>
    BY <1>2, <1>3
  <2>3. \A m \in MTX, u \in TASK : k.loctsk[m] = u => ~Contains(k.wait_queue[m], u)
    BY <1>1, <1>2, <1>3, <1>4 DEF HoldersMatch
  <2>4. \A u \in TASK : k.tstat[u] = {} => \A m \in MTX : ~Holds(k, u, m)
    BY <1>1, <1>2, <1>4, <1>5 DEF HoldersMatch, Dormant
  <2> QED
    BY <2>1, <2>2, <2>3, <2>4 DEF HoldersMatch
<1>7. ASSUME NEW u \in TASK
      PROVE  IsCurrent(k, u, bpriority[u])
  <2>1. CASE tstat[u] # {}
    <3>1. IsCurrent(a, u, bpriority[u])
      BY <2>1, <1>4
    <3> QED
      BY <3>1, <1>1, <1>2, <1>3, <1>5, CeilingsAreNumbers DEF IsCurrent
  <2>2. CASE tstat[u] = {}
    <3>1. priority[u] = ipriority[u] /\ bpriority[u] = ipriority[u] /\ ipriority[u] \in Nat
      <4>1. TcbOk(u) /\ Dormant(u) /\ ipriority[u] \in PRI
        BY <2>2 DEF MtxInv, IInv, TcbInv, TcbConsistent, Dormant
      <4> QED
        BY <4>1, CeilingsAreNumbers DEF TcbOk, MtxInv
    <3>2. \A m \in CeilMtx : ~Holds(k, u, m)
      BY <2>2, <1>1, <1>4, <1>5, CeilingsAreNumbers DEF HoldersMatch
    <3> QED
      BY <3>1, <3>2, <1>2, <1>3 DEF IsCurrent
  <2> QED
    BY <2>1, <2>2
<1>8. Respected(k, bpriority)
  <2> SUFFICES ASSUME NEW u \in TASK, NEW m \in CeilMtx,
                      Holds(k, u, m) \/ Contains(k.wait_queue[m], u)
               PROVE  CeilPri[m] <= bpriority[u]
    BY DEF Respected
  <2>1. m \in MTX
    BY CeilingsAreNumbers
  <2> QED
    BY <2>1, <1>1, <1>2, <1>4, <1>5 DEF Respected
<1>9. MInv(k, bpriority', {}, {})
  BY <1>2, <1>3, <1>4, <1>6, <1>7, <1>8 DEF MInv
<1>10. (\A m \in MTX \ mtxexist : loctsk[m] = NoTask)'
  BY <1>3 DEF MtxInv
<1>11. (\A t \in TASK : Dormant(t) => bpriority[t] = ipriority[t])'
  BY <1>3 DEF MtxInv
<1>12. mtxexist' \in SUBSET MTX
  BY <1>3 DEF MtxInv
<1>13. MtxInv'
  BY <1>9, <1>10, <1>11, <1>12 DEF MtxInv, k
<1> QED
  BY <1>3, <1>13 DEF InOrder

\* loc_mtx and tloc_mtx on a mutex of another task: the caller waits.
LEMMA LocMtxWaits ==
    ASSUME MtxInv, NEW m \in MTX, NEW timed \in BOOLEAN, DispatchState, MayLock(m),
           loctsk[m] \notin {NoTask, runtsk}, WobjMakeWait(m, timed),
           UNCHANGED <<restVars, mtxexist, loctsk, mutex_queue>>
    PROVE  MtxInv' /\ InOrder(loctsk, wait_queue, loctsk', tstat')
<1>1. IInv /\ WaitInv /\ m \in WQUEUE /\ UNCHANGED restVars
  BY DEF MtxInv, MTX
<1>2. /\ IInv' /\ WaitInv' /\ runtsk \in RunnableTasks
      /\ tstat' = [tstat EXCEPT ![runtsk] = {"WAITING"} \cup {"WOBJ"}]
      /\ \A v \in WQUEUE, u \in TASK : Contains(wait_queue'[v], u)
                                 <=> Contains(wait_queue[v], u) \/ (v = m /\ u = runtsk)
  BY <1>1, WobjMakeWaitKeeps
<1>3. /\ UNCHANGED <<mtxexist, loctsk, mutex_queue>> /\ priority' = priority
      /\ bpriority' = bpriority /\ ipriority' = ipriority
      /\ wait_queue' = [wait_queue EXCEPT ![m] = QueueInsert(m, @, runtsk, priority)]
  BY DEF restVars, WobjMakeWait
<1>4. \A t \in TASK : Dormant(t)' => Dormant(t)
  BY <1>2 DEF Dormant, RunnableTasks, IInv, TcbInv
<1>5. \A v \in MTX, t \in TASK : Contains(wait_queue'[v], t) =>
          \/ Contains(wait_queue[v], t)
          \/ loctsk[v] # t /\ (v \in CeilMtx => CeilPri[v] <= bpriority[t])
  BY <1>2 DEF MTX, MayLock
<1>6. \A v \in MTX : loctsk[v] = NoTask => wait_queue'[v] = <<>>
  <2>1. MInv(MState, bpriority, {}, {}) /\ MState.loctsk = loctsk /\ MState.wait_queue = wait_queue
    BY MStateInv, MStateFields
  <2>2. \A v \in MTX : loctsk[v] = NoTask => wait_queue[v] = <<>> /\ v # m
    BY <2>1 DEF MInv, HoldersMatch
  <2>3. wait_queue \in [MTX -> Seq(TASK)]
    BY <1>1 DEF WaitInv, QueuesHold, MTX
  <2> QED
    BY <2>2, <2>3, <1>3
<1> QED
  BY <1>2, <1>3, <1>4, <1>5, <1>6, HoldersUnchanged

\* rel_wai, irel_wai and the timeout of a task that waits for a mutex
LEMMA ReleaseQueuedMtxKeeps ==
    ASSUME MtxInv, NEW t \in TASK, ReleaseQueued(t), UNCHANGED <<mtxexist, loctsk, mutex_queue>>
    PROVE  MtxInv' /\ InOrder(loctsk, wait_queue, loctsk', tstat')
<1>1. IInv /\ WaitInv
  BY DEF MtxInv
<1>2. /\ IInv' /\ WaitInv' /\ UNCHANGED <<priority, bpriority, ipriority>>
      /\ wait_queue' = [w \in WQUEUE |-> Unlinked(wait_queue[w], t)]
      /\ \A u \in TASK : Dormant(u)' <=> Dormant(u)
  BY <1>1, ReleaseQueuedKeeps
<1>3. ASSUME NEW v \in MTX
      PROVE  /\ \A u \in TASK : Contains(wait_queue'[v], u) => Contains(wait_queue[v], u)
             /\ wait_queue[v] = <<>> => wait_queue'[v] = <<>>
  <2>1. /\ wait_queue[v] \in Seq(TASK) /\ Distinct(wait_queue[v])
        /\ wait_queue'[v] = Unlinked(wait_queue[v], t)
    BY <1>1, <1>2 DEF WaitInv, QueuesHold, MTX
  <2>2. wait_queue[v] = <<>> => ~Contains(wait_queue[v], t)
    BY DEF Contains
  <2> QED
    BY <2>1, <2>2, UnlinkedKeeps
<1>4. \A v \in MTX : loctsk[v] = NoTask => wait_queue'[v] = <<>>
  <2>1. MInv(MState, bpriority, {}, {}) /\ MState.loctsk = loctsk /\ MState.wait_queue = wait_queue
    BY MStateInv, MStateFields
  <2> QED
    BY <2>1, <1>3 DEF MInv, HoldersMatch
<1> QED
  BY <1>2, <1>3, <1>4, HoldersUnchanged

\* The operations of the scheduler leave the mutexes alone.
LEMMA SchedulerStepMtxKeeps ==
    ASSUME MtxInv, SchedulerStep, UNCHANGED mtxVars
    PROVE  MtxInv' /\ InOrder(loctsk, wait_queue, loctsk', tstat')
<1>1. IInv /\ WaitInv /\ UNCHANGED <<mtxexist, loctsk, mutex_queue>> /\ wait_queue' = wait_queue
  BY DEF MtxInv, mtxVars
<1>2. /\ IInv' /\ WaitInv' /\ UNCHANGED <<ipriority, bpriority, priority>>
      /\ \A t \in TASK : (Queued(t)' <=> Queued(t)) /\ (Dormant(t)' => Dormant(t))
  BY <1>1, SchedulerStepKeeps
<1>3. \A v \in MTX : loctsk[v] = NoTask => wait_queue'[v] = <<>>
  <2>1. MInv(MState, bpriority, {}, {}) /\ MState.loctsk = loctsk /\ MState.wait_queue = wait_queue
    BY MStateInv, MStateFields
  <2> QED
    BY <2>1, <1>1 DEF MInv, HoldersMatch
<1> QED
  BY <1>1, <1>2, <1>3, HoldersUnchanged

\* unl_mtx
LEMMA UnlMtxKeeps ==
    ASSUME MtxInv, NEW m \in MTX, UnlMtx(m)
    PROVE  MtxInv' /\ InOrder(loctsk, wait_queue, loctsk', tstat')
<1> DEFINE a == MState
           t == runtsk
           n == LoseMutex(a, t, m)
           k == Release(n, m)
<1>1. KInv(a, {}) /\ MInv(a, bpriority, {}, {}) /\ bpriority \in [TASK -> PRI]
  BY MStateInv
<1>2. /\ a.ready = ready /\ a.tstat = tstat /\ a.loctsk = loctsk /\ a.wait_queue = wait_queue
      /\ a.dspreq = FALSE
  BY MStateFields
<1>3. /\ loctsk[m] = t /\ MCommit(k) /\ UNCHANGED restVars /\ mtxexist' = mtxexist /\ m \in mtxexist
  BY DEF UnlMtx
<1>4. t \in TASK /\ "RUNNABLE" \in tstat[t]
  BY TaskContext DEF MtxInv, UnlMtx, TskCtxUnl, RunnableTasks, Runnable
<1>5. loctsk \in [MTX -> TASK \cup {NoTask}]
  BY <1>1, <1>2 DEF MInv
<1> HIDE DEF a
<1>6. /\ KInv(n, {}) /\ Advances(a, n) /\ MInv(n, bpriority, {}, {m})
      /\ n.loctsk = loctsk /\ n.wait_queue = wait_queue
  <2>1. ButLoctsk(a, a, m)
    BY <1>2, <1>5 DEF ButLoctsk
  <2>2. a.loctsk[m] = t /\ "RUNNABLE" \in a.tstat[t]
    BY <1>2, <1>3, <1>4
  <2>3. MutexLost(a, a, n, t, m)
    BY <2>1, <2>2, <1>1, <1>4, LoseMutexKeeps
  <2> QED
    BY <2>2, <2>3, <1>2 DEF MutexLost
<1> HIDE DEF n
<1>7. HandedOver(n, k, bpriority, {}, {m}, m)
  BY <1>1, <1>6, ReleaseKeeps
<1> HIDE DEF k
<1>8. /\ KInv(k, {}) /\ Advances(a, k) /\ MInv(k, bpriority, {}, {})
      /\ k.loctsk = [loctsk EXCEPT ![m] = NextLocker(n, m)]
      /\ wait_queue[m] # <<>> => "WOBJ" \notin k.tstat[Head(wait_queue[m])]
  <2>1. {m} \ {m} = {}
    OBVIOUS
  <2> QED
    BY <2>1, <1>6, <1>7, AdvancesTransitive DEF HandedOver, NextLocker
<1>9. dspflg /\ k.ready.schedtsk # ready.schedtsk => k.dspreq
  BY <1>2, <1>8 DEF Advances
<1>10. mtxexist' \in SUBSET MTX /\ \A c \in MTX \ mtxexist' : k.loctsk[c] = NoTask
  BY <1>3, <1>5, <1>8 DEF MtxInv
<1>11. MtxInv'
  BY <1>3, <1>8, <1>9, <1>10, CallKeeps DEF a
<1>12. loctsk' = k.loctsk /\ tstat' = k.tstat
  BY <1>3 DEF MCommit, Commit
<1>13. InOrder(loctsk, wait_queue, loctsk', tstat')
  <2> SUFFICES ASSUME NEW c \in MTX, loctsk'[c] \notin {NoTask, loctsk[c]}, wait_queue[c] # <<>>
               PROVE  loctsk'[c] = Head(wait_queue[c]) /\ "WOBJ" \notin tstat'[loctsk'[c]]
    BY DEF InOrder
  <2>1. c = m
    BY <1>5, <1>8, <1>12
  <2> QED
    BY <2>1, <1>5, <1>6, <1>8, <1>12 DEF NextLocker
<1> QED
  BY <1>11, <1>13

\* What ini_mtx and del_mtx leave: m is free and nobody waits for it.
LEMMA InitializedKeeps ==
    ASSUME MtxInv, NEW m \in MTX
    PROVE  LET n == Initialized(m)
           IN  /\ KInv(n, {}) /\ Advances(MState, n) /\ MInv(n, bpriority, {}, {})
               /\ n.loctsk = [loctsk EXCEPT ![m] = NoTask]
<1> DEFINE a == MState
           k == InitWaitQueue(a, m)
           t == loctsk[m]
           e == [k EXCEPT !.loctsk[m] = NoTask]
           n == Initialized(m)
<1>1. KInv(a, {}) /\ MInv(a, bpriority, {}, {}) /\ bpriority \in [TASK -> PRI]
  BY MStateInv
<1>2. /\ a.loctsk = loctsk /\ a.wait_queue = wait_queue /\ a.tstat = tstat
      /\ a.mutex_queue = mutex_queue /\ a.priority = priority /\ MFields \subseteq DOMAIN a
  BY MStateFields
<1>3. n = IF t = NoTask THEN k ELSE LoseMutex(e, t, m)
  BY DEF Initialized
<1>4. QueueReleased(a, k, {}, m)
  BY <1>1, InitWaitQueueKeeps DEF MTX
<1> HIDE DEF a, k, n
<1>5. /\ KInv(k, {}) /\ Advances(a, k) /\ k.priority = priority /\ k.wait_queue[m] = <<>>
      /\ \A v \in MTX \ {m} : k.wait_queue[v] = wait_queue[v]
      /\ DOMAIN k = DOMAIN a
  BY <1>2, <1>4 DEF QueueReleased, MTX, Advances
<1>6. k.loctsk = loctsk /\ k.mutex_queue = mutex_queue
  <2>1. "loctsk" \in DOMAIN a \ KFields /\ "mutex_queue" \in DOMAIN a \ KFields
    BY <1>2 DEF MFields, KFields
  <2>2. k["loctsk"] = a["loctsk"] /\ k["mutex_queue"] = a["mutex_queue"]
    BY <2>1, <1>4 DEF QueueReleased
  <2> QED
    BY <2>2, <1>2
<1>7. /\ loctsk \in [MTX -> TASK \cup {NoTask}] /\ mutex_queue \in [TASK -> Seq(MTX)]
      /\ \A u \in TASK : Distinct(mutex_queue[u])
      /\ HoldersMatch(a, {}, {}) /\ Respected(a, bpriority)
      /\ \A u \in TASK : tstat[u] # {} => IsCurrent(a, u, bpriority[u])
  BY <1>1, <1>2 DEF MInv
<1>8. \A u \in TASK, c \in MTX : Holds(k, u, c) <=> Holds(a, u, c)
  BY <1>2, <1>6 DEF Holds
<1>9. MInv(k, bpriority, {}, {})
  <2>1. \A u : ~Contains(k.wait_queue[m], u)
    <3>1. Len(<<>>) = 0
      OBVIOUS
    <3> QED
      BY <3>1, <1>5 DEF Contains
  <2>2. \A u \in TASK : k.tstat[u] = {} <=> tstat[u] = {}
    BY <1>2, <1>5 DEF Advances
  <2>3. HoldersMatch(k, {}, {})
    <3>1. \A c \in MTX, u \in TASK : k.loctsk[c] = u <=> Holds(k, u, c)
      BY <1>2, <1>6, <1>7, <1>8 DEF HoldersMatch
    <3>2. \A c \in MTX : k.loctsk[c] = NoTask => k.wait_queue[c] = <<>>
      BY <1>2, <1>5, <1>6, <1>7 DEF HoldersMatch
    <3>3. \A c \in MTX, u \in TASK : k.loctsk[c] = u => ~Contains(k.wait_queue[c], u)
      BY <2>1, <1>2, <1>5, <1>6, <1>7 DEF HoldersMatch
    <3>4. \A u \in TASK : k.tstat[u] = {} => \A c \in MTX : ~Holds(k, u, c)
      BY <2>2, <1>2, <1>7, <1>8 DEF HoldersMatch
    <3> QED
      BY <3>1, <3>2, <3>3, <3>4 DEF HoldersMatch
  <2>4. \A u \in TASK : k.tstat[u] # {} => IsCurrent(k, u, bpriority[u])
    BY <2>2, <1>2, <1>5, <1>7, <1>8, CeilingsAreNumbers DEF IsCurrent
  <2>5. Respected(k, bpriority)
    BY <2>1, <1>2, <1>5, <1>7, <1>8, CeilingsAreNumbers DEF Respected
  <2> QED
    BY <2>3, <2>4, <2>5, <1>2, <1>5, <1>6, <1>7 DEF MInv
<1>10. CASE t = NoTask
  <2>1. loctsk = [loctsk EXCEPT ![m] = NoTask]
    BY <1>7, <1>10
  <2> QED
    BY <2>1, <1>3, <1>5, <1>6, <1>9, <1>10 DEF n, a
<1>11. CASE t # NoTask
  <2>1. t \in TASK /\ k.loctsk[m] = t
    BY <1>6, <1>7, <1>11
  <2>2. /\ DOMAIN e = DOMAIN k /\ e.ready = k.ready /\ e.tstat = k.tstat /\ e.priority = k.priority
        /\ e.tmevt = k.tmevt /\ e.wait_queue = k.wait_queue /\ e.dspreq = k.dspreq
        /\ e.mutex_queue = k.mutex_queue /\ e.loctsk = [k.loctsk EXCEPT ![m] = NoTask]
    <3>1. MFields \subseteq DOMAIN k
      BY <1>2, <1>5
    <3> QED
      BY ONLY <3>1, Zenon DEF MFields, KFields
  <2> HIDE DEF e
  <2>3. n = LoseMutex(e, t, m)
    BY <1>3, <1>11
  <2>4. /\ KInv(n, {}) /\ Advances(k, n) /\ MInv(n, bpriority, {}, {m})
        /\ n.loctsk = e.loctsk
        /\ n.wait_queue[m] = <<>>
    <3> DEFINE y == LoseMutex(e, t, m)
    <3>1. /\ KInv(y, {}) /\ Advances(k, y) /\ MInv(y, bpriority, {}, {m})
          /\ y.loctsk = e.loctsk
          /\ \A w \in WQUEUE : e.wait_queue[w] = <<>> => y.wait_queue[w] = <<>>
      <4>1. ButLoctsk(k, e, m)
        BY <2>2, <1>5, <1>6, <1>7 DEF ButLoctsk
      <4>2. MutexLost(k, e, y, t, m)
        BY <2>1, <4>1, <1>1, <1>5, <1>9, LoseMutexKeeps
      <4> QED
        BY <4>2 DEF MutexLost
    <3> HIDE DEF y
    <3>2. n = y
      BY <2>3 DEF y
    <3> QED
      BY <3>1, <3>2, <2>2, <1>5 DEF MTX
  <2>5. n.loctsk = [loctsk EXCEPT ![m] = NoTask]
    BY <2>2, <2>4, <1>6
  <2>6. MInv(n, bpriority, {}, {})
    <3>1. HoldersMatch(n, {}, {m}) /\ n.loctsk[m] = NoTask
      BY <2>4, <2>5, <1>7 DEF MInv
    <3>2. \A u \in TASK : ~Holds(n, u, m) /\ n.loctsk[m] # u
      BY <3>1, NoTaskAssumption DEF HoldersMatch
    <3>3. HoldersMatch(n, {}, {})
      BY <3>1, <3>2, <2>4 DEF HoldersMatch
    <3> QED
      BY <3>3, <2>4 DEF MInv
  <2> QED
    BY <2>4, <2>5, <2>6, <1>5, AdvancesTransitive DEF n, a
<1> QED
  BY <1>10, <1>11

\* ini_mtx and del_mtx
LEMMA IniDelMtxKeeps ==
    ASSUME MtxInv, NEW m \in MTX, IniMtx(m) \/ DelMtx(m)
    PROVE  MtxInv' /\ InOrder(loctsk, wait_queue, loctsk', tstat')
<1> DEFINE k == Initialized(m)
<1>1. /\ KInv(k, {}) /\ Advances(MState, k) /\ MInv(k, bpriority, {}, {})
      /\ k.loctsk = [loctsk EXCEPT ![m] = NoTask]
  BY InitializedKeeps
<1>2. /\ MCommit(k) /\ UNCHANGED restVars /\ m \in mtxexist
      /\ mtxexist' = mtxexist \/ mtxexist' = mtxexist \ {m}
  BY DEF IniMtx, DelMtx
<1> HIDE DEF k
<1>3. MState.ready = ready /\ MState.loctsk = loctsk /\ loctsk \in [MTX -> TASK \cup {NoTask}]
  BY MStateInv, MStateFields DEF MInv
<1>4. dspflg /\ k.ready.schedtsk # ready.schedtsk => k.dspreq
  BY <1>1, <1>3 DEF Advances
<1>5. mtxexist' \in SUBSET MTX /\ \A c \in MTX \ mtxexist' : k.loctsk[c] = NoTask
  BY <1>1, <1>2, <1>3 DEF MtxInv
<1>6. MtxInv'
  BY <1>1, <1>2, <1>4, <1>5, CallKeeps
<1>7. loctsk' = [loctsk EXCEPT ![m] = NoTask]
  BY <1>1, <1>2 DEF MCommit
<1> QED
  BY <1>3, <1>6, <1>7 DEF InOrder

\* chg_pri: while a ceiling holds the priority of t up it stays, since no ceiling
\* is below the old or the new base priority.
LEMMA ChgPriMtxKeeps ==
    ASSUME MtxInv, NEW t \in TASK, NEW p \in PRI, ChgPriMtx(t, p)
    PROVE  MtxInv' /\ InOrder(loctsk, wait_queue, loctsk', tstat')
<1> DEFINE a == MState
           c == ChangePriorityK(a, t, p, FALSE)
           k == IF ScanCeilmtx(t) THEN a ELSE c
           b == [bpriority EXCEPT ![t] = p]
<1>1. KInv(a, {}) /\ MInv(a, bpriority, {}, {}) /\ bpriority \in [TASK -> PRI]
  BY MStateInv
<1>2. /\ a.loctsk = loctsk /\ a.wait_queue = wait_queue /\ a.tstat = tstat /\ a.ready = ready
      /\ a.mutex_queue = mutex_queue /\ a.priority = priority /\ MFields \subseteq DOMAIN a
      /\ a.dspreq = FALSE
  BY MStateFields
<1>3. /\ MCommit(k) /\ bpriority' = b /\ mtxexist' = mtxexist
      /\ UNCHANGED <<exist, ipriority, actque, wupque, waifbd, modeVars>>
      /\ t \in exist /\ tstat[t] # {} /\ CheckCeilpri(t, p) /\ nest = 0
  BY DEF ChgPriMtx, Dormant, TskCtxUnl
<1> HIDE DEF a, c, k
<1>4. /\ loctsk \in [MTX -> TASK \cup {NoTask}] /\ mutex_queue \in [TASK -> Seq(MTX)]
      /\ \A u \in TASK : Distinct(mutex_queue[u])
      /\ HoldersMatch(a, {}, {}) /\ Respected(a, bpriority)
      /\ \A u \in TASK : tstat[u] # {} => IsCurrent(a, u, bpriority[u])
      /\ priority \in [TASK -> PRI]
  BY <1>1, <1>2 DEF MInv, KInv
<1>5. b \in [TASK -> PRI] /\ b[t] = p /\ \A u \in TASK \ {t} : b[u] = bpriority[u]
  BY <1>1
<1> HIDE DEF b
<1>6. \A m \in CeilMtx : Holds(a, t, m) \/ Contains(wait_queue[m], t) => CeilPri[m] <= p
  BY <1>2, <1>3, CeilingsAreNumbers DEF CheckCeilpri, Held, Holds
<1>7. Respected(a, b)
  <2> SUFFICES ASSUME NEW u \in TASK, NEW m \in CeilMtx,
                      Holds(a, u, m) \/ Contains(a.wait_queue[m], u)
               PROVE  CeilPri[m] <= b[u]
    BY DEF Respected
  <2> QED
    BY <1>2, <1>4, <1>5, <1>6 DEF Respected
<1>8. MInvBut(a, b, {}, t)
  BY <1>2, <1>4, <1>5, <1>7 DEF MInvBut
<1>9. ScanCeilmtx(t) <=> \E m \in CeilMtx : Holds(a, t, m)
  BY <1>2, CeilingsAreNumbers DEF ScanCeilmtx, Held, Holds
<1>10. KInv(k, {}) /\ MInv(k, b, {}, {}) /\ k.loctsk = loctsk /\ Advances(a, k) /\ k.tstat = tstat
  <2>1. CASE ScanCeilmtx(t)
    <3>1. k = a
      BY <2>1 DEF k
    <3>2. PICK m \in CeilMtx : Holds(a, t, m)
      BY <2>1, <1>9
    <3>3. /\ a.priority[t] <= CeilPri[m] /\ CeilPri[m] <= p /\ CeilPri[m] <= bpriority[t]
          /\ IsCurrent(a, t, bpriority[t])
      BY <3>2, <1>3, <1>4, <1>6 DEF Respected, IsCurrent
    <3>4. a.priority[t] \in Nat /\ CeilPri[m] \in Nat /\ p \in Nat /\ bpriority[t] \in Nat
      BY <1>1, <1>2, <1>4, CeilingsAreNumbers
    <3>5. IsCurrent(a, t, b[t])
      <4>1. a.priority[t] <= p
        BY <3>3, <3>4
      <4>2. \E y \in CeilMtx : Holds(a, t, y) /\ a.priority[t] = CeilPri[y]
        <5>1. CASE a.priority[t] = bpriority[t]
          <6>1. a.priority[t] = CeilPri[m]
            BY <5>1, <3>3, <3>4
          <6> QED
            BY <6>1, <3>2
        <5>2. CASE a.priority[t] # bpriority[t]
          BY <5>2, <3>3 DEF IsCurrent
        <5> QED
          BY <5>1, <5>2
      <4> QED
        BY <4>1, <4>2, <3>3, <1>5 DEF IsCurrent
    <3>6. MInv(a, b, {}, {})
      BY <3>5, <1>8 DEF MInv, MInvBut
    <3> QED
      BY <3>1, <3>6, <1>1, <1>2, AdvancesReflexive
  <2>2. CASE ~ScanCeilmtx(t)
    <3>1. k = c
      BY <2>2 DEF k
    <3>2. PriorityChanged(a, c, {}, t, p)
      BY <1>1, <1>2, <1>3, ChangePriorityKeeps DEF c
    <3>3. p <= b[t] /\ p = b[t]
      BY <1>5, CeilingsAreNumbers
    <3>4. MInv(c, b, {}, {}) /\ c.loctsk = a.loctsk
      BY <3>2, <3>3, <2>2, <1>1, <1>5, <1>6, <1>8, <1>9, NewPriorityKeeps
    <3> QED
      BY <3>1, <3>2, <3>4, <1>2 DEF PriorityChanged
  <2> QED
    BY <2>1, <2>2
<1>11. dspflg /\ k.ready.schedtsk # ready.schedtsk => k.dspreq
  BY <1>2, <1>10 DEF Advances
<1>12. runtsk # NoTask => "RUNNABLE" \in k.tstat[runtsk]
  BY <1>10 DEF MtxInv, IInv, CpuInv, RunningTaskIsRunnable, Runnable
<1>13. \A u \in TASK : k.tstat[u] = {} => bpriority'[u] = ipriority[u]
  BY <1>3, <1>5, <1>10 DEF MtxInv, Dormant
<1>14. mtxexist' \in SUBSET MTX /\ \A m \in MTX \ mtxexist' : k.loctsk[m] = NoTask
  BY <1>3, <1>10 DEF MtxInv
<1>15. MtxInv'
  BY <1>3, <1>5, <1>10, <1>11, <1>12, <1>13, <1>14, MCommitKeeps
<1>16. loctsk' = loctsk
  BY <1>3, <1>10 DEF MCommit
<1> QED
  BY <1>15, <1>16 DEF InOrder

\* acre_mtx: a new mutex is free.
LEMMA AcreMtxKeeps ==
    ASSUME MtxInv, NEW m \in MTX, AcreMtx(m)
    PROVE  MtxInv' /\ InOrder(loctsk, wait_queue, loctsk', tstat')
<1>1. UNCHANGED vars /\ UNCHANGED <<loctsk, mutex_queue, wait_queue>>
  BY DEF AcreMtx
<1>2. IInv'
  BY <1>1, StutterInv DEF MtxInv
<1>3. /\ tstat' = tstat /\ priority' = priority /\ bpriority' = bpriority /\ ipriority' = ipriority
      /\ loctsk' = loctsk /\ mutex_queue' = mutex_queue /\ wait_queue' = wait_queue
  BY <1>1 DEF vars, tcbVars
<1>4. WaitInv'
  BY <1>3, WaitUnchanged DEF MtxInv, Queued
<1>5. MInv(MState, bpriority, {}, {})'
  <2>1. /\ MState'.tstat = tstat /\ MState'.priority = priority /\ MFields \subseteq DOMAIN MState'
        /\ MState'.wait_queue = wait_queue /\ MState'.loctsk = loctsk
        /\ MState'.mutex_queue = mutex_queue
    BY <1>3 DEF MState, MFields, KFields
  <2>2. MInv(MState', bpriority, {}, {})
    BY <2>1, MStateInv, MStateFields, SameMFields
  <2> QED
    BY <2>2, <1>3
<1>6. mtxexist' \in SUBSET MTX /\ \A c \in MTX \ mtxexist' : loctsk'[c] = NoTask
  BY <1>3 DEF AcreMtx, MtxInv
<1>7. \A t \in TASK : Dormant(t)' => bpriority'[t] = ipriority'[t]
  BY <1>3 DEF MtxInv, Dormant
<1>8. MtxInv'
  BY <1>2, <1>4, <1>5, <1>6, <1>7 DEF MtxInv
<1> QED
  BY <1>3, <1>8 DEF InOrder

-----------------------------------------------------------------------------
\* Every behaviour

\* At first no mutex is locked.
LEMMA MtxInitInv == MtxInit => MtxInv
<1> SUFFICES ASSUME MtxInit
             PROVE  MtxInv
  OBVIOUS
<1>1. /\ Init /\ mtxexist = MTX \ DynMtx /\ loctsk = [m \in MTX |-> NoTask]
      /\ mutex_queue = [t \in TASK |-> <<>>] /\ wait_queue = [m \in MTX |-> <<>>]
  BY DEF MtxInit
<1>2. IInv /\ WaitInv
  BY <1>1, InitWaitInv DEF MTX
<1>3. /\ ipriority = IniPriority /\ bpriority = IniPriority /\ priority = IniPriority
      /\ IniPriority \in [TASK -> PRI]
  BY <1>1, PriorityAssumption DEF Init
<1> DEFINE a == MState
<1>4. /\ MFields \subseteq DOMAIN a /\ a.priority = priority /\ a.wait_queue = wait_queue
      /\ a.loctsk = loctsk /\ a.mutex_queue = mutex_queue
  BY MStateFields
<1> HIDE DEF a
<1>5. \A t \in TASK : a.mutex_queue[t] = <<>> /\ <<>> \in Seq(MTX) /\ Len(<<>>) = 0
  BY <1>1, <1>4
<1>6. \A t \in TASK, m \in MTX : ~Holds(a, t, m) /\ ~Contains(a.wait_queue[m], t)
  BY <1>1, <1>4, <1>5 DEF Holds, Contains
<1>7. \A m \in MTX, t \in TASK : a.loctsk[m] = NoTask /\ a.loctsk[m] # t /\ a.wait_queue[m] = <<>>
  BY <1>1, <1>4, NoTaskAssumption
<1>8. HoldersMatch(a, {}, {})
  BY <1>1, <1>4, <1>6, <1>7 DEF HoldersMatch
<1>9. ASSUME NEW t \in TASK
      PROVE  IsCurrent(a, t, bpriority[t])
  <2>1. a.priority[t] = bpriority[t] /\ bpriority[t] \in PRI
    BY <1>3, <1>4
  <2>2. a.priority[t] <= bpriority[t]
    BY <2>1 DEF PRI
  <2>3. \A m \in CeilMtx : ~Holds(a, t, m)
    BY <1>6, CeilingsAreNumbers
  <2> QED
    BY <2>1, <2>2, <2>3 DEF IsCurrent
<1>10. Respected(a, bpriority)
  BY <1>6, CeilingsAreNumbers DEF Respected
<1>11. /\ a.loctsk \in [MTX -> TASK \cup {NoTask}] /\ a.mutex_queue \in [TASK -> Seq(MTX)]
       /\ \A t \in TASK : Distinct(a.mutex_queue[t])
  BY <1>1, <1>4, <1>5 DEF Distinct
<1>12. MInv(a, bpriority, {}, {})
  BY <1>4, <1>8, <1>9, <1>10, <1>11 DEF MInv
<1> QED
  BY <1>1, <1>2, <1>3, <1>12 DEF MtxInv, a

\* Every step keeps the invariant and hands mutexes over in order.
LEMMA MtxNextInv ==
    ASSUME MtxInv, MtxNext
    PROVE  MtxInv' /\ InOrder(loctsk, wait_queue, loctsk', tstat')
<1>1. ASSUME NEW m \in MTX, MutexService(m)
      PROVE  MtxInv' /\ InOrder(loctsk, wait_queue, loctsk', tstat')
  <2>1. CASE PlocMtx(m)
    BY <2>1, LockFreeKeeps DEF PlocMtx
  <2>2. CASE UnlMtx(m)
    BY <2>2, UnlMtxKeeps
  <2>3. CASE IniMtx(m) \/ DelMtx(m)
    BY <2>3, IniDelMtxKeeps
  <2>4. CASE AcreMtx(m)
    BY <2>4, AcreMtxKeeps
  <2>5. ASSUME NEW timed \in BOOLEAN, LocMtx(m, timed)
        PROVE  MtxInv' /\ InOrder(loctsk, wait_queue, loctsk', tstat')
    <3>1. CASE LockFree(m)
      BY <2>5, <3>1, LockFreeKeeps DEF LocMtx, DispatchState
    <3>2. CASE ~LockFree(m)
      BY <2>5, <3>2, LocMtxWaits DEF LocMtx
    <3> QED
      BY <3>1, <3>2
  <2> QED
    BY <1>1, <2>1, <2>2, <2>3, <2>4, <2>5 DEF MutexService
<1>2. ASSUME NEW t \in TASK, TaskServiceMtx(t)
      PROVE  MtxInv' /\ InOrder(loctsk, wait_queue, loctsk', tstat')
  <2>1. CASE TerTskMtx(t)
    BY <2>1, TerTskMtxKeeps
  <2>2. CASE \E p \in PRI : ChgPriMtx(t, p)
    BY <2>2, ChgPriMtxKeeps
  <2>3. CASE (RelWaiQueued(t) \/ WaitTmoutQueued(t)) /\ UNCHANGED <<mtxexist, loctsk, mutex_queue>>
    BY <2>3, ReleaseQueuedMtxKeeps DEF RelWaiQueued, WaitTmoutQueued
  <2> QED
    BY <1>2, <2>1, <2>2, <2>3 DEF TaskServiceMtx
<1> QED
  BY <1>1, <1>2, ExtTskMtxKeeps, SchedulerStepMtxKeeps DEF MtxNext

\* A stuttering step changes nothing.
LEMMA MtxStutter ==
    ASSUME MtxInv, UNCHANGED allVars
    PROVE  MtxInv'
<1>1. UNCHANGED vars /\ UNCHANGED mtxVars
  BY DEF allVars
<1>2. IInv'
  BY <1>1, StutterInv DEF MtxInv
<1>3. /\ tstat' = tstat /\ priority' = priority /\ bpriority' = bpriority /\ ipriority' = ipriority
      /\ wait_queue' = wait_queue /\ UNCHANGED <<mtxexist, loctsk, mutex_queue>>
  BY <1>1 DEF vars, tcbVars, mtxVars
<1>4. WaitInv'
  BY <1>3, WaitUnchanged DEF MtxInv, Queued
<1>5. \A m \in MTX : loctsk[m] = NoTask => wait_queue'[m] = <<>>
  BY <1>3, MStateInv, MStateFields DEF MInv, HoldersMatch
<1> QED
  BY <1>2, <1>3, <1>4, <1>5, HoldersUnchanged DEF Dormant

\* The invariant holds of every behaviour.
THEOREM MtxInvariance == MtxSpec => []MtxInv
<1>1. MtxInv /\ [MtxNext]_allVars => MtxInv'
  BY MtxNextInv, MtxStutter
<1> QED
  BY MtxInitInv, <1>1, PTL DEF MtxSpec

\* While mutexes raise and lower priorities and pass from task to task, the
\* queues of the scheduler and the wait queues stay right and in order, and no
\* dispatch is lost.
THEOREM MtxCorrect == MtxSpec => []MtxConsistent
<1>1. MtxInv => MtxConsistent
  <2> SUFFICES ASSUME MtxInv
               PROVE  MtxConsistent
    OBVIOUS
  <2>1. TypeOK /\ WaitsConsistent
    BY WaitsAreConsistent DEF MtxInv
  <2>2. /\ loctsk \in [MTX -> TASK \cup {NoTask}] /\ mutex_queue \in [TASK -> Seq(MTX)]
        /\ \A t \in TASK : Distinct(mutex_queue[t])
    BY MStateInv, MStateFields DEF MInv
  <2>3. ASSUME NEW t \in TASK
        PROVE  mutex_queue[t] \in Seq(MTX) /\ IsInjective(mutex_queue[t])
    <3>1. mutex_queue[t] \in Seq(MTX) /\ Distinct(mutex_queue[t])
      BY <2>2
    <3>2. DOMAIN mutex_queue[t] = 1 .. Len(mutex_queue[t])
      BY <3>1
    <3> QED
      BY <3>1, <3>2 DEF Distinct, IsInjective
  <2>4. \A m \in MTX : wait_queue[m] \in Seq(TASK)
    BY DEF MtxInv, WaitInv, QueuesHold, MTX
  <2> QED
    BY <2>1, <2>2, <2>3, <2>4 DEF MtxConsistent, MtxTypeOK, MtxInv
<1> QED
  BY MtxInvariance, <1>1, PTL

\* p_loctsk and the lists of the tasks agree, a task that ends holds nothing, and
\* no release leaves a waiting task behind.
THEOREM HolderCorrect == MtxSpec => []HolderConsistent
<1>1. MtxInv => HolderConsistent
  <2> SUFFICES ASSUME MtxInv
               PROVE  HolderConsistent
    OBVIOUS
  <2>1. HoldersMatch(MState, {}, {})
    BY MStateInv DEF MInv
  <2>2. \A t \in TASK, m \in MTX : Holds(MState, t, m) <=> m \in Held(t)
    BY MStateFields DEF Holds, Held
  <2>3. \A t \in TASK : Dormant(t) => Held(t) = {}
    <3>1. ASSUME NEW t \in TASK, Dormant(t)
          PROVE  \A m \in MTX : m \notin Held(t)
      BY <3>1, <2>1, <2>2, MStateFields DEF HoldersMatch, Dormant
    <3> QED
      BY <3>1 DEF Held
  <2> QED
    BY <2>1, <2>2, <2>3, MStateFields DEF HoldersMatch, HolderConsistent, MtxInv
<1> QED
  BY MtxInvariance, <1>1, PTL

\* The current priority is the highest of the base priority and the ceilings of the
\* mutexes held, although the code recalculates it only when a ceiling that may have set
\* it goes.
THEOREM PriorityCorrect == MtxSpec => []PriorityIsCurrent
<1>1. MtxInv => PriorityIsCurrent
  <2> SUFFICES ASSUME MtxInv, NEW t \in TASK, ~Dormant(t)
               PROVE  LET levels == {bpriority[t]} \cup {CeilPri[m] : m \in Held(t) \cap CeilMtx}
                      IN  priority[t] \in levels /\ \A p \in levels : priority[t] <= p
    BY DEF PriorityIsCurrent
  <2>1. IsCurrent(MState, t, bpriority[t]) /\ MState.priority = priority
    BY MStateInv, MStateFields DEF MInv, Dormant
  <2>2. \A m \in CeilMtx : Holds(MState, t, m) <=> m \in Held(t) \cap CeilMtx
    BY CeilingsAreNumbers, MStateFields DEF Holds, Held
  <2> QED
    BY <2>1, <2>2 DEF IsCurrent
<1> QED
  BY MtxInvariance, <1>1, PTL

\* No task holds, or waits for, a mutex whose ceiling is below its base priority.
THEOREM CeilingCorrect == MtxSpec => []CeilingRespected
<1>1. MtxInv => CeilingRespected
  <2> SUFFICES ASSUME MtxInv
               PROVE  CeilingRespected
    OBVIOUS
  <2>1. Respected(MState, bpriority) /\ MState.wait_queue = wait_queue
    BY MStateInv, MStateFields DEF MInv
  <2>2. \A t \in TASK, m \in MTX : Holds(MState, t, m) <=> m \in Held(t)
    BY MStateFields DEF Holds, Held
  <2> QED
    BY <2>1, <2>2, CeilingsAreNumbers DEF Respected, CeilingRespected
<1> QED
  BY MtxInvariance, <1>1, PTL

\* A mutex passes to the first task waiting for it, whichever call, or end of a
\* task, releases it.
THEOREM HandoverCorrect == MtxSpec => HandoverIsInOrder
<1> DEFINE Handed == \A m \in MTX : loctsk'[m] \notin {NoTask, loctsk[m]} /\ wait_queue[m] # <<>>
                       => loctsk'[m] = Head(wait_queue[m]) /\ "WOBJ" \notin tstat'[loctsk'[m]]
<1>1. MtxInv /\ [MtxNext]_allVars => [Handed]_allVars
  <2>1. ASSUME MtxInv, MtxNext
        PROVE  Handed
    BY <2>1, MtxNextInv DEF InOrder
  <2> QED
    BY <2>1
<1>2. MtxSpec => [][Handed]_allVars
  BY MtxInvariance, <1>1, PTL DEF MtxSpec
<1> QED
  BY <1>2 DEF HandoverIsInOrder
=============================================================================
