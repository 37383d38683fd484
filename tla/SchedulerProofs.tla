---------------------------- MODULE SchedulerProofs ----------------------------
(***************************************************************************)
(* The invariants of Scheduler, for any number of tasks, priorities and    *)
(* nested interrupts.  IInv is inductive as it stands: the cached values   *)
(* (p_schedtsk, the bitmap, dspflg) are only right while the queue is, and *)
(* the queue is only updated rightly because the TCBs are.                 *)
(*                                                                         *)
(* The first part is about the operators of ReadyQueue: about one queue,   *)
(* as a sequence that enumerates a set of tasks, then about what each      *)
(* function of task.c does to a ready queue that holds exactly the tasks   *)
(* of the set runnable.                                                    *)
(***************************************************************************)
EXTENDS Scheduler, WellFoundedInduction, TLAPS

ReadyInv(r, runnable, pri) ==
    /\ r \in ReadyType
    /\ QueuesMatch(r, runnable, pri)
    /\ PrimapMatches(r)
    /\ SchedtskIsHighest(r, pri)

-----------------------------------------------------------------------------
\* One queue

\* A queue is empty when nothing is to be in it; else its head is one of the tasks.
LEMMA EnumeratesHead ==
    ASSUME NEW s \in Seq(TASK), NEW S, Enumerates(s, S)
    PROVE  /\ s = <<>> <=> S = {}
           /\ s # <<>> => Head(s) = s[1] /\ Head(s) \in S
<1>1. s # <<>> => Len(s) >= 1 /\ Head(s) = s[1]
  OBVIOUS
<1> QED
  BY <1>1 DEF Enumerates

\* queue_insert_prev on the queue head: a task joins at the tail.
LEMMA AppendEnumerates ==
    ASSUME NEW s \in Seq(TASK), NEW S, Enumerates(s, S), NEW t \in TASK, t \notin S
    PROVE  /\ Append(s, t) \in Seq(TASK)
           /\ Enumerates(Append(s, t), S \cup {t})
           /\ Append(s, t) # <<>>
           /\ Head(Append(s, t)) = IF s = <<>> THEN t ELSE Head(s)
<1> DEFINE n == Append(s, t)
<1>1. /\ n \in Seq(TASK) /\ Len(n) = Len(s) + 1 /\ Len(s) \in Nat
      /\ \A i \in 1 .. Len(s) : n[i] = s[i]
      /\ n[Len(s) + 1] = t
  OBVIOUS
<1> HIDE DEF n
<1>2. n # <<>> /\ Head(n) = IF s = <<>> THEN t ELSE Head(s)
  <2>1. n # <<>> /\ Head(n) = n[1]
    BY <1>1
  <2>2. s = <<>> => Len(s) + 1 = 1
    OBVIOUS
  <2>3. s # <<>> => Head(s) = s[1] /\ 1 \in 1 .. Len(s)
    OBVIOUS
  <2> QED
    BY <1>1, <2>1, <2>2, <2>3
<1>3. \A i \in 1 .. Len(n) : i \in 1 .. Len(s) \/ i = Len(s) + 1
  BY <1>1
<1>4. \A i \in 1 .. Len(s) : s[i] \in S
  BY DEF Enumerates
<1>5. Enumerates(n, S \cup {t})
  BY <1>1, <1>3, <1>4 DEF Enumerates
<1> QED
  BY <1>1, <1>2, <1>5 DEF n

\* queue_insert_next on the queue head: a task joins at the head.
LEMMA ConsEnumerates ==
    ASSUME NEW s \in Seq(TASK), NEW S, Enumerates(s, S), NEW t \in TASK, t \notin S
    PROVE  /\ <<t>> \o s \in Seq(TASK)
           /\ Enumerates(<<t>> \o s, S \cup {t})
           /\ <<t>> \o s # <<>>
           /\ Head(<<t>> \o s) = t
<1> DEFINE n == <<t>> \o s
<1>1. /\ n \in Seq(TASK) /\ Len(n) = Len(s) + 1 /\ Len(s) \in Nat
      /\ \A i \in 1 .. Len(s) : n[i + 1] = s[i]
      /\ n[1] = t
  OBVIOUS
<1>2. n # <<>> /\ Head(n) = t
  BY <1>1
<1> HIDE DEF n
<1>3. \A i \in 1 .. Len(n) : i = 1 \/ (i - 1 \in 1 .. Len(s) /\ n[i] = s[i - 1])
  BY <1>1
<1>4. \A i \in 1 .. Len(s) : s[i] \in S /\ i + 1 \in 1 .. Len(n)
  BY <1>1 DEF Enumerates
<1>5. ASSUME NEW i \in 1 .. Len(n), NEW j \in 1 .. Len(n), n[i] = n[j]
      PROVE  i = j
  <2>1. CASE i = 1 \/ j = 1
    BY <1>1, <1>3, <1>4, <1>5, <2>1
  <2>2. CASE i # 1 /\ j # 1
    <3>1. i - 1 = j - 1
      BY <1>3, <1>5, <2>2 DEF Enumerates
    <3> QED
      BY <3>1
  <2> QED
    BY <2>1, <2>2
<1>6. \A i \in 1 .. Len(n) : n[i] \in S \cup {t}
  BY <1>1, <1>3, <1>4
<1>7. ASSUME NEW u \in S \cup {t}
      PROVE  \E i \in 1 .. Len(n) : n[i] = u
  <2>1. CASE u = t
    BY <1>1, <2>1
  <2>2. CASE u # t
    <3>1. PICK i \in 1 .. Len(s) : s[i] = u
      BY <2>2 DEF Enumerates
    <3> QED
      BY <3>1, <1>1, <1>4
  <2> QED
    BY <2>1, <2>2
<1>8. Enumerates(n, S \cup {t})
  BY <1>5, <1>6, <1>7 DEF Enumerates
<1> QED
  BY <1>1, <1>2, <1>8 DEF n

\* Delete takes one entry out and closes the gap.
Distinct(s) == \A i, j \in 1 .. Len(s) : s[i] = s[j] => i = j

\* queue_delete takes out one entry and keeps the order of the others.
LEMMA DeleteProps ==
    ASSUME NEW A, NEW s \in Seq(A), Distinct(s), NEW k \in 1 .. Len(s), NEW t, s[k] = t
    PROVE  /\ Delete(s, t) \in Seq(A)
           /\ Len(Delete(s, t)) = Len(s) - 1
           /\ \A i \in 1 .. Len(s) - 1 : Delete(s, t)[i] = IF i < k THEN s[i] ELSE s[i + 1]
<1>1. (CHOOSE i \in 1 .. Len(s) : s[i] = t) = k
  BY DEF Distinct
<1> DEFINE l == SubSeq(s, 1, k - 1)
           h == SubSeq(s, k + 1, Len(s))
<1>2. Delete(s, t) = l \o h
  BY <1>1 DEF Delete, RemoveAt
<1>3. l \in Seq(A) /\ Len(l) = k - 1 /\ \A i \in 1 .. k - 1 : l[i] = s[i]
  OBVIOUS
<1>4. h \in Seq(A) /\ Len(h) = Len(s) - k /\ \A i \in 1 .. Len(s) - k : h[i] = s[i + k]
  OBVIOUS
<1> HIDE DEF l, h
<1>5. l \o h \in Seq(A) /\ Len(l \o h) = Len(s) - 1
  <2>1. l \o h \in Seq(A) /\ Len(l \o h) = Len(l) + Len(h)
    BY <1>3, <1>4
  <2>2. k \in Int /\ Len(s) \in Int
    OBVIOUS
  <2> QED
    BY <2>1, <2>2, <1>3, <1>4
<1>6. \A i \in 1 .. Len(s) - 1 : (l \o h)[i] = IF i < k THEN s[i] ELSE s[i + 1]
  BY <1>3, <1>4
<1> QED
  BY <1>2, <1>5, <1>6

\* queue_delete leaves exactly the other tasks; only at the head does it change the head.
LEMMA DeleteEnumerates ==
    ASSUME NEW s \in Seq(TASK), NEW S, Enumerates(s, S), NEW t \in S
    PROVE  /\ Delete(s, t) \in Seq(TASK)
           /\ Enumerates(Delete(s, t), S \ {t})
           /\ Head(s) # t => Head(Delete(s, t)) = Head(s)
<1>1. PICK k \in 1 .. Len(s) : s[k] = t
  BY DEF Enumerates
<1>a. Distinct(s)
  BY DEF Enumerates, Distinct
<1>b. /\ Delete(s, t) \in Seq(TASK)
      /\ Len(Delete(s, t)) = Len(s) - 1
      /\ \A i \in 1 .. Len(s) - 1 : Delete(s, t)[i] = IF i < k THEN s[i] ELSE s[i + 1]
  BY <1>1, <1>a, DeleteProps
<1> DEFINE d == Delete(s, t)
<1>2. /\ d \in Seq(TASK) /\ Len(d) = Len(s) - 1
      /\ \A i \in 1 .. Len(s) - 1 : d[i] = IF i < k THEN s[i] ELSE s[i + 1]
  BY <1>b
<1> HIDE DEF d
<1>3. \A i \in 1 .. Len(d) : d[i] \in S \ {t}
  BY <1>1, <1>2 DEF Enumerates
<1>4. ASSUME NEW i \in 1 .. Len(d), NEW j \in 1 .. Len(d), d[i] = d[j]
      PROVE  i = j
  <2> DEFINE at(n) == IF n < k THEN n ELSE n + 1
  <2>1. at(i) \in 1 .. Len(s) /\ at(j) \in 1 .. Len(s) /\ s[at(i)] = s[at(j)]
    BY <1>1, <1>2, <1>4
  <2>2. at(i) = at(j)
    BY <2>1 DEF Enumerates
  <2> QED
    BY <2>2, <1>1, <1>2
<1>5. ASSUME NEW u \in S \ {t}
      PROVE  \E i \in 1 .. Len(d) : d[i] = u
  <2>1. PICK j \in 1 .. Len(s) : s[j] = u
    BY DEF Enumerates
  <2>2. CASE j < k
    BY <2>1, <2>2, <1>1, <1>2
  <2>3. CASE j > k
    <3>1. j - 1 \in 1 .. Len(d) /\ d[j - 1] = u
      BY <2>1, <2>3, <1>1, <1>2
    <3> QED
      BY <3>1
  <2> QED
    BY <2>1, <2>2, <2>3, <1>1
<1>6. ASSUME Head(s) # t
      PROVE  Head(d) = Head(s)
  <2>1. k # 1 /\ Len(d) >= 1 /\ d[1] = s[1]
    BY <1>1, <1>2, <1>6
  <2> QED
    BY <2>1, <1>1, <1>2
<1>7. Enumerates(d, S \ {t})
  BY <1>3, <1>4, <1>5 DEF Enumerates
<1> QED
  BY <1>2, <1>6, <1>7 DEF d

\* A rotation keeps the tasks of the queue and puts the second at the head.
LEMMA RotateEnumerates ==
    ASSUME NEW s \in Seq(TASK), NEW S, Enumerates(s, S), Len(s) >= 2
    PROVE  /\ Append(Tail(s), Head(s)) \in Seq(TASK)
           /\ Enumerates(Append(Tail(s), Head(s)), S)
           /\ Append(Tail(s), Head(s)) # <<>>
           /\ Head(Append(Tail(s), Head(s))) = s[2]
<1> DEFINE n == Append(Tail(s), Head(s))
<1>1. /\ n \in Seq(TASK) /\ Len(n) = Len(s) /\ Len(s) \in Nat
      /\ \A i \in 1 .. Len(s) - 1 : n[i] = s[i + 1]
      /\ n[Len(s)] = s[1]
  OBVIOUS
<1>2. n # <<>> /\ Head(n) = s[2]
  BY <1>1
<1> HIDE DEF n
<1> DEFINE at == [i \in 1 .. Len(s) |-> IF i = Len(s) THEN 1 ELSE i + 1]
<1>3. \A i \in 1 .. Len(s) : at[i] \in 1 .. Len(s) /\ n[i] = s[at[i]]
  BY <1>1
<1>4. \A i, j \in 1 .. Len(s) : at[i] = at[j] => i = j
  BY <1>1
<1>5. \A j \in 1 .. Len(s) : \E i \in 1 .. Len(s) : at[i] = j
  <2> TAKE j \in 1 .. Len(s)
  <2>1. CASE j = 1
    <3>1. Len(s) \in 1 .. Len(s) /\ at[Len(s)] = j
      BY <2>1, <1>1
    <3> QED
      BY <3>1
  <2>2. CASE j # 1
    <3>1. j - 1 \in 1 .. Len(s) /\ at[j - 1] = j
      BY <2>2, <1>1
    <3> QED
      BY <3>1
  <2> QED
    BY <2>1, <2>2
<1> HIDE DEF at
<1>6. \A i \in 1 .. Len(n) : n[i] \in S
  BY <1>1, <1>3 DEF Enumerates
<1>7. \A i, j \in 1 .. Len(n) : n[i] = n[j] => i = j
  BY <1>1, <1>3, <1>4 DEF Enumerates
<1>8. ASSUME NEW u \in S
      PROVE  \E i \in 1 .. Len(n) : n[i] = u
  <2>1. PICK j \in 1 .. Len(s) : s[j] = u
    BY DEF Enumerates
  <2>2. PICK i \in 1 .. Len(s) : at[i] = j
    BY <1>5
  <2> QED
    BY <1>1, <1>3, <2>1, <2>2
<1>9. Enumerates(n, S)
  BY <1>6, <1>7, <1>8 DEF Enumerates
<1> QED
  BY <1>1, <1>2, <1>9 DEF n

-----------------------------------------------------------------------------
\* The whole ready queue

At(runnable, pri, p) == {t \in runnable : pri[t] = p}

\* A set of numbers that is not empty has a least one.
LEMMA LeastNumber ==
    ASSUME NEW T \in SUBSET Nat, T # {}
    PROVE  \E x \in T : \A y \in T : x <= y
<1> DEFINE R == OpToRel(<, Nat)
<1>1. IsWellFoundedOn(R, Nat)
  BY NatLessThanWellFounded
<1>2. \A x, y \in Nat : y < x => <<y, x>> \in R
  BY DEF OpToRel
<1> HIDE DEF R
<1>3. PICK x \in T : \A y \in T : ~ (<<y, x>> \in R)
  BY <1>1, WFMin
<1>4. ASSUME NEW y \in T
      PROVE  ~(y < x)
  BY <1>2, <1>3
<1>5. ASSUME NEW y \in T
      PROVE  x <= y
  BY <1>4
<1> QED
  BY <1>5

\* The bit that bitmap_search looks for exists.
LEMMA LowestBit ==
    ASSUME NEW T \in SUBSET PRI, T # {}
    PROVE  \E x \in T : \A y \in T : x <= y
<1>1. T \in SUBSET Nat
  BY DEF PRI
<1> QED
  BY <1>1, LeastNumber

\* What the other lemmas take from ReadyInv.
QueueFacts(r, runnable, pri) ==
    /\ r.queue \in [PRI -> Seq(TASK)] /\ r.primap \in SUBSET PRI
    /\ \A p \in PRI : Enumerates(r.queue[p], At(runnable, pri, p))
    /\ \A p \in PRI : p \in r.primap <=> r.queue[p] # <<>>
    /\ \A t \in runnable : pri[t] \in r.primap
    /\ \A p \in r.primap : p \in Int

SchedtskFacts(r, runnable, pri) ==
    /\ r.schedtsk \in TASK \cup {NoTask}
    /\ r.schedtsk = NoTask => runnable = {} /\ r.primap = {}
    /\ r.schedtsk # NoTask =>
         /\ r.schedtsk \in runnable /\ pri[r.schedtsk] \in PRI /\ pri[r.schedtsk] \in Int
         /\ r.queue[pri[r.schedtsk]] # <<>>
         /\ Head(r.queue[pri[r.schedtsk]]) = r.schedtsk
         /\ \A q \in r.primap : pri[r.schedtsk] <= q

\* ReadyInv in the form the proofs below use.
LEMMA ReadyFacts ==
    ASSUME NEW r, NEW runnable \in SUBSET TASK, NEW pri \in [TASK -> PRI],
           ReadyInv(r, runnable, pri)
    PROVE  QueueFacts(r, runnable, pri) /\ SchedtskFacts(r, runnable, pri)
<1>1. /\ r.queue \in [PRI -> Seq(TASK)] /\ r.primap \in SUBSET PRI
      /\ r.schedtsk \in TASK \cup {NoTask}
  BY DEF ReadyInv, ReadyType
<1>2. \A p \in PRI : Enumerates(r.queue[p], At(runnable, pri, p))
  BY DEF ReadyInv, QueuesMatch, At
<1>3. \A p \in PRI : p \in r.primap <=> r.queue[p] # <<>>
  BY DEF ReadyInv, PrimapMatches
<1>4. ASSUME NEW t \in runnable
      PROVE  pri[t] \in r.primap
  <2>1. pri[t] \in PRI /\ t \in At(runnable, pri, pri[t])
    BY DEF At
  <2>2. r.queue[pri[t]] # <<>>
    BY <1>1, <1>2, <2>1, EnumeratesHead
  <2> QED
    BY <1>3, <2>1, <2>2
<1>5. r.schedtsk = NoTask => r.primap = {}
  BY DEF ReadyInv, SchedtskIsHighest
<1>6. ASSUME r.schedtsk # NoTask
      PROVE  /\ r.schedtsk \in runnable /\ pri[r.schedtsk] \in PRI
             /\ r.queue[pri[r.schedtsk]] # <<>>
             /\ Head(r.queue[pri[r.schedtsk]]) = r.schedtsk
             /\ \A q \in r.primap : pri[r.schedtsk] <= q
  <2>1. pri[r.schedtsk] \in PRI
    BY <1>1, <1>6
  <2>2. /\ r.queue[pri[r.schedtsk]] # <<>>
        /\ Head(r.queue[pri[r.schedtsk]]) = r.schedtsk
        /\ \A q \in r.primap : pri[r.schedtsk] <= q
    BY <1>6 DEF ReadyInv, SchedtskIsHighest
  <2>3. r.schedtsk \in At(runnable, pri, pri[r.schedtsk])
    BY <1>1, <1>2, <2>1, <2>2, EnumeratesHead
  <2> QED
    BY <2>1, <2>2, <2>3 DEF At
<1> QED
  <2>1. (\A p \in r.primap : p \in Int) /\ \A p \in PRI : p \in Int
    BY <1>1 DEF PRI
  <2> QED
    BY <1>1, <1>2, <1>3, <1>4, <1>5, <1>6, <2>1 DEF QueueFacts, SchedtskFacts

\* make_runnable adds a task.
LEMMA MakeRunnableInv ==
    ASSUME NEW r, NEW runnable \in SUBSET TASK, NEW pri \in [TASK -> PRI],
           ReadyInv(r, runnable, pri), NEW t \in TASK, t \notin runnable
    PROVE  ReadyInv(MakeRunnable(r, t, pri), runnable \cup {t}, pri)
<1> DEFINE n == MakeRunnable(r, t, pri)
           p0 == pri[t]
           s == r.queue[p0]
           g == r.schedtsk
<1>q. QueueFacts(r, runnable, pri)
  BY ReadyFacts
<1>s. SchedtskFacts(r, runnable, pri)
  BY ReadyFacts
<1>1. p0 \in PRI /\ p0 \in Int
  BY DEF PRI
<1>2. n.queue = [r.queue EXCEPT ![p0] = Append(s, t)]
  BY <1>q, <1>s, <1>1 DEF MakeRunnable, QueueFacts, SchedtskFacts
<1>3. n.primap = r.primap \cup {p0}
  BY DEF MakeRunnable
<1>4. n.schedtsk = IF g = NoTask \/ p0 < pri[g] THEN t ELSE g
  BY DEF MakeRunnable, Preempts
<1>5. /\ Append(s, t) \in Seq(TASK)
      /\ Enumerates(Append(s, t), At(runnable, pri, p0) \cup {t})
      /\ Append(s, t) # <<>>
      /\ Head(Append(s, t)) = IF s = <<>> THEN t ELSE Head(s)
  <2>1. t \notin At(runnable, pri, p0) /\ s \in Seq(TASK)
        /\ Enumerates(s, At(runnable, pri, p0))
    BY <1>1, <1>q, <1>s DEF At, QueueFacts, SchedtskFacts
  <2> QED
    BY <2>1, AppendEnumerates
<1>6. n \in ReadyType
  <2>1. n = [queue |-> n.queue, primap |-> n.primap, schedtsk |-> n.schedtsk]
    BY DEF MakeRunnable
  <2>2. n.queue \in [PRI -> Seq(TASK)] /\ n.primap \in SUBSET PRI
    BY <1>1, <1>2, <1>3, <1>5, <1>q, <1>s DEF QueueFacts, SchedtskFacts
  <2>3. n.schedtsk \in TASK \cup {NoTask}
    BY <1>4, <1>q, <1>s DEF QueueFacts, SchedtskFacts
  <2> QED
    BY <2>1, <2>2, <2>3 DEF ReadyType
<1> HIDE DEF n
<1>7. ASSUME NEW p \in PRI
      PROVE  Enumerates(n.queue[p], At(runnable \cup {t}, pri, p))
  <2>1. CASE p = p0
    <3>1. At(runnable \cup {t}, pri, p) = At(runnable, pri, p0) \cup {t}
      BY <2>1 DEF At
    <3> QED
      BY <3>1, <2>1, <1>2, <1>5, <1>q, <1>s DEF QueueFacts, SchedtskFacts
  <2>2. CASE p # p0
    <3>1. At(runnable \cup {t}, pri, p) = At(runnable, pri, p)
      BY <2>2 DEF At
    <3> QED
      BY <3>1, <2>2, <1>2, <1>q, <1>s DEF QueueFacts, SchedtskFacts
  <2> QED
    BY <2>1, <2>2
<1>8. ASSUME NEW p \in PRI
      PROVE  p \in n.primap <=> n.queue[p] # <<>>
  BY <1>1, <1>2, <1>3, <1>5, <1>q DEF QueueFacts
<1>9. SchedtskIsHighest(n, pri)
  <2>1. \A q \in r.primap : q \in Int
    BY <1>q DEF QueueFacts
  <2>2. CASE g = NoTask \/ p0 < pri[g]
    <3>1. p0 \notin r.primap /\ \A q \in r.primap : p0 <= q
      <4>1. CASE g = NoTask
        BY <4>1, <1>s DEF SchedtskFacts
      <4>2. CASE g # NoTask
        <5>1. pri[g] \in Int /\ p0 < pri[g] /\ \A q \in r.primap : pri[g] <= q
          BY <4>2, <2>2, <1>1, <1>s DEF SchedtskFacts
        <5> QED
          BY <5>1, <2>1, <1>1
      <4> QED
        BY <4>1, <4>2
    <3>2. Head(n.queue[p0]) = t /\ n.queue[p0] # <<>>
      BY <3>1, <1>1, <1>2, <1>5, <1>q DEF QueueFacts
    <3>3. \A q \in n.primap : p0 <= q
      BY <3>1, <1>1, <1>3
    <3>4. n.schedtsk = t
      BY <2>2, <1>4
    <3>5. t # NoTask
      BY NoTaskAssumption
    <3> QED
      BY <3>2, <3>3, <3>4, <3>5 DEF SchedtskIsHighest
  <2>3. CASE g # NoTask /\ ~(p0 < pri[g])
    <3> DEFINE p1 == pri[g]
    <3>1. /\ p1 \in PRI /\ r.queue[p1] # <<>> /\ Head(r.queue[p1]) = g
          /\ p1 \in Int /\ \A q \in r.primap : p1 <= q
      BY <2>3, <1>s DEF SchedtskFacts
    <3>2. p1 <= p0
      BY <2>3, <3>1, <1>1
    <3>3. n.queue[p1] = IF p1 = p0 THEN Append(s, t) ELSE r.queue[p1]
      BY <3>1, <1>1, <1>2, <1>q DEF QueueFacts
    <3>4. n.queue[p1] # <<>> /\ Head(n.queue[p1]) = g
      BY <3>1, <3>3, <1>5
    <3>5. \A q \in n.primap : p1 <= q
      BY <3>1, <3>2, <1>3
    <3>6. n.schedtsk = g
      BY <2>3, <1>4
    <3> QED
      BY <2>3, <3>4, <3>5, <3>6 DEF SchedtskIsHighest
  <2> QED
    BY <2>2, <2>3
<1>10. QueuesMatch(n, runnable \cup {t}, pri)
  BY <1>7 DEF QueuesMatch, At
<1>11. PrimapMatches(n)
  <2>1. n.primap \in SUBSET PRI
    BY <1>6 DEF ReadyType
  <2> QED
    BY <2>1, <1>8 DEF PrimapMatches
<1>12. ReadyInv(n, runnable \cup {t}, pri)
  BY <1>6, <1>9, <1>10, <1>11 DEF ReadyInv
<1> QED
  BY <1>12 DEF n

\* How the other lemmas arrive at ReadyInv.
LEMMA ReadyInvIntro ==
    ASSUME NEW n \in ReadyType, NEW runnable \in SUBSET TASK, NEW pri \in [TASK -> PRI],
           \A p \in PRI : Enumerates(n.queue[p], At(runnable, pri, p)),
           \A p \in PRI : p \in n.primap <=> n.queue[p] # <<>>,
           n.primap = {} => n.schedtsk = NoTask,
           n.primap # {} => \E p \in n.primap : /\ \A q \in n.primap : p <= q
                                                /\ n.schedtsk = Head(n.queue[p])
    PROVE  ReadyInv(n, runnable, pri)
<1>1. QueuesMatch(n, runnable, pri)
  BY DEF QueuesMatch, At
<1>2. n.queue \in [PRI -> Seq(TASK)] /\ n.primap \in SUBSET PRI
  BY DEF ReadyType
<1>3. PrimapMatches(n)
  BY <1>2 DEF PrimapMatches
<1>4. SchedtskIsHighest(n, pri)
  <2>1. CASE n.primap = {}
    BY <2>1 DEF SchedtskIsHighest
  <2>2. CASE n.primap # {}
    <3>1. PICK p \in n.primap : /\ \A q \in n.primap : p <= q
                                /\ n.schedtsk = Head(n.queue[p])
      BY <2>2
    <3>2. p \in PRI /\ n.queue[p] # <<>> /\ n.queue[p] \in Seq(TASK)
          /\ Enumerates(n.queue[p], At(runnable, pri, p))
      BY <3>1, <1>2
    <3>3. n.schedtsk \in At(runnable, pri, p)
      BY <3>1, <3>2, EnumeratesHead
    <3>4. n.schedtsk \in TASK /\ pri[n.schedtsk] = p /\ n.schedtsk # NoTask
      BY <3>3, NoTaskAssumption DEF At
    <3> QED
      BY <3>1, <3>2, <3>4 DEF SchedtskIsHighest
  <2> QED
    BY <2>1, <2>2
<1> QED
  BY <1>1, <1>3, <1>4 DEF ReadyInv

\* search_schedtsk returns the first task of the first queue not empty.
LEMMA SearchSchedtskFinds ==
    ASSUME NEW queue, NEW primap \in SUBSET PRI, primap # {}
    PROVE  \E p \in primap : /\ \A q \in primap : p <= q
                             /\ SearchSchedtsk(queue, primap) = Head(queue[p])
<1> DEFINE p == CHOOSE x \in primap : \A y \in primap : x <= y
<1>1. p \in primap /\ \A y \in primap : p <= y
  BY LowestBit
<1>2. SearchSchedtsk(queue, primap) = Head(queue[p])
  BY DEF SearchSchedtsk
<1> HIDE DEF p
<1> QED
  BY <1>1, <1>2

\* The queues and the bitmap after a runnable task has left its queue.
Left(r, t, pri) == [r.queue EXCEPT ![pri[t]] = Delete(@, t)]

LeftBehind(r, runnable, pri, left, primap, t) ==
    /\ left \in [PRI -> Seq(TASK)] /\ primap \in SUBSET r.primap
    /\ \A p \in PRI : Enumerates(left[p], At(runnable \ {t}, pri, p))
    /\ \A p \in PRI : p \in primap <=> left[p] # <<>>
    /\ \A p \in PRI : r.queue[p] # <<>> /\ Head(r.queue[p]) # t
                        => left[p] # <<>> /\ Head(left[p]) = Head(r.queue[p])
    /\ \A p \in PRI : r.queue[p] = <<>> => left[p] = <<>>

\* What queue_delete and the update of the bitmap leave behind.
LEMMA LeftFacts ==
    ASSUME NEW r, NEW runnable \in SUBSET TASK, NEW pri \in [TASK -> PRI],
           ReadyInv(r, runnable, pri), NEW t \in runnable
    PROVE  LeftBehind(r, runnable, pri, Left(r, t, pri),
                      PrimapWithout(r.primap, Left(r, t, pri), pri[t]), t)
<1> DEFINE left == Left(r, t, pri)
           primap == PrimapWithout(r.primap, left, pri[t])
           p0 == pri[t]
           s == r.queue[p0]
           d == Delete(s, t)
<1>q. QueueFacts(r, runnable, pri)
  BY ReadyFacts
<1>1. p0 \in PRI /\ t \in At(runnable, pri, p0) /\ s \in Seq(TASK)
      /\ Enumerates(s, At(runnable, pri, p0))
  BY <1>q DEF QueueFacts, At
<1>2. /\ d \in Seq(TASK) /\ Enumerates(d, At(runnable, pri, p0) \ {t})
      /\ Head(s) # t => Head(d) = Head(s)
  BY <1>1, DeleteEnumerates
<1>3. left = [r.queue EXCEPT ![p0] = d]
  BY <1>q, <1>1 DEF Left, QueueFacts
<1>4. primap = IF d = <<>> THEN r.primap \ {p0} ELSE r.primap
  BY <1>q, <1>1, <1>3 DEF PrimapWithout, QueueFacts
<1> HIDE DEF left, primap, d
<1>5. left \in [PRI -> Seq(TASK)] /\ primap \in SUBSET r.primap
  BY <1>q, <1>1, <1>2, <1>3, <1>4 DEF QueueFacts
<1>6. ASSUME NEW p \in PRI
      PROVE  Enumerates(left[p], At(runnable \ {t}, pri, p))
  <2>1. CASE p = p0
    <3>1. At(runnable \ {t}, pri, p) = At(runnable, pri, p0) \ {t}
      BY <2>1 DEF At
    <3> QED
      BY <3>1, <2>1, <1>2, <1>3, <1>q DEF QueueFacts
  <2>2. CASE p # p0
    <3>1. At(runnable \ {t}, pri, p) = At(runnable, pri, p)
      BY <2>2 DEF At
    <3> QED
      BY <3>1, <2>2, <1>3, <1>q DEF QueueFacts
  <2> QED
    BY <2>1, <2>2
<1>7. s # <<>> /\ p0 \in r.primap
  BY <1>1, <1>q, EnumeratesHead DEF QueueFacts
<1>8. ASSUME NEW p \in PRI
      PROVE  p \in primap <=> left[p] # <<>>
  BY <1>q, <1>1, <1>3, <1>4, <1>7 DEF QueueFacts
<1>9. Head(s) # t => d # <<>>
  <2>1. Head(s) \in At(runnable, pri, p0)
    BY <1>1, <1>7, EnumeratesHead
  <2>2. d = <<>> <=> At(runnable, pri, p0) \ {t} = {}
    BY <1>2, EnumeratesHead
  <2> QED
    BY <2>1, <2>2
<1>10. ASSUME NEW p \in PRI, r.queue[p] # <<>>, Head(r.queue[p]) # t
       PROVE  left[p] # <<>> /\ Head(left[p]) = Head(r.queue[p])
  BY <1>10, <1>q, <1>2, <1>3, <1>9 DEF QueueFacts
<1>11. ASSUME NEW p \in PRI, r.queue[p] = <<>>
       PROVE  left[p] = <<>>
  BY <1>11, <1>q, <1>3, <1>7 DEF QueueFacts
<1> QED
  BY <1>5, <1>6, <1>8, <1>10, <1>11 DEF left, primap, LeftBehind

\* make_non_runnable takes a task away.
LEMMA MakeNonRunnableInv ==
    ASSUME NEW r, NEW runnable \in SUBSET TASK, NEW pri \in [TASK -> PRI],
           ReadyInv(r, runnable, pri), NEW t \in runnable
    PROVE  ReadyInv(MakeNonRunnable(r, t, pri), runnable \ {t}, pri)
<1> DEFINE n == MakeNonRunnable(r, t, pri)
           g == r.schedtsk
           p0 == pri[t]
<1>s. SchedtskFacts(r, runnable, pri)
  BY ReadyFacts
<1>q. QueueFacts(r, runnable, pri)
  BY ReadyFacts
<1>1. /\ n.queue \in [PRI -> Seq(TASK)] /\ n.primap \in SUBSET r.primap
      /\ \A p \in PRI : Enumerates(n.queue[p], At(runnable \ {t}, pri, p))
      /\ \A p \in PRI : p \in n.primap <=> n.queue[p] # <<>>
      /\ \A p \in PRI : r.queue[p] # <<>> /\ Head(r.queue[p]) # t
                          => n.queue[p] # <<>> /\ Head(n.queue[p]) = Head(r.queue[p])
  <2>1. n.queue = Left(r, t, pri) /\ n.primap = PrimapWithout(r.primap, Left(r, t, pri), pri[t])
    BY DEF MakeNonRunnable, Left
  <2>2. LeftBehind(r, runnable, pri, n.queue, n.primap, t)
    BY <2>1, LeftFacts
  <2> QED
    BY <2>2 DEF LeftBehind
<1>2. n.schedtsk = IF g # t THEN g
                   ELSE IF n.queue[p0] # <<>> THEN Head(n.queue[p0])
                   ELSE IF n.primap = {} THEN NoTask
                   ELSE SearchSchedtsk(n.queue, n.primap)
  BY DEF MakeNonRunnable
<1>3. n = [queue |-> n.queue, primap |-> n.primap, schedtsk |-> n.schedtsk]
  BY DEF MakeNonRunnable
<1> HIDE DEF n
<1>4. g # NoTask
  BY <1>s DEF SchedtskFacts
<1>5. n.primap \in SUBSET PRI
  BY <1>1, <1>q DEF QueueFacts
<1>6. n.primap = {} => n.schedtsk = NoTask
  <2>1. ASSUME n.primap = {}
        PROVE  g = t
    <3>1. pri[g] \in PRI /\ r.queue[pri[g]] # <<>> /\ Head(r.queue[pri[g]]) = g
      BY <1>4, <1>s DEF SchedtskFacts
    <3> QED
      BY <3>1, <2>1, <1>1
  <2>2. p0 \in PRI
    OBVIOUS
  <2> QED
    BY <2>1, <2>2, <1>1, <1>2
<1>7. n.primap # {} => \E p \in n.primap : /\ \A q \in n.primap : p <= q
                                           /\ n.schedtsk = Head(n.queue[p])
  <2> HAVE n.primap # {}
  <2>1. CASE g # t
    <3>1. pri[g] \in PRI /\ r.queue[pri[g]] # <<>> /\ Head(r.queue[pri[g]]) = g
          /\ \A q \in r.primap : pri[g] <= q
      BY <1>4, <1>s DEF SchedtskFacts
    <3>2. pri[g] \in n.primap /\ Head(n.queue[pri[g]]) = g /\ \A q \in n.primap : pri[g] <= q
      BY <3>1, <2>1, <1>1
    <3> QED
      BY <3>2, <2>1, <1>2
  <2>2. CASE g = t /\ n.queue[p0] # <<>>
    <3>1. p0 \in n.primap /\ \A q \in n.primap : p0 <= q
      BY <2>2, <1>1, <1>4, <1>s DEF SchedtskFacts
    <3> QED
      BY <3>1, <2>2, <1>2
  <2>3. CASE g = t /\ n.queue[p0] = <<>>
    <3>1. n.schedtsk = SearchSchedtsk(n.queue, n.primap)
      BY <2>3, <1>2
    <3> QED
      BY <3>1, <1>5, SearchSchedtskFinds
  <2> QED
    BY <2>1, <2>2, <2>3
<1>8. n.schedtsk \in TASK \cup {NoTask}
  <2>1. CASE n.primap = {}
    BY <2>1, <1>6
  <2>2. CASE n.primap # {}
    <3>1. PICK p \in n.primap : n.schedtsk = Head(n.queue[p])
      BY <2>2, <1>7
    <3>2. p \in PRI /\ n.queue[p] # <<>> /\ n.queue[p] \in Seq(TASK)
      BY <3>1, <1>1, <1>5
    <3> QED
      BY <3>1, <3>2
  <2> QED
    BY <2>1, <2>2
<1>9. n \in ReadyType
  BY <1>1, <1>3, <1>5, <1>8 DEF ReadyType
<1>10. ReadyInv(n, runnable \ {t}, pri)
  BY <1>1, <1>6, <1>7, <1>9, ReadyInvIntro
<1> QED
  BY <1>10 DEF n

\* change_priority gives a runnable task another priority.
LEMMA ChangePriorityInv ==
    ASSUME NEW r, NEW runnable \in SUBSET TASK, NEW pri \in [TASK -> PRI],
           ReadyInv(r, runnable, pri), NEW t \in runnable,
           NEW newpri \in PRI, NEW mtxmode \in BOOLEAN
    PROVE  ReadyInv(ChangePriority(r, t, pri, newpri, mtxmode), runnable,
                    [pri EXCEPT ![t] = newpri])
<1> DEFINE n == ChangePriority(r, t, pri, newpri, mtxmode)
           g == r.schedtsk
           p0 == pri[t]
           left == Left(r, t, pri)
           primap == PrimapWithout(r.primap, left, p0)
           pri2 == [pri EXCEPT ![t] = newpri]
           new == IF mtxmode THEN <<t>> \o left[newpri] ELSE Append(left[newpri], t)
<1>s. SchedtskFacts(r, runnable, pri)
  BY ReadyFacts
<1>q. QueueFacts(r, runnable, pri)
  BY ReadyFacts
<1>1. /\ n.queue = [left EXCEPT ![newpri] = IF mtxmode THEN <<t>> \o @ ELSE Append(@, t)]
      /\ n.primap = primap \cup {newpri}
      /\ n.schedtsk = IF g = t THEN IF newpri >= p0 THEN SearchSchedtsk(n.queue, n.primap) ELSE t
                      ELSE IF newpri < pri[g] \/ (mtxmode /\ newpri = pri[g]) THEN t ELSE g
      /\ n = [queue |-> n.queue, primap |-> n.primap, schedtsk |-> n.schedtsk]
  BY DEF ChangePriority, Left
<1> HIDE DEF n
<1>2. LeftBehind(r, runnable, pri, left, primap, t)
  BY LeftFacts
<1> HIDE DEF left, primap
<1>3. n.queue = [left EXCEPT ![newpri] = new]
  BY <1>1, <1>2 DEF LeftBehind
<1>4. /\ new \in Seq(TASK) /\ new # <<>>
      /\ Enumerates(new, At(runnable \ {t}, pri, newpri) \cup {t})
      /\ mtxmode \/ left[newpri] = <<>> => Head(new) = t
      /\ ~mtxmode /\ left[newpri] # <<>> => Head(new) = Head(left[newpri])
  <2> DEFINE s == left[newpri]
             S == At(runnable \ {t}, pri, newpri)
  <2>1. s \in Seq(TASK) /\ Enumerates(s, S) /\ t \notin S
    BY <1>2 DEF LeftBehind, At
  <2> HIDE DEF s, S
  <2>2. /\ Append(s, t) \in Seq(TASK) /\ Append(s, t) # <<>>
        /\ Enumerates(Append(s, t), S \cup {t})
        /\ Head(Append(s, t)) = IF s = <<>> THEN t ELSE Head(s)
    BY <2>1, AppendEnumerates
  <2>3. /\ <<t>> \o s \in Seq(TASK) /\ <<t>> \o s # <<>>
        /\ Enumerates(<<t>> \o s, S \cup {t})
        /\ Head(<<t>> \o s) = t
    BY <2>1, ConsEnumerates
  <2>4. CASE mtxmode
    BY <2>3, <2>4 DEF s, S
  <2>5. CASE ~mtxmode
    BY <2>2, <2>5 DEF s, S
  <2> QED
    BY <2>4, <2>5
<1> HIDE DEF new
<1>5. pri2 \in [TASK -> PRI] /\ p0 \in PRI /\ p0 \in Int /\ newpri \in Int /\ t # NoTask
  BY NoTaskAssumption DEF PRI
<1>6. ASSUME NEW p \in PRI
      PROVE  /\ Enumerates(n.queue[p], At(runnable, pri2, p))
             /\ p \in n.primap <=> n.queue[p] # <<>>
  <2>1. CASE p = newpri
    <3>1. At(runnable, pri2, p) = At(runnable \ {t}, pri, newpri) \cup {t}
      BY <2>1 DEF At
    <3> QED
      BY <3>1, <2>1, <1>1, <1>2, <1>3, <1>4 DEF LeftBehind
  <2>2. CASE p # newpri
    <3>1. At(runnable, pri2, p) = At(runnable \ {t}, pri, p)
      BY <2>2 DEF At
    <3> QED
      BY <3>1, <2>2, <1>1, <1>2, <1>3 DEF LeftBehind
  <2> QED
    BY <2>1, <2>2
<1>7. newpri \in n.primap /\ n.primap \in SUBSET PRI /\ \A q \in n.primap : q = newpri \/ q \in r.primap
  BY <1>1, <1>2, <1>q DEF LeftBehind, QueueFacts
<1>8. g # NoTask /\ pri[g] \in PRI /\ pri[g] \in Int /\ r.queue[pri[g]] # <<>>
      /\ Head(r.queue[pri[g]]) = g /\ \A q \in r.primap : pri[g] <= q
  BY <1>s DEF SchedtskFacts
<1>9. \A q \in r.primap : q \in Int /\ q \in PRI
  BY <1>q DEF QueueFacts
<1>10. \E p \in n.primap : /\ \A q \in n.primap : p <= q
                           /\ n.schedtsk = Head(n.queue[p])
  <2>1. CASE g = t /\ newpri >= p0
    <3>1. n.schedtsk = SearchSchedtsk(n.queue, n.primap)
      BY <2>1, <1>1
    <3> QED
      BY <3>1, <1>7, SearchSchedtskFinds
  <2>2. CASE newpri < pri[g]
    <3>1. n.schedtsk = t
      BY <2>2, <1>1, <1>5, <1>8
    <3>2. newpri \notin r.primap
      BY <2>2, <1>5, <1>8
    <3>3. left[newpri] = <<>>
      BY <3>2, <1>2, <1>q DEF LeftBehind, QueueFacts
    <3>4. Head(n.queue[newpri]) = t
      BY <3>3, <1>2, <1>3, <1>4 DEF LeftBehind
    <3>5. \A q \in n.primap : newpri <= q
      BY <2>2, <1>5, <1>7, <1>8, <1>9
    <3> QED
      BY <3>1, <3>4, <3>5, <1>7
  <2>3. CASE g # t /\ mtxmode /\ newpri = pri[g]
    <3>1. n.schedtsk = t
      BY <2>3, <1>1
    <3>2. Head(n.queue[newpri]) = t
      BY <2>3, <1>2, <1>3, <1>4 DEF LeftBehind
    <3>3. \A q \in n.primap : newpri <= q
      BY <2>3, <1>5, <1>7, <1>8
    <3> QED
      BY <3>1, <3>2, <3>3, <1>7
  <2>4. CASE g # t /\ ~(newpri < pri[g]) /\ ~(mtxmode /\ newpri = pri[g])
    <3> DEFINE p1 == pri[g]
    <3>1. n.schedtsk = g
      BY <2>4, <1>1
    <3>2. left[p1] # <<>> /\ Head(left[p1]) = g
      BY <2>4, <1>2, <1>8 DEF LeftBehind
    <3>3. Head(n.queue[p1]) = g
      <4>1. CASE p1 = newpri
        BY <4>1, <3>2, <2>4, <1>2, <1>3, <1>4 DEF LeftBehind
      <4>2. CASE p1 # newpri
        BY <4>2, <3>2, <1>2, <1>3, <1>8 DEF LeftBehind
      <4> QED
        BY <4>1, <4>2
    <3>4. p1 \in n.primap
      BY <3>2, <1>1, <1>2, <1>8 DEF LeftBehind
    <3>5. \A q \in n.primap : p1 <= q
      BY <2>4, <1>5, <1>7, <1>8
    <3> QED
      BY <3>1, <3>3, <3>4, <3>5
  <2> QED
    BY <2>1, <2>2, <2>3, <2>4, <1>5, <1>8
<1>11. n.schedtsk \in TASK
  <2>1. PICK p \in n.primap : n.schedtsk = Head(n.queue[p])
    BY <1>10
  <2>2. p \in PRI /\ n.queue[p] # <<>> /\ Enumerates(n.queue[p], At(runnable, pri2, p))
    BY <2>1, <1>6, <1>7
  <2>3. n.queue[p] \in Seq(TASK)
    BY <2>2, <1>2, <1>3, <1>4 DEF LeftBehind
  <2> QED
    BY <2>1, <2>2, <2>3
<1>12. n \in ReadyType
  <2>1. n.queue \in [PRI -> Seq(TASK)]
    BY <1>2, <1>3, <1>4 DEF LeftBehind
  <2> QED
    BY <2>1, <1>1, <1>7, <1>11 DEF ReadyType
<1> HIDE DEF pri2
<1>13. ReadyInv(n, runnable, pri2)
  BY <1>5, <1>6, <1>7, <1>10, <1>12, ReadyInvIntro
<1> QED
  BY <1>13 DEF n, pri2

\* rotate_ready_queue moves the first task of a queue to its end.
LEMMA RotateReadyQueueInv ==
    ASSUME NEW r, NEW runnable \in SUBSET TASK, NEW pri \in [TASK -> PRI],
           ReadyInv(r, runnable, pri), NEW p0 \in PRI
    PROVE  ReadyInv(RotateReadyQueue(r, p0), runnable, pri)
<1> DEFINE n == RotateReadyQueue(r, p0)
           s == r.queue[p0]
           new == Append(Tail(s), Head(s))
<1>s. SchedtskFacts(r, runnable, pri)
  BY ReadyFacts
<1>q. QueueFacts(r, runnable, pri)
  BY ReadyFacts
<1>1. CASE Len(s) < 2
  BY <1>1 DEF RotateReadyQueue
<1>2. CASE ~(Len(s) < 2)
  <2>1. s \in Seq(TASK) /\ Enumerates(s, At(runnable, pri, p0)) /\ Len(s) >= 2 /\ s # <<>>
    BY <1>2, <1>q DEF QueueFacts
  <2>2. /\ new \in Seq(TASK) /\ Enumerates(new, At(runnable, pri, p0))
        /\ new # <<>> /\ Head(new) \in TASK
    <3>1. new \in Seq(TASK) /\ Enumerates(new, At(runnable, pri, p0)) /\ new # <<>>
      BY <2>1, RotateEnumerates
    <3> HIDE DEF new
    <3>2. Head(new) \in At(runnable, pri, p0)
      BY <3>1, EnumeratesHead
    <3> QED
      BY <3>1, <3>2 DEF At
  <2>3. r = [queue |-> r.queue, primap |-> r.primap, schedtsk |-> r.schedtsk]
    BY DEF ReadyInv, ReadyType
  <2>4. n = [queue    |-> [r.queue EXCEPT ![p0] = new],
             primap   |-> r.primap,
             schedtsk |-> IF r.schedtsk = Head(s) THEN Head(new) ELSE r.schedtsk]
    BY <2>3, <1>2 DEF RotateReadyQueue
  <2> HIDE DEF n, new
  <2>5. /\ n.queue = [r.queue EXCEPT ![p0] = new]
        /\ n.primap = r.primap
        /\ n.schedtsk = IF r.schedtsk = Head(s) THEN Head(new) ELSE r.schedtsk
    BY <2>4
  <2>6. n \in ReadyType
    BY <2>2, <2>4, <1>q, <1>s DEF QueueFacts, SchedtskFacts, ReadyType
  <2>7. ASSUME NEW p \in PRI
        PROVE  /\ Enumerates(n.queue[p], At(runnable, pri, p))
               /\ p \in n.primap <=> n.queue[p] # <<>>
    BY <2>1, <2>2, <2>5, <1>q DEF QueueFacts
  <2>8. p0 \in r.primap /\ r.schedtsk # NoTask
    BY <2>1, <1>q, <1>s DEF QueueFacts, SchedtskFacts
  <2>9. \E p \in n.primap : /\ \A q \in n.primap : p <= q
                            /\ n.schedtsk = Head(n.queue[p])
    <3> DEFINE p1 == pri[r.schedtsk]
    <3>1. /\ p1 \in PRI /\ r.queue[p1] # <<>> /\ Head(r.queue[p1]) = r.schedtsk
          /\ \A q \in r.primap : p1 <= q
      BY <2>8, <1>s DEF SchedtskFacts
    <3>2. p1 \in n.primap /\ \A q \in n.primap : p1 <= q
      BY <3>1, <2>5, <1>q DEF QueueFacts
    <3>3. n.schedtsk = Head(n.queue[p1])
      <4>1. CASE p1 = p0
        BY <4>1, <3>1, <2>5, <1>q DEF QueueFacts
      <4>2. CASE p1 # p0
        <5>1. Head(s) \in At(runnable, pri, p0)
          BY <2>1, EnumeratesHead
        <5>2. r.schedtsk # Head(s)
          BY <5>1, <4>2 DEF At
        <5> QED
          BY <5>2, <4>2, <3>1, <2>5, <1>q DEF QueueFacts
      <4> QED
        BY <4>1, <4>2
    <3> QED
      BY <3>2, <3>3
  <2>10. n.primap # {}
    BY <2>5, <2>8
  <2>11. ReadyInv(n, runnable, pri)
    BY <2>6, <2>7, <2>9, <2>10, ReadyInvIntro
  <2> QED
    BY <2>11 DEF n
<1> QED
  BY <1>1, <1>2

\* ReadyInv only reads the priorities of the runnable tasks.
LEMMA ReadyInvPriority ==
    ASSUME NEW r, NEW runnable \in SUBSET TASK,
           NEW pri \in [TASK -> PRI], NEW pri2 \in [TASK -> PRI],
           ReadyInv(r, runnable, pri), \A t \in runnable : pri2[t] = pri[t]
    PROVE  ReadyInv(r, runnable, pri2)
<1>s. SchedtskFacts(r, runnable, pri)
  BY ReadyFacts
<1>q. QueueFacts(r, runnable, pri)
  BY ReadyFacts
<1>1. ASSUME NEW p \in PRI
      PROVE  At(runnable, pri2, p) = At(runnable, pri, p)
  BY DEF At
<1>2. r \in ReadyType
  BY DEF ReadyInv
<1>3. ASSUME NEW p \in PRI
      PROVE  /\ Enumerates(r.queue[p], At(runnable, pri2, p))
             /\ p \in r.primap <=> r.queue[p] # <<>>
  BY <1>1, <1>q DEF QueueFacts
<1>4. r.primap = {} => r.schedtsk = NoTask
  BY <1>q, <1>s DEF QueueFacts, SchedtskFacts
<1>5. r.primap # {} => \E p \in r.primap : /\ \A q \in r.primap : p <= q
                                           /\ r.schedtsk = Head(r.queue[p])
  BY <1>q, <1>s DEF QueueFacts, SchedtskFacts
<1> QED
  BY <1>2, <1>3, <1>4, <1>5, ReadyInvIntro

-----------------------------------------------------------------------------
\* The invariant

TcbInv ==
    /\ exist \in SUBSET TASK /\ tmevt \in SUBSET TASK
    /\ tstat \in [TASK -> TSTAT]
    /\ ipriority \in [TASK -> PRI] /\ bpriority \in [TASK -> PRI] /\ priority \in [TASK -> PRI]
    /\ actque \in [TASK -> BOOLEAN] /\ wupque \in [TASK -> BOOLEAN] /\ waifbd \in [TASK -> BOOLEAN]
    /\ TcbConsistent

ModeInv ==
    /\ ipmflg \in BOOLEAN /\ disdsp \in BOOLEAN /\ dspflg \in BOOLEAN /\ locked \in BOOLEAN
    /\ DspflgIsCache

CpuInv ==
    /\ runtsk \in TASK \cup {NoTask} /\ reqflg \in BOOLEAN /\ nest \in 0 .. MaxNest
    /\ DispatchIsPrompt
    /\ RunningTaskIsRunnable

QueueInv == ReadyInv(ready, RunnableTasks, priority)

IInv == TcbInv /\ ModeInv /\ CpuInv /\ QueueInv

-----------------------------------------------------------------------------
\* Where the CPU goes

\* A switch to p_schedtsk leaves nothing pending.
LEMMA DispatcherInv ==
    ASSUME TcbInv', QueueInv', Dispatcher(ready'), dspflg' = TRUE, reqflg' = FALSE
    PROVE  CpuInv'
<1>1. SchedtskFacts(ready', RunnableTasks', priority')
  <2>1. RunnableTasks' \in SUBSET TASK /\ priority' \in [TASK -> PRI]
    BY DEF TcbInv, RunnableTasks
  <2>2. ReadyInv(ready', RunnableTasks', priority')
    BY DEF QueueInv
  <2> QED
    BY <2>1, <2>2, ReadyFacts
<1>2. /\ runtsk' = ready'.schedtsk
      /\ nest' = IF ready'.schedtsk = NoTask THEN 1 ELSE 0
  BY DEF Dispatcher
<1>3. runtsk' \in TASK \cup {NoTask} /\ nest' \in 0 .. MaxNest
  BY <1>1, <1>2, MaxNestAssumption DEF SchedtskFacts
<1>4. DispatchIsPrompt'
  BY <1>2 DEF DispatchIsPrompt
<1>5. RunningTaskIsRunnable'
  BY <1>1, <1>2 DEF SchedtskFacts, RunningTaskIsRunnable, RunnableTasks
<1> QED
  BY <1>3, <1>4, <1>5 DEF CpuInv

\* A call that changes the ready queue and dispatches, or asks for it, at least
\* when another task has become p_schedtsk.
LEMMA RescheduleInv ==
    ASSUME IInv, TcbInv', dspflg' = dspflg,
           NEW r, ReadyInv(r, RunnableTasks', priority'),
           NEW req, dspflg /\ r.schedtsk # ready.schedtsk => req,
           Reschedule(r, req),
           \/ runtsk # NoTask => runtsk \in RunnableTasks'
           \/ nest = 0 /\ dspflg
    PROVE  QueueInv' /\ CpuInv'
<1>1. SchedtskFacts(r, RunnableTasks', priority')
  <2>1. RunnableTasks' \in SUBSET TASK /\ priority' \in [TASK -> PRI]
    BY DEF TcbInv, RunnableTasks
  <2> QED
    BY <2>1, ReadyFacts
<1>2. ready' = r /\ QueueInv'
  BY DEF Reschedule, QueueInv
<1>3. CASE req /\ dspflg /\ nest = 0
  <2>1. Dispatcher(ready') /\ reqflg' = FALSE /\ dspflg' = TRUE
    BY <1>2, <1>3 DEF Reschedule, IInv, CpuInv, DispatchIsPrompt, ModeInv, DspflgIsCache
  <2> QED
    BY <1>2, <2>1, DispatcherInv
<1>4. CASE req /\ dspflg /\ nest # 0
  <2>1. reqflg' = TRUE /\ runtsk' = runtsk /\ nest' = nest
    BY <1>4 DEF Reschedule
  <2>2. DispatchIsPrompt'
    BY <1>4, <2>1 DEF IInv, CpuInv, DispatchIsPrompt
  <2>3. RunningTaskIsRunnable'
    BY <1>4, <2>1 DEF IInv, CpuInv, RunningTaskIsRunnable, RunnableTasks
  <2> QED
    BY <1>2, <2>1, <2>2, <2>3 DEF IInv, CpuInv
<1>5. CASE ~(req /\ dspflg)
  <2>1. reqflg' = reqflg /\ runtsk' = runtsk /\ nest' = nest
    BY <1>5 DEF Reschedule
  <2>2. dspflg => ready'.schedtsk = ready.schedtsk
    BY <1>2, <1>5
  <2>3. DispatchIsPrompt'
    BY <2>1, <2>2 DEF IInv, CpuInv, DispatchIsPrompt
  <2>4. RunningTaskIsRunnable'
    <3>1. CASE runtsk # NoTask => runtsk \in RunnableTasks'
      BY <2>1, <3>1 DEF IInv, CpuInv, RunningTaskIsRunnable, RunnableTasks
    <3>2. CASE nest = 0 /\ dspflg
      <4>1. runtsk # NoTask /\ runtsk = ready'.schedtsk
        BY <3>2, <2>2 DEF IInv, CpuInv, RunningTaskIsRunnable, DispatchIsPrompt
      <4>2. runtsk' \in RunnableTasks'
        BY <4>1, <2>1, <1>1, <1>2 DEF SchedtskFacts
      <4> QED
        BY <4>1, <4>2, <2>1 DEF RunningTaskIsRunnable, RunnableTasks
    <3> QED
      BY <3>1, <3>2
  <2> QED
    BY <1>2, <2>1, <2>3, <2>4 DEF IInv, CpuInv
<1> QED
  BY <1>3, <1>4, <1>5

\* A call that leaves the queue, the CPU and the runnable tasks alone.
LEMMA NoRescheduleInv ==
    ASSUME IInv, TcbInv', UNCHANGED cpuVars,
           dspflg' = dspflg \/ (nest = 0 /\ dspflg' = FALSE),
           RunnableTasks' = RunnableTasks,
           \A t \in RunnableTasks : priority'[t] = priority[t]
    PROVE  QueueInv' /\ CpuInv'
<1>1. ready' = ready /\ runtsk' = runtsk /\ reqflg' = reqflg /\ nest' = nest
  BY DEF cpuVars
<1>2. QueueInv'
  <2>1. RunnableTasks \in SUBSET TASK /\ priority \in [TASK -> PRI] /\ priority' \in [TASK -> PRI]
    BY DEF IInv, TcbInv, RunnableTasks
  <2>2. ReadyInv(ready, RunnableTasks, priority')
    BY <2>1, ReadyInvPriority DEF IInv, QueueInv
  <2> QED
    BY <1>1, <2>2 DEF QueueInv
<1>3. DispatchIsPrompt'
  BY <1>1 DEF IInv, CpuInv, DispatchIsPrompt
<1>4. RunningTaskIsRunnable'
  BY <1>1 DEF IInv, CpuInv, RunningTaskIsRunnable, RunnableTasks
<1> QED
  BY <1>1, <1>2, <1>3, <1>4 DEF IInv, CpuInv

-----------------------------------------------------------------------------
\* What the steps have in common

\* The nesting bound allows the task context and the idle loop.
LEMMA SmallNest == {0, 1} \subseteq 0 .. MaxNest
  BY MaxNestAssumption

\* A step that writes no TCB keeps the runnable tasks.
LEMMA TcbUnchanged ==
    ASSUME TcbInv, UNCHANGED tcbVars
    PROVE  TcbInv' /\ RunnableTasks' = RunnableTasks /\ priority' = priority
<1>1. /\ exist' = exist /\ tstat' = tstat /\ ipriority' = ipriority /\ bpriority' = bpriority
      /\ priority' = priority /\ actque' = actque /\ wupque' = wupque /\ waifbd' = waifbd
      /\ tmevt' = tmevt
  BY DEF tcbVars
<1>2. RunnableTasks' = RunnableTasks
  BY <1>1 DEF RunnableTasks, Runnable
<1> QED
  BY <1>1, <1>2 DEF TcbInv, TcbConsistent, TcbOk, Dormant, Waiting, Sleeping, Queued, Delayed

\* A step that writes no mode flag keeps dspflg the cache it is.
LEMMA ModeUnchanged ==
    ASSUME ModeInv, UNCHANGED modeVars
    PROVE  ModeInv' /\ dspflg' = dspflg
  BY DEF modeVars, ModeInv, DspflgIsCache

\* The ready queue stays right when neither it nor the runnable tasks change.
LEMMA QueueUnchanged ==
    ASSUME QueueInv, ready' = ready, RunnableTasks' = RunnableTasks, priority' = priority
    PROVE  QueueInv'
  BY DEF QueueInv

\* In the task context there is a running task, and with dispatching enabled it
\* is p_schedtsk: nothing is pending.
LEMMA TaskContext ==
    ASSUME IInv, nest = 0
    PROVE  /\ runtsk \in RunnableTasks /\ runtsk # NoTask /\ runtsk \in exist
           /\ ~Dormant(runtsk) /\ reqflg = FALSE
           /\ dspflg => runtsk = ready.schedtsk
<1>1. runtsk # NoTask /\ Runnable(runtsk) /\ runtsk \in TASK
  BY DEF IInv, CpuInv, RunningTaskIsRunnable
<1>2. ~Dormant(runtsk)
  BY <1>1 DEF Dormant, Runnable
<1>3. runtsk \in exist
  BY <1>1, <1>2 DEF IInv, TcbInv, TcbConsistent, TcbOk
<1> QED
  BY <1>1, <1>2, <1>3 DEF IInv, CpuInv, ModeInv, DispatchIsPrompt, RunnableTasks

\* The values of tstat that the operations write.
LEMMA TstatValues ==
    /\ {} \in TSTAT /\ {"RUNNABLE"} \in TSTAT /\ {"SUSPENDED"} \in TSTAT
    /\ {"WAITING"} \cup {} \in TSTAT /\ {"WAITING"} \cup {"SLP"} \in TSTAT
    /\ {"WAITING"} \cup {"WOBJ"} \in TSTAT
  BY DEF TSTAT

\* The bits of tstat that exclude or imply one another.
LEMMA TstatFacts ==
    ASSUME NEW x \in TSTAT
    PROVE  /\ "WAITING" \in x => x \cup {"SUSPENDED"} \in TSTAT /\ x \ {"SUSPENDED"} \in TSTAT
           /\ "RUNNABLE" \in x => x = {"RUNNABLE"}
           /\ "SLP" \in x => "WAITING" \in x
           /\ "WAITING" \in x \/ "RUNNABLE" \in x \/ x = {} \/ x = {"SUSPENDED"}
           /\ "WAITING" \in x => "RUNNABLE" \notin x
  BY DEF TSTAT

\* make_runnable on a task that starts to be runnable
LEMMA BecomeReadyInv ==
    ASSUME IInv, TcbInv', NEW t \in TASK, ~Runnable(t), BecomeReady(t),
           tstat' = [tstat EXCEPT ![t] = {"RUNNABLE"}],
           priority' = priority, dspflg' = dspflg
    PROVE  QueueInv' /\ CpuInv'
<1> DEFINE r == MakeRunnable(ready, t, priority)
<1>1. RunnableTasks' = RunnableTasks \cup {t}
  BY DEF IInv, TcbInv, RunnableTasks, Runnable
<1>2. ReadyInv(r, RunnableTasks', priority')
  <2>1. RunnableTasks \in SUBSET TASK /\ priority \in [TASK -> PRI] /\ t \notin RunnableTasks
        /\ ReadyInv(ready, RunnableTasks, priority)
    BY DEF IInv, TcbInv, RunnableTasks, QueueInv
  <2> QED
    BY <1>1, <2>1, MakeRunnableInv
<1>3. Reschedule(r, DispatchRequest(ready, r))
  BY DEF BecomeReady
<1>4. runtsk # NoTask => runtsk \in RunnableTasks'
  <2>1. runtsk # NoTask => runtsk \in RunnableTasks
    BY DEF IInv, CpuInv, RunningTaskIsRunnable, RunnableTasks
  <2> QED
    BY <1>1, <2>1
<1> HIDE DEF r
<1> QED
  BY <1>2, <1>3, <1>4, RescheduleInv DEF DispatchRequest

\* act_tsk and iact_tsk keep the invariant.
LEMMA ActivateInv ==
    ASSUME IInv, NEW t \in TASK, Activate(t)
    PROVE  IInv'
<1>1. ModeInv' /\ dspflg' = dspflg /\ priority' = priority
  BY ModeUnchanged DEF Activate, IInv
<1>2. CASE Dormant(t)
  <2>1. /\ tstat' = [tstat EXCEPT ![t] = {"RUNNABLE"}] /\ BecomeReady(t) /\ ~Runnable(t)
        /\ t \in exist /\ actque' = actque
    BY <1>2 DEF Activate, Dormant, Runnable
  <2>2. ASSUME NEW u \in TASK
        PROVE  TcbOk(u)'
    <3>1. CASE u = t
      BY <1>2, <2>1, <3>1
         DEF Activate, IInv, TcbInv, TcbConsistent, TcbOk, Dormant, Waiting, Sleeping, Queued, Delayed
    <3>2. CASE u # t
      BY <2>1, <3>2
         DEF Activate, IInv, TcbInv, TcbConsistent, TcbOk, Dormant, Waiting, Sleeping, Queued, Delayed
    <3> QED
      BY <3>1, <3>2
  <2>3. TcbInv'
    BY <2>1, <2>2, TstatValues DEF Activate, IInv, TcbInv, TcbConsistent
  <2> QED
    BY <1>1, <2>1, <2>3, BecomeReadyInv DEF IInv
<1>3. CASE ~Dormant(t)
  <2>1. UNCHANGED cpuVars /\ tstat' = tstat
    BY <1>3 DEF Activate
  <2>2. TcbInv'
    BY <1>3, <2>1
       DEF Activate, IInv, TcbInv, TcbConsistent, TcbOk, Dormant, Waiting, Sleeping, Queued, Delayed
  <2>3. RunnableTasks' = RunnableTasks
    BY <2>1 DEF RunnableTasks, Runnable
  <2> QED
    BY <1>1, <2>1, <2>2, <2>3, NoRescheduleInv DEF IInv
<1> QED
  BY <1>2, <1>3

\* can_act keeps the invariant.
LEMMA CanActInv ==
    ASSUME IInv, NEW t \in TASK, CanAct(t)
    PROVE  IInv'
<1>1. ModeInv' /\ dspflg' = dspflg /\ UNCHANGED cpuVars /\ priority' = priority
  BY ModeUnchanged DEF CanAct, IInv
<1>2. TcbInv'
  BY DEF CanAct, IInv, TcbInv, TcbConsistent, TcbOk, Dormant, Waiting, Sleeping, Queued, Delayed
<1>3. RunnableTasks' = RunnableTasks
  BY DEF CanAct, RunnableTasks, Runnable
<1> QED
  BY <1>1, <1>2, <1>3, NoRescheduleInv DEF IInv

\* make_dormant, with the activation that actque asks for, keeps the TCBs consistent.
LEMMA MakeDormantInv ==
    ASSUME TcbInv, NEW t \in TASK, t \in exist, MakeDormant(t)
    PROVE  /\ TcbInv'
           /\ RunnableTasks' = IF actque[t] THEN (RunnableTasks \ {t}) \cup {t}
                                            ELSE RunnableTasks \ {t}
           /\ \A u \in TASK \ {t} : priority'[u] = priority[u]
<1>1. ASSUME NEW u \in TASK
      PROVE  TcbOk(u)'
  <2>1. CASE u = t
    BY <2>1 DEF MakeDormant, TcbInv, TcbConsistent, TcbOk, Dormant, Waiting, Sleeping, Queued, Delayed
  <2>2. CASE u # t
    BY <2>2 DEF MakeDormant, TcbInv, TcbConsistent, TcbOk, Dormant, Waiting, Sleeping, Queued, Delayed
  <2> QED
    BY <2>1, <2>2
<1>2. TcbInv'
  BY <1>1, TstatValues DEF MakeDormant, TcbInv, TcbConsistent
<1>3. RunnableTasks' = IF actque[t] THEN (RunnableTasks \ {t}) \cup {t}
                                    ELSE RunnableTasks \ {t}
  BY DEF MakeDormant, TcbInv, RunnableTasks, Runnable
<1>4. \A u \in TASK \ {t} : priority'[u] = priority[u]
  BY DEF MakeDormant, TcbInv
<1> QED
  BY <1>2, <1>3, <1>4

\* A runnable task that becomes dormant, and is put back if actque is set.
LEMMA LeaveAndReturn ==
    ASSUME IInv, TcbInv', NEW t \in RunnableTasks,
           \A u \in TASK \ {t} : priority'[u] = priority[u]
    PROVE  LET left == MakeNonRunnable(ready, t, priority)
           IN  /\ ReadyInv(left, RunnableTasks \ {t}, priority')
               /\ ReadyInv(MakeRunnable(left, t, priority'), (RunnableTasks \ {t}) \cup {t}, priority')
<1> DEFINE left == MakeNonRunnable(ready, t, priority)
           rest == RunnableTasks \ {t}
<1>1. /\ RunnableTasks \in SUBSET TASK /\ rest \in SUBSET TASK /\ t \in TASK /\ t \notin rest
      /\ priority \in [TASK -> PRI] /\ priority' \in [TASK -> PRI]
      /\ ReadyInv(ready, RunnableTasks, priority)
  BY DEF IInv, TcbInv, QueueInv, RunnableTasks
<1>2. ReadyInv(left, rest, priority)
  BY <1>1, MakeNonRunnableInv
<1>3. \A u \in rest : priority'[u] = priority[u]
  BY <1>1
<1> HIDE DEF left, rest
<1>4. ReadyInv(left, rest, priority')
  BY <1>1, <1>2, <1>3, ReadyInvPriority
<1>5. ReadyInv(MakeRunnable(left, t, priority'), rest \cup {t}, priority')
  BY <1>1, <1>4, MakeRunnableInv
<1> QED
  BY <1>4, <1>5 DEF left, rest

\* ext_tsk keeps the invariant: the next task runs with every mode flag reset.
LEMMA ExtTskInv ==
    ASSUME IInv, ExtTsk
    PROVE  IInv'
<1> DEFINE t == runtsk
           left == MakeNonRunnable(ready, t, priority)
<1>1. t \in RunnableTasks /\ t \in TASK /\ t \in exist /\ reqflg = FALSE
  BY TaskContext DEF ExtTsk, RunnableTasks
<1>2. /\ TcbInv'
      /\ RunnableTasks' = IF actque[t] THEN (RunnableTasks \ {t}) \cup {t} ELSE RunnableTasks \ {t}
      /\ \A u \in TASK \ {t} : priority'[u] = priority[u]
  BY <1>1, MakeDormantInv DEF ExtTsk, IInv
<1>3. /\ ReadyInv(left, RunnableTasks \ {t}, priority')
      /\ ReadyInv(MakeRunnable(left, t, priority'), (RunnableTasks \ {t}) \cup {t}, priority')
  BY <1>1, <1>2, LeaveAndReturn
<1>4. ready' = IF actque[t] THEN MakeRunnable(left, t, priority') ELSE left
  BY DEF ExtTsk
<1>5. QueueInv'
  BY <1>2, <1>3, <1>4 DEF QueueInv
<1>6. ModeInv' /\ dspflg' = TRUE /\ reqflg' = FALSE /\ Dispatcher(ready')
  BY <1>1 DEF ExtTsk, ModeInv, DspflgIsCache
<1>7. CpuInv'
  BY <1>2, <1>5, <1>6, DispatcherInv
<1> QED
  BY <1>2, <1>5, <1>6, <1>7 DEF IInv

\* ter_tsk keeps the invariant. Its target is not p_schedtsk while dispatching is
\* enabled, so dropping the result of make_non_runnable loses no request.
LEMMA TerTskInv ==
    ASSUME IInv, NEW t \in TASK, TerTsk(t)
    PROVE  IInv'
<1> DEFINE left == IF Runnable(t) THEN MakeNonRunnable(ready, t, priority) ELSE ready
           back == MakeRunnable(left, t, priority')
<1>1. nest = 0 /\ t \in exist /\ t # runtsk /\ MakeDormant(t) /\ UNCHANGED modeVars
  BY DEF TerTsk, TskCtxUnl
<1>2. runtsk \in RunnableTasks /\ (dspflg => ready.schedtsk # t)
  BY <1>1, TaskContext
<1>3. /\ TcbInv'
      /\ RunnableTasks' = IF actque[t] THEN (RunnableTasks \ {t}) \cup {t} ELSE RunnableTasks \ {t}
      /\ \A u \in TASK \ {t} : priority'[u] = priority[u]
  BY <1>1, MakeDormantInv DEF IInv
<1>4. ReadyInv(left, RunnableTasks \ {t}, priority')
      /\ ReadyInv(back, (RunnableTasks \ {t}) \cup {t}, priority')
  <2>1. CASE Runnable(t)
    <3>1. t \in RunnableTasks
      BY <2>1 DEF RunnableTasks
    <3> QED
      BY <2>1, <3>1, <1>3, LeaveAndReturn
  <2>2. CASE ~Runnable(t)
    <3>1. /\ RunnableTasks \in SUBSET TASK /\ t \notin RunnableTasks
          /\ RunnableTasks \ {t} = RunnableTasks
          /\ priority \in [TASK -> PRI] /\ priority' \in [TASK -> PRI]
          /\ ReadyInv(ready, RunnableTasks, priority)
      BY <2>2, <1>3 DEF IInv, TcbInv, QueueInv, RunnableTasks
    <3>2. \A u \in RunnableTasks : priority'[u] = priority[u]
      BY <3>1, <1>3
    <3>3. ReadyInv(ready, RunnableTasks, priority')
      BY <3>1, <3>2, ReadyInvPriority
    <3>4. ReadyInv(MakeRunnable(ready, t, priority'), RunnableTasks \cup {t}, priority')
      BY <3>1, <3>3, MakeRunnableInv
    <3> QED
      BY <2>2, <3>1, <3>3, <3>4
  <2> QED
    BY <2>1, <2>2
<1>5. dspflg => left.schedtsk = ready.schedtsk
  BY <1>2 DEF MakeNonRunnable
<1>6. IF actque[t] THEN Reschedule(back, DispatchRequest(left, back)) ELSE Reschedule(left, FALSE)
  BY DEF TerTsk
<1> HIDE DEF left, back
<1>7. runtsk \in RunnableTasks'
  BY <1>1, <1>2, <1>3
<1>8. ModeInv' /\ dspflg' = dspflg
  BY <1>1, ModeUnchanged DEF IInv
<1>9. CASE actque[t]
  <2>1. ReadyInv(back, RunnableTasks', priority') /\ Reschedule(back, DispatchRequest(left, back))
        /\ (dspflg => (DispatchRequest(left, back) <=> back.schedtsk # ready.schedtsk))
    BY <1>3, <1>4, <1>5, <1>6, <1>9 DEF DispatchRequest
  <2> QED
    BY <2>1, <1>3, <1>7, <1>8, RescheduleInv DEF IInv
<1>10. CASE ~actque[t]
  <2>1. ReadyInv(left, RunnableTasks', priority') /\ Reschedule(left, FALSE)
        /\ (dspflg => (FALSE <=> left.schedtsk # ready.schedtsk))
    BY <1>3, <1>4, <1>5, <1>6, <1>10
  <2> QED
    BY <2>1, <1>3, <1>7, <1>8, RescheduleInv DEF IInv
<1> QED
  BY <1>9, <1>10

\* chg_pri keeps the invariant.
LEMMA ChgPriInv ==
    ASSUME IInv, NEW t \in TASK, NEW p \in PRI, ChgPri(t, p)
    PROVE  IInv'
<1> DEFINE r == ChangePriority(ready, t, priority, p, FALSE)
<1>1. /\ t \in exist /\ ~Dormant(t) /\ UNCHANGED modeVars /\ tstat' = tstat
      /\ priority' = [priority EXCEPT ![t] = p]
      /\ IF Runnable(t) THEN Reschedule(r, DispatchRequest(ready, r)) ELSE UNCHANGED cpuVars
  BY DEF ChgPri
<1>2. RunnableTasks' = RunnableTasks
  BY <1>1 DEF RunnableTasks, Runnable
<1>3. ASSUME NEW u \in TASK
      PROVE  TcbOk(u)'
  BY DEF ChgPri, IInv, TcbInv, TcbConsistent, TcbOk, Dormant, Waiting, Sleeping, Queued, Delayed
<1>4. TcbInv'
  BY <1>3 DEF ChgPri, IInv, TcbInv, TcbConsistent
<1>5. ModeInv' /\ dspflg' = dspflg
  BY <1>1, ModeUnchanged DEF IInv
<1>6. CASE Runnable(t)
  <2>1. /\ RunnableTasks \in SUBSET TASK /\ t \in RunnableTasks /\ priority \in [TASK -> PRI]
        /\ ReadyInv(ready, RunnableTasks, priority)
    BY <1>6 DEF IInv, TcbInv, QueueInv, RunnableTasks
  <2>2. ReadyInv(r, RunnableTasks', priority')
    BY <2>1, <1>1, <1>2, ChangePriorityInv
  <2>3. Reschedule(r, DispatchRequest(ready, r))
    BY <1>1, <1>6
  <2>4. runtsk # NoTask => runtsk \in RunnableTasks'
    BY <1>2 DEF IInv, CpuInv, RunningTaskIsRunnable, RunnableTasks
  <2> HIDE DEF r
  <2> QED
    BY <2>2, <2>3, <2>4, <1>4, <1>5, RescheduleInv DEF IInv, DispatchRequest
<1>7. CASE ~Runnable(t)
  <2>1. \A u \in RunnableTasks : priority'[u] = priority[u]
    BY <1>1, <1>7 DEF IInv, TcbInv, RunnableTasks
  <2> QED
    BY <2>1, <1>1, <1>2, <1>4, <1>5, <1>7, NoRescheduleInv DEF IInv
<1> QED
  BY <1>6, <1>7

\* acre_tsk without TA_ACT keeps the invariant.
LEMMA AcreTskInv ==
    ASSUME IInv, NEW t \in TASK, NEW p \in PRI, AcreTsk(t, p)
    PROVE  IInv'
<1>1. /\ t \notin exist /\ UNCHANGED modeVars /\ UNCHANGED cpuVars /\ tstat' = tstat
      /\ exist' = exist \cup {t} /\ priority' = [priority EXCEPT ![t] = p]
  BY DEF AcreTsk, CreateTask
<1>2. RunnableTasks' = RunnableTasks
  BY <1>1 DEF RunnableTasks, Runnable
<1>3. ASSUME NEW u \in TASK
      PROVE  TcbOk(u)'
  BY DEF AcreTsk, CreateTask, IInv, TcbInv, TcbConsistent, TcbOk, Dormant, Waiting, Sleeping, Queued, Delayed
<1>4. TcbInv'
  BY <1>3 DEF AcreTsk, CreateTask, IInv, TcbInv, TcbConsistent
<1>5. \A u \in RunnableTasks : priority'[u] = priority[u]
  <2>1. t \notin RunnableTasks
    BY <1>1 DEF IInv, TcbInv, TcbConsistent, TcbOk, Dormant, RunnableTasks, Runnable
  <2> QED
    BY <2>1, <1>1 DEF IInv, TcbInv, RunnableTasks
<1>6. ModeInv' /\ dspflg' = dspflg
  BY <1>1, ModeUnchanged DEF IInv
<1> QED
  BY <1>1, <1>2, <1>4, <1>5, <1>6, NoRescheduleInv DEF IInv

\* Calls that only change fields no queue depends on.
LEMMA FieldInv ==
    ASSUME IInv, NEW t \in TASK, DelTsk(t) \/ CanWup(t) \/ SetWaifbd(t)
    PROVE  IInv'
<1>1. UNCHANGED modeVars /\ UNCHANGED cpuVars /\ tstat' = tstat /\ priority' = priority
  BY DEF DelTsk, CanWup, SetWaifbd
<1>2. RunnableTasks' = RunnableTasks
  BY <1>1 DEF RunnableTasks, Runnable
<1>3. ASSUME NEW u \in TASK
      PROVE  TcbOk(u)'
  BY DEF DelTsk, CanWup, SetWaifbd, IInv, TcbInv, TcbConsistent, TcbOk, Dormant, Waiting, Sleeping, Queued, Delayed
<1>4. TcbInv'
  BY <1>3 DEF DelTsk, CanWup, SetWaifbd, IInv, TcbInv, TcbConsistent
<1>5. ModeInv' /\ dspflg' = dspflg
  BY <1>1, ModeUnchanged DEF IInv
<1> QED
  BY <1>1, <1>2, <1>4, <1>5, NoRescheduleInv DEF IInv

\* make_wait: the running task leaves the ready queue and the CPU.
LEMMA MakeWaitInv ==
    ASSUME IInv, DispatchState, TcbInv', UNCHANGED modeVars, priority' = priority,
           NEW cause \in {{}, {"SLP"}, {"WOBJ"}}, NEW timed \in BOOLEAN, MakeWait(cause, timed)
    PROVE  IInv'
<1>1. nest = 0 /\ dspflg
  BY DEF DispatchState, TskCtxUnl
<1>2. runtsk \in RunnableTasks /\ reqflg = FALSE
  BY <1>1, TaskContext
<1>3. RunnableTasks' = RunnableTasks \ {runtsk}
  BY <1>2 DEF MakeWait, IInv, TcbInv, RunnableTasks, Runnable
<1>4. ready' = MakeNonRunnable(ready, runtsk, priority) /\ Dispatcher(ready') /\ reqflg' = FALSE
  BY <1>2 DEF MakeWait
<1>5. QueueInv'
  <2>1. RunnableTasks \in SUBSET TASK /\ priority \in [TASK -> PRI]
        /\ ReadyInv(ready, RunnableTasks, priority)
    BY DEF IInv, TcbInv, QueueInv, RunnableTasks
  <2>2. ReadyInv(ready', RunnableTasks', priority)
    BY <2>1, <1>2, <1>3, <1>4, MakeNonRunnableInv
  <2> QED
    BY <2>2 DEF QueueInv
<1>6. ModeInv' /\ dspflg' = TRUE
  BY <1>1, ModeUnchanged DEF IInv, ModeInv
<1>7. CpuInv'
  BY <1>4, <1>5, <1>6, DispatcherInv
<1> QED
  BY <1>5, <1>6, <1>7 DEF IInv

\* slp_tsk and tslp_tsk keep the invariant.
LEMMA SlpTskInv ==
    ASSUME IInv, NEW timed \in BOOLEAN, SlpTsk(timed)
    PROVE  IInv'
<1>1. DispatchState /\ UNCHANGED modeVars /\ priority' = priority
  BY DEF SlpTsk
<1>2. runtsk \in TASK /\ Runnable(runtsk) /\ runtsk \in exist
  BY <1>1, TaskContext DEF DispatchState, TskCtxUnl, RunnableTasks
<1>3. CASE wupque[runtsk]
  <2>1. UNCHANGED cpuVars /\ tstat' = tstat /\ wupque' = [wupque EXCEPT ![runtsk] = FALSE]
    BY <1>3 DEF SlpTsk
  <2>2. RunnableTasks' = RunnableTasks
    BY <2>1 DEF RunnableTasks, Runnable
  <2>3. ASSUME NEW u \in TASK
        PROVE  TcbOk(u)'
    BY <1>3, <2>1
       DEF SlpTsk, IInv, TcbInv, TcbConsistent, TcbOk, Dormant, Waiting, Sleeping, Queued, Delayed
  <2>4. TcbInv'
    BY <1>3, <2>1, <2>3 DEF SlpTsk, IInv, TcbInv, TcbConsistent
  <2>5. ModeInv' /\ dspflg' = dspflg
    BY <1>1, ModeUnchanged DEF IInv
  <2> QED
    BY <1>1, <2>1, <2>2, <2>4, <2>5, NoRescheduleInv DEF IInv
<1>4. CASE ~wupque[runtsk]
  <2>1. MakeWait({"SLP"}, timed) /\ wupque' = wupque
    BY <1>4 DEF SlpTsk
  <2>2. ASSUME NEW u \in TASK
        PROVE  TcbOk(u)'
    <3>1. CASE u = runtsk
      BY <1>2, <1>4, <2>1, <3>1
         DEF MakeWait, SlpTsk, IInv, TcbInv, TcbConsistent, TcbOk, Dormant, Waiting, Sleeping, Queued, Delayed
    <3>2. CASE u # runtsk
      BY <1>2, <2>1, <3>2
         DEF MakeWait, SlpTsk, IInv, TcbInv, TcbConsistent, TcbOk, Dormant, Waiting, Sleeping, Queued, Delayed
    <3> QED
      BY <3>1, <3>2
  <2>3. TcbInv'
    BY <1>2, <2>1, <2>2, TstatValues DEF MakeWait, SlpTsk, IInv, TcbInv, TcbConsistent
  <2> QED
    BY <1>1, <2>1, <2>3, MakeWaitInv
<1> QED
  BY <1>3, <1>4

\* dly_tsk keeps the invariant.
LEMMA DlyTskInv ==
    ASSUME IInv, DlyTsk
    PROVE  IInv'
<1>1. DispatchState /\ UNCHANGED modeVars /\ priority' = priority /\ MakeWait({}, TRUE)
  BY DEF DlyTsk
<1>2. runtsk \in TASK /\ Runnable(runtsk) /\ runtsk \in exist
  BY <1>1, TaskContext DEF DispatchState, TskCtxUnl, RunnableTasks
<1>3. ASSUME NEW u \in TASK
      PROVE  TcbOk(u)'
  <2>1. CASE u = runtsk
    BY <1>1, <1>2, <2>1
       DEF MakeWait, DlyTsk, IInv, TcbInv, TcbConsistent, TcbOk, Dormant, Waiting, Sleeping, Queued, Delayed
  <2>2. CASE u # runtsk
    BY <1>1, <1>2, <2>2
       DEF MakeWait, DlyTsk, IInv, TcbInv, TcbConsistent, TcbOk, Dormant, Waiting, Sleeping, Queued, Delayed
  <2> QED
    BY <2>1, <2>2
<1>4. TcbInv'
  BY <1>1, <1>2, <1>3, TstatValues DEF MakeWait, DlyTsk, IInv, TcbInv, TcbConsistent
<1> QED
  BY <1>1, <1>4, MakeWaitInv

\* make_non_wait: a waiting task becomes runnable, unless it is suspended.
LEMMA MakeNonWaitInv ==
    ASSUME IInv, NEW t \in TASK, t \in exist, Waiting(t), MakeNonWait(t),
           UNCHANGED <<exist, ipriority, bpriority, priority, actque, wupque, waifbd, modeVars>>
    PROVE  IInv'
<1>1. ~Runnable(t) /\ ModeInv' /\ dspflg' = dspflg
  <2>1. tstat[t] \in TSTAT
    BY DEF IInv, TcbInv
  <2>2. ~Runnable(t)
    BY <2>1, TstatFacts DEF Waiting, Runnable
  <2>3. UNCHANGED modeVars
    OBVIOUS
  <2> QED
    BY <2>2, <2>3, ModeUnchanged DEF IInv
<1>2. tmevt' = tmevt \ {t}
      /\ (\/ tstat' = [tstat EXCEPT ![t] = {"SUSPENDED"}] /\ UNCHANGED cpuVars
          \/ tstat' = [tstat EXCEPT ![t] = {"RUNNABLE"}] /\ BecomeReady(t))
  BY DEF MakeNonWait
<1>3. ASSUME NEW u \in TASK
      PROVE  TcbOk(u)'
  <2>1. CASE u = t
    <3>1. tstat'[t] \in {{"SUSPENDED"}, {"RUNNABLE"}} /\ t \notin tmevt'
      BY <1>2 DEF IInv, TcbInv
    <3>2. ~Dormant(t)' /\ ~Sleeping(t)' /\ ~Waiting(t)' /\ exist' = exist
      BY <3>1 DEF Dormant, Sleeping, Waiting
    <3> QED
      BY <2>1, <3>1, <3>2 DEF TcbOk, Delayed
  <2>2. CASE u # t
    BY <1>2, <2>2 DEF IInv, TcbInv, TcbConsistent, TcbOk, Dormant, Waiting, Sleeping, Queued, Delayed
  <2> QED
    BY <2>1, <2>2
<1>4. TcbInv'
  BY <1>2, <1>3, TstatValues DEF IInv, TcbInv, TcbConsistent
<1>5. CASE tstat' = [tstat EXCEPT ![t] = {"SUSPENDED"}] /\ UNCHANGED cpuVars
  <2>1. RunnableTasks' = RunnableTasks
    BY <1>1, <1>5 DEF IInv, TcbInv, RunnableTasks, Runnable
  <2> QED
    BY <1>1, <1>4, <1>5, <2>1, NoRescheduleInv DEF IInv
<1>6. CASE tstat' = [tstat EXCEPT ![t] = {"RUNNABLE"}] /\ BecomeReady(t)
  BY <1>1, <1>4, <1>6, BecomeReadyInv DEF IInv
<1> QED
  BY <1>2, <1>5, <1>6

\* wup_tsk and iwup_tsk keep the invariant.
LEMMA WakeUpInv ==
    ASSUME IInv, NEW t \in TASK, WakeUp(t)
    PROVE  IInv'
<1>1. t \in exist /\ ~Dormant(t)
      /\ UNCHANGED <<exist, ipriority, bpriority, priority, actque, waifbd, modeVars>>
  BY DEF WakeUp
<1>2. CASE Sleeping(t)
  <2>1. MakeNonWait(t) /\ wupque' = wupque
    BY <1>2 DEF WakeUp
  <2>2. Waiting(t)
    <3>1. tstat[t] \in TSTAT
      BY DEF IInv, TcbInv
    <3> QED
      BY <1>2, <3>1, TstatFacts DEF Sleeping, Waiting
  <2> QED
    BY <1>1, <2>1, <2>2, MakeNonWaitInv
<1>3. CASE ~Sleeping(t)
  <2>1. UNCHANGED cpuVars /\ tstat' = tstat /\ wupque' = [wupque EXCEPT ![t] = TRUE] /\ tmevt' = tmevt
    BY <1>3 DEF WakeUp
  <2>2. RunnableTasks' = RunnableTasks
    BY <2>1 DEF RunnableTasks, Runnable
  <2>3. ASSUME NEW u \in TASK
        PROVE  TcbOk(u)'
    BY <1>1, <1>3, <2>1 DEF IInv, TcbInv, TcbConsistent, TcbOk, Dormant, Waiting, Sleeping, Queued, Delayed
  <2>4. TcbInv'
    BY <1>1, <2>1, <2>3 DEF IInv, TcbInv, TcbConsistent
  <2>5. ModeInv' /\ dspflg' = dspflg
    BY <1>1, ModeUnchanged DEF IInv
  <2> QED
    BY <1>1, <2>1, <2>2, <2>4, <2>5, NoRescheduleInv DEF IInv
<1> QED
  BY <1>2, <1>3

\* rel_wai, irel_wai and a timeout keep the invariant.
LEMMA ReleaseWaitInv ==
    ASSUME IInv, NEW t \in TASK, ReleaseWait(t) \/ WaitTmout(t)
    PROVE  IInv'
<1>1. Waiting(t) /\ t \in exist
  BY DEF ReleaseWait, WaitTmout, IInv, TcbInv, TcbConsistent, TcbOk, Dormant, Waiting
<1>2. /\ MakeNonWait(t)
      /\ UNCHANGED <<exist, ipriority, bpriority, priority, actque, wupque, waifbd, modeVars>>
  BY DEF ReleaseWait, WaitTmout
<1> QED
  BY <1>1, <1>2, MakeNonWaitInv

\* sus_tsk keeps the invariant, also when a task suspends itself.
LEMMA SusTskInv ==
    ASSUME IInv, NEW t \in TASK, SusTsk(t)
    PROVE  IInv'
<1>1. /\ nest = 0 /\ (t = runtsk => dspflg) /\ t \in exist /\ ~Dormant(t)
      /\ UNCHANGED <<exist, ipriority, bpriority, priority, actque, wupque, waifbd, tmevt, modeVars>>
  BY DEF SusTsk, TskCtxUnl, IInv, ModeInv
<1>2. tstat[t] \in TSTAT /\ tstat \in [TASK -> TSTAT]
  BY DEF IInv, TcbInv
<1>3. ModeInv' /\ dspflg' = dspflg
  BY <1>1, ModeUnchanged DEF IInv
<1>4. CASE Runnable(t)
  <2>1. tstat' = [tstat EXCEPT ![t] = {"SUSPENDED"}] /\ BecomeNonReady(t)
    BY <1>4 DEF SusTsk
  <2>2. RunnableTasks' = RunnableTasks \ {t} /\ t \in RunnableTasks
    BY <1>2, <1>4, <2>1 DEF RunnableTasks, Runnable
  <2>3. ASSUME NEW u \in TASK
        PROVE  TcbOk(u)'
    <3>1. tstat[t] = {"RUNNABLE"}
      BY <1>2, <1>4, TstatFacts DEF Runnable
    <3>2. CASE u = t
      BY <1>1, <1>2, <2>1, <3>1, <3>2
         DEF IInv, TcbInv, TcbConsistent, TcbOk, Dormant, Waiting, Sleeping, Queued, Delayed
    <3>3. CASE u # t
      BY <1>1, <1>2, <2>1, <3>3
         DEF IInv, TcbInv, TcbConsistent, TcbOk, Dormant, Waiting, Sleeping, Queued, Delayed
    <3> QED
      BY <3>2, <3>3
  <2>4. TcbInv'
    BY <1>1, <2>1, <2>3, TstatValues DEF IInv, TcbInv, TcbConsistent
  <2> DEFINE r == MakeNonRunnable(ready, t, priority)
  <2>5. ReadyInv(r, RunnableTasks', priority')
    <3>1. RunnableTasks \in SUBSET TASK /\ priority \in [TASK -> PRI] /\ priority' = priority
          /\ ReadyInv(ready, RunnableTasks, priority)
      BY <1>1 DEF IInv, TcbInv, QueueInv, RunnableTasks
    <3> QED
      BY <2>2, <3>1, MakeNonRunnableInv
  <2>6. Reschedule(r, DispatchRequest(ready, r))
    BY <2>1 DEF BecomeNonReady
  <2>7. (runtsk # NoTask => runtsk \in RunnableTasks') \/ (nest = 0 /\ dspflg)
    BY <1>1, <2>2, TaskContext
  <2> HIDE DEF r
  <2> QED
    BY <1>3, <2>4, <2>5, <2>6, <2>7, RescheduleInv DEF IInv, DispatchRequest
<1>5. CASE ~Runnable(t)
  <2>1. tstat' = [tstat EXCEPT ![t] = @ \cup {"SUSPENDED"}] /\ UNCHANGED cpuVars
    BY <1>5 DEF SusTsk
  <2>2. RunnableTasks' = RunnableTasks
    BY <1>2, <1>5, <2>1 DEF RunnableTasks, Runnable
  <2>3. tstat[t] \cup {"SUSPENDED"} \in TSTAT
    BY <1>1, <1>2, <1>5 DEF TSTAT, Dormant, Runnable
  <2>4. ASSUME NEW u \in TASK
        PROVE  TcbOk(u)'
    <3>1. CASE u = t
      BY <1>1, <1>2, <2>1, <3>1
         DEF IInv, TcbInv, TcbConsistent, TcbOk, Dormant, Waiting, Sleeping, Queued, Delayed
    <3>2. CASE u # t
      BY <1>1, <1>2, <2>1, <3>2
         DEF IInv, TcbInv, TcbConsistent, TcbOk, Dormant, Waiting, Sleeping, Queued, Delayed
    <3> QED
      BY <3>1, <3>2
  <2>5. TcbInv'
    BY <1>1, <2>1, <2>3, <2>4 DEF IInv, TcbInv, TcbConsistent
  <2> QED
    BY <1>1, <1>3, <2>1, <2>2, <2>5, NoRescheduleInv DEF IInv
<1> QED
  BY <1>4, <1>5

\* rsm_tsk keeps the invariant.
LEMMA RsmTskInv ==
    ASSUME IInv, NEW t \in TASK, RsmTsk(t)
    PROVE  IInv'
<1>1. /\ t \in exist /\ Suspended(t)
      /\ UNCHANGED <<exist, ipriority, bpriority, priority, actque, wupque, waifbd, tmevt, modeVars>>
  BY DEF RsmTsk
<1>2. tstat[t] \in TSTAT /\ tstat \in [TASK -> TSTAT]
  BY DEF IInv, TcbInv
<1>3. ModeInv' /\ dspflg' = dspflg
  BY <1>1, ModeUnchanged DEF IInv
<1>4. ~Runnable(t)
  BY <1>1, <1>2 DEF TSTAT, Suspended, Runnable
<1>5. CASE Waiting(t)
  <2>1. tstat' = [tstat EXCEPT ![t] = @ \ {"SUSPENDED"}] /\ UNCHANGED cpuVars
    BY <1>5 DEF RsmTsk
  <2>2. RunnableTasks' = RunnableTasks
    BY <1>2, <1>4, <2>1 DEF RunnableTasks, Runnable
  <2>3. tstat[t] \ {"SUSPENDED"} \in TSTAT
    BY <1>2, <1>5, TstatFacts DEF Waiting
  <2>4. ASSUME NEW u \in TASK
        PROVE  TcbOk(u)'
    <3>1. CASE u = t
      BY <1>1, <1>2, <1>5, <2>1, <3>1
         DEF IInv, TcbInv, TcbConsistent, TcbOk, Dormant, Waiting, Sleeping, Queued, Delayed
    <3>2. CASE u # t
      BY <1>1, <1>2, <2>1, <3>2
         DEF IInv, TcbInv, TcbConsistent, TcbOk, Dormant, Waiting, Sleeping, Queued, Delayed
    <3> QED
      BY <3>1, <3>2
  <2>5. TcbInv'
    BY <1>1, <2>1, <2>3, <2>4 DEF IInv, TcbInv, TcbConsistent
  <2> QED
    BY <1>1, <1>3, <2>1, <2>2, <2>5, NoRescheduleInv DEF IInv
<1>6. CASE ~Waiting(t)
  <2>1. tstat' = [tstat EXCEPT ![t] = {"RUNNABLE"}] /\ BecomeReady(t)
    BY <1>6 DEF RsmTsk
  <2>2. ASSUME NEW u \in TASK
        PROVE  TcbOk(u)'
    <3>1. CASE u = t
      BY <1>1, <1>2, <1>6, <2>1, <3>1
         DEF IInv, TcbInv, TcbConsistent, TcbOk, Dormant, Waiting, Sleeping, Queued, Delayed
    <3>2. CASE u # t
      BY <1>1, <1>2, <2>1, <3>2
         DEF IInv, TcbInv, TcbConsistent, TcbOk, Dormant, Waiting, Sleeping, Queued, Delayed
    <3> QED
      BY <3>1, <3>2
  <2>3. TcbInv'
    BY <1>1, <2>1, <2>2, TstatValues DEF IInv, TcbInv, TcbConsistent
  <2> QED
    BY <1>1, <1>3, <1>4, <2>1, <2>3, BecomeReadyInv DEF IInv
<1> QED
  BY <1>5, <1>6

-----------------------------------------------------------------------------
\* System state, interrupts and the idle loop

\* rot_rdq and irot_rdq keep the invariant.
LEMMA RotRdqInv ==
    ASSUME IInv, NEW p \in PRI, RotRdq(p)
    PROVE  IInv'
<1> DEFINE r == RotateReadyQueue(ready, p)
<1>1. UNCHANGED tcbVars /\ UNCHANGED modeVars /\ Reschedule(r, DispatchRequest(ready, r))
  BY DEF RotRdq
<1>2. TcbInv' /\ RunnableTasks' = RunnableTasks /\ priority' = priority
  BY <1>1, TcbUnchanged DEF IInv
<1>3. ModeInv' /\ dspflg' = dspflg
  BY <1>1, ModeUnchanged DEF IInv
<1>4. ReadyInv(r, RunnableTasks', priority')
  <2>1. RunnableTasks \in SUBSET TASK /\ priority \in [TASK -> PRI]
        /\ ReadyInv(ready, RunnableTasks, priority)
    BY DEF IInv, TcbInv, QueueInv, RunnableTasks
  <2> QED
    BY <1>2, <2>1, RotateReadyQueueInv
<1>5. runtsk # NoTask => runtsk \in RunnableTasks'
  BY <1>2 DEF IInv, CpuInv, RunningTaskIsRunnable, RunnableTasks
<1> HIDE DEF r
<1> QED
  BY <1>1, <1>2, <1>3, <1>4, <1>5, RescheduleInv DEF IInv, DispatchRequest

\* The calls that only change the mode, without dispatching.
LEMMA ModeOnlyInv ==
    ASSUME IInv, UNCHANGED tcbVars, UNCHANGED cpuVars, ModeInv',
           dspflg' = dspflg \/ (nest = 0 /\ dspflg' = FALSE)
    PROVE  IInv'
<1>1. TcbInv' /\ RunnableTasks' = RunnableTasks /\ priority' = priority
  BY TcbUnchanged DEF IInv
<1> QED
  BY <1>1, NoRescheduleInv DEF IInv

\* Enabling dispatching switches to p_schedtsk at once.
LEMMA EnableDispatchInv ==
    ASSUME IInv, UNCHANGED tcbVars, nest = 0, EnableDispatch, ModeInv'
    PROVE  IInv'
<1>1. TcbInv' /\ RunnableTasks' = RunnableTasks /\ priority' = priority
  BY TcbUnchanged DEF IInv
<1>2. ready' = ready /\ Dispatcher(ready') /\ dspflg' = TRUE /\ reqflg' = FALSE
  BY TaskContext DEF EnableDispatch
<1>3. QueueInv'
  BY <1>1, <1>2, QueueUnchanged DEF IInv
<1> QED
  BY <1>1, <1>2, <1>3, DispatcherInv DEF IInv

\* The calls that lock the CPU or disable dispatching keep the invariant.
LEMMA ModeCallInv ==
    ASSUME IInv, LocCpu \/ UnlCpu \/ DisDsp \/ EnaDsp \/ \E b \in BOOLEAN : ChgIpm(b)
    PROVE  IInv'
<1>1. CASE LocCpu \/ UnlCpu
  <2>1. UNCHANGED tcbVars /\ UNCHANGED cpuVars
    BY <1>1 DEF LocCpu, UnlCpu
  <2>2. ipmflg' = ipmflg /\ disdsp' = disdsp /\ dspflg' = dspflg /\ locked' \in BOOLEAN
    BY <1>1 DEF LocCpu, UnlCpu
  <2>3. ModeInv'
    BY <2>2 DEF IInv, ModeInv, DspflgIsCache
  <2> QED
    BY <2>1, <2>2, <2>3, ModeOnlyInv
<1>2. CASE DisDsp
  BY <1>2, ModeOnlyInv DEF DisDsp, TskCtxUnl, IInv, ModeInv, DspflgIsCache
<1>3. CASE EnaDsp
  <2>1. UNCHANGED tcbVars /\ nest = 0
    BY <1>3 DEF EnaDsp, TskCtxUnl
  <2>2. CASE ipmflg
    BY <1>3, <2>1, <2>2, EnableDispatchInv DEF EnaDsp, EnableDispatch, IInv, ModeInv, DspflgIsCache
  <2>3. CASE ~ipmflg
    BY <1>3, <2>1, <2>3, ModeOnlyInv DEF EnaDsp, IInv, ModeInv, DspflgIsCache
  <2> QED
    BY <2>2, <2>3
<1>4. ASSUME NEW b \in BOOLEAN, ChgIpm(b)
      PROVE  IInv'
  <2>1. UNCHANGED tcbVars /\ nest = 0
    BY <1>4 DEF ChgIpm, TskCtxUnl
  <2>2. CASE b /\ ~disdsp
    BY <1>4, <2>1, <2>2, EnableDispatchInv DEF ChgIpm, EnableDispatch, IInv, ModeInv, DspflgIsCache
  <2>3. CASE b /\ disdsp
    BY <1>4, <2>1, <2>3, ModeOnlyInv DEF ChgIpm, IInv, ModeInv, DspflgIsCache
  <2>4. CASE ~b
    BY <1>4, <2>1, <2>4, ModeOnlyInv DEF ChgIpm, IInv, ModeInv, DspflgIsCache
  <2> QED
    BY <2>2, <2>3, <2>4
<1> QED
  BY <1>1, <1>2, <1>3, <1>4

\* Interrupt entry and the exit to an outer handler keep the invariant.
LEMMA IntEnterInv ==
    ASSUME IInv, IntEnter \/ IntExitNested
    PROVE  IInv'
<1>1. /\ UNCHANGED tcbVars /\ ready' = ready /\ runtsk' = runtsk /\ reqflg' = reqflg
      /\ dspflg' = dspflg /\ ModeInv'
  <2>1. UNCHANGED tcbVars /\ ready' = ready /\ runtsk' = runtsk /\ reqflg' = reqflg
    BY DEF IntEnter, IntExitNested
  <2>2. /\ ipmflg' = ipmflg /\ disdsp' = disdsp /\ dspflg' = dspflg
        /\ locked' = locked \/ locked' = FALSE
    BY DEF IntEnter, IntExitNested, modeVars
  <2> QED
    BY <2>1, <2>2 DEF IInv, ModeInv, DspflgIsCache
<1>2. TcbInv' /\ RunnableTasks' = RunnableTasks /\ priority' = priority
  BY <1>1, TcbUnchanged DEF IInv
<1>3. QueueInv'
  BY <1>1, <1>2, QueueUnchanged DEF IInv
<1>4. nest' \in 1 .. MaxNest
  BY MaxNestAssumption DEF IntEnter, IntExitNested, IInv, CpuInv
<1>5. DispatchIsPrompt'
  BY <1>1, <1>4 DEF IInv, CpuInv, DispatchIsPrompt
<1>6. RunningTaskIsRunnable'
  BY <1>1, <1>2, <1>4 DEF IInv, CpuInv, RunningTaskIsRunnable, RunnableTasks
<1> QED
  BY <1>1, <1>2, <1>3, <1>4, <1>5, <1>6, MaxNestAssumption DEF IInv, CpuInv

\* The exit to a task and the idle loop serve what reqflg has recorded.
LEMMA IntExitInv ==
    ASSUME IInv, IntExit \/ IdleExit
    PROVE  IInv'
<1>1. /\ UNCHANGED tcbVars /\ ready' = ready /\ reqflg' = FALSE /\ nest = 1
      /\ dspflg' = dspflg /\ ModeInv'
  <2>1. UNCHANGED tcbVars /\ ready' = ready /\ reqflg' = FALSE /\ nest = 1
    BY DEF IntExit, IdleExit
  <2>2. /\ ipmflg' = ipmflg /\ disdsp' = disdsp /\ dspflg' = dspflg
        /\ locked' = locked \/ locked' = FALSE
    BY DEF IntExit, IdleExit, modeVars
  <2> QED
    BY <2>1, <2>2 DEF IInv, ModeInv, DspflgIsCache
<1>2. TcbInv' /\ RunnableTasks' = RunnableTasks /\ priority' = priority
  BY <1>1, TcbUnchanged DEF IInv
<1>3. QueueInv'
  BY <1>1, <1>2, QueueUnchanged DEF IInv
<1>4. CASE Dispatcher(ready) /\ dspflg
  BY <1>1, <1>2, <1>3, <1>4, DispatcherInv DEF IInv, ModeInv
<1>5. CASE ~(Dispatcher(ready) /\ dspflg)
  <2>1. /\ runtsk # NoTask /\ runtsk' = runtsk /\ nest' = 0
        /\ ~(reqflg /\ dspflg /\ runtsk # ready.schedtsk)
    BY <1>5 DEF IntExit, IdleExit, IInv, CpuInv, RunningTaskIsRunnable
  <2>2. DispatchIsPrompt'
    BY <1>1, <2>1 DEF IInv, CpuInv, DispatchIsPrompt
  <2>3. RunningTaskIsRunnable'
    BY <1>2, <2>1 DEF IInv, CpuInv, RunningTaskIsRunnable, RunnableTasks
  <2>4. runtsk' \in TASK \cup {NoTask} /\ reqflg' \in BOOLEAN /\ nest' \in 0 .. MaxNest
    BY <1>1, <2>1, SmallNest DEF IInv, CpuInv
  <2> QED
    BY <1>1, <1>2, <1>3, <2>2, <2>3, <2>4 DEF IInv, CpuInv
<1> QED
  BY <1>4, <1>5

-----------------------------------------------------------------------------
\* The theorems

\* The state that initialize_task and the start of the dispatcher set up.
LEMMA InitInv == Init => IInv
<1> SUFFICES ASSUME Init
             PROVE  IInv
  OBVIOUS
<1>1. PICK first \in (TASK \ DynTask) \cup {NoTask} :
        /\ tstat = [t \in TASK |-> IF t = first THEN {"RUNNABLE"} ELSE {}]
        /\ ready = IF first = NoTask THEN EmptyReady
                   ELSE MakeRunnable(EmptyReady, first, IniPriority)
        /\ runtsk = first
        /\ nest = IF first = NoTask THEN 1 ELSE 0
  BY DEF Init
<1>2. /\ exist = TASK \ DynTask /\ tmevt = {}
      /\ ipriority = IniPriority /\ bpriority = IniPriority /\ priority = IniPriority
      /\ actque = [t \in TASK |-> FALSE] /\ wupque = [t \in TASK |-> FALSE]
      /\ waifbd = [t \in TASK |-> FALSE]
      /\ reqflg = FALSE /\ ipmflg = TRUE /\ disdsp = FALSE /\ dspflg = TRUE /\ locked = FALSE
  BY DEF Init
<1>3. ASSUME NEW t \in TASK
      PROVE  TcbOk(t)
  BY <1>1, <1>2, NoTaskAssumption DEF TcbOk, Dormant, Waiting, Sleeping, Queued, Delayed
<1>4. TcbInv
  BY <1>1, <1>2, <1>3, PriorityAssumption, TstatValues DEF TcbInv, TcbConsistent
<1>5. ModeInv
  BY <1>2 DEF ModeInv, DspflgIsCache
<1>6. RunnableTasks = IF first = NoTask THEN {} ELSE {first}
  BY <1>1, NoTaskAssumption DEF RunnableTasks, Runnable
<1>7. ReadyInv(EmptyReady, {}, IniPriority)
  <2>1. EmptyReady \in ReadyType
    BY DEF EmptyReady, ReadyType
  <2>2. ASSUME NEW p \in PRI
        PROVE  /\ Enumerates(EmptyReady.queue[p], At({}, IniPriority, p))
               /\ p \in EmptyReady.primap <=> EmptyReady.queue[p] # <<>>
    BY DEF EmptyReady, Enumerates, At
  <2>3. EmptyReady.primap = {} /\ EmptyReady.schedtsk = NoTask
    BY DEF EmptyReady
  <2> QED
    BY <2>1, <2>2, <2>3, PriorityAssumption, ReadyInvIntro
<1>8. QueueInv
  <2>1. CASE first = NoTask
    BY <2>1, <1>1, <1>2, <1>6, <1>7 DEF QueueInv
  <2>2. CASE first # NoTask
    <3>1. ReadyInv(MakeRunnable(EmptyReady, first, IniPriority), {} \cup {first}, IniPriority)
      BY <2>2, <1>7, PriorityAssumption, MakeRunnableInv
    <3>2. {} \cup {first} = {first}
      OBVIOUS
    <3> QED
      BY <2>2, <3>1, <3>2, <1>1, <1>2, <1>6 DEF QueueInv
  <2> QED
    BY <2>1, <2>2
<1>9. ready.schedtsk = runtsk
  BY <1>1 DEF EmptyReady, MakeRunnable, Preempts
<1>10. CpuInv
  <2>1. runtsk \in TASK \cup {NoTask} /\ reqflg \in BOOLEAN /\ nest \in 0 .. MaxNest
    <3>1. runtsk \in TASK \cup {NoTask}
      BY <1>1
    <3>2. nest \in {0, 1}
      BY <1>1
    <3> QED
      BY <3>1, <3>2, <1>2, SmallNest
  <2>2. DispatchIsPrompt
    BY <1>2, <1>9 DEF DispatchIsPrompt
  <2>3. RunningTaskIsRunnable
    BY <1>1, <1>2 DEF RunningTaskIsRunnable, Runnable
  <2> QED
    BY <2>1, <2>2, <2>3 DEF CpuInv
<1> QED
  BY <1>4, <1>5, <1>8, <1>10 DEF IInv

\* Every service call on a task keeps the invariant.
LEMMA TaskServiceInv ==
    ASSUME IInv, NEW t \in TASK, TaskService(t)
    PROVE  IInv'
<1>1. CASE ActTsk(t) \/ IactTsk(t)
  BY <1>1, ActivateInv DEF ActTsk, IactTsk
<1>2. CASE CanAct(t)
  BY <1>2, CanActInv
<1>3. CASE TerTsk(t)
  BY <1>3, TerTskInv
<1>4. ASSUME NEW p \in PRI, ChgPri(t, p) \/ AcreTsk(t, p)
      PROVE  IInv'
  BY <1>4, ChgPriInv, AcreTskInv
<1>5. CASE WupTsk(t) \/ IwupTsk(t)
  BY <1>5, WakeUpInv DEF WupTsk, IwupTsk
<1>6. CASE RelWai(t) \/ IrelWai(t) \/ WaitTmout(t)
  BY <1>6, ReleaseWaitInv DEF RelWai, IrelWai
<1>7. CASE SusTsk(t)
  BY <1>7, SusTskInv
<1>8. CASE RsmTsk(t)
  BY <1>8, RsmTskInv
<1>9. CASE DelTsk(t) \/ CanWup(t) \/ SetWaifbd(t)
  BY <1>9, FieldInv
<1> QED
  BY <1>1, <1>2, <1>3, <1>4, <1>5, <1>6, <1>7, <1>8, <1>9 DEF TaskService

\* A stuttering step keeps the invariant.
LEMMA StutterInv ==
    ASSUME IInv, UNCHANGED vars
    PROVE  IInv'
<1>1. UNCHANGED tcbVars /\ UNCHANGED modeVars /\ UNCHANGED cpuVars
  BY DEF vars
<1>2. ModeInv' /\ dspflg' = dspflg
  BY <1>1, ModeUnchanged DEF IInv
<1> QED
  BY <1>1, <1>2, ModeOnlyInv

\* Every step keeps the invariant.
LEMMA NextInv ==
    ASSUME IInv, [Next]_vars
    PROVE  IInv'
<1>1. ASSUME NEW t \in TASK, TaskService(t)
      PROVE  IInv'
  BY <1>1, TaskServiceInv
<1>2. CASE ExtTsk \/ DlyTsk
  BY <1>2, ExtTskInv, DlyTskInv
<1>3. ASSUME NEW b \in BOOLEAN, SlpTsk(b)
      PROVE  IInv'
  BY <1>3, SlpTskInv
<1>4. ASSUME NEW p \in PRI, RotRdq(p)
      PROVE  IInv'
  BY <1>4, RotRdqInv
<1>5. CASE LocCpu \/ UnlCpu \/ DisDsp \/ EnaDsp \/ \E b \in BOOLEAN : ChgIpm(b)
  BY <1>5, ModeCallInv
<1>6. CASE IntEnter \/ IntExitNested
  BY <1>6, IntEnterInv
<1>7. CASE IntExit \/ IdleExit
  BY <1>7, IntExitInv
<1>8. CASE UNCHANGED vars
  BY <1>8, StutterInv
<1> QED
  BY <1>1, <1>2, <1>3, <1>4, <1>5, <1>6, <1>7, <1>8 DEF Next

\* IInv holds in every state: it holds at the start and every service call,
\* handler entry and exit keeps it.
THEOREM Invariance == Spec => []IInv
<1>1. IInv /\ [Next]_vars => IInv'
  BY NextInv
<1> QED
  BY InitInv, <1>1, PTL DEF Spec

\* Every variable keeps a value its C declaration allows.
THEOREM TypeCorrect == Spec => []TypeOK
<1>1. IInv => TypeOK
  BY DEF IInv, TcbInv, ModeInv, CpuInv, QueueInv, ReadyInv, TypeOK
<1> QED
  BY Invariance, <1>1, PTL

\* After any sequence of service calls the queues hold the runnable tasks, each
\* once and at its priority, and the bitmap and p_schedtsk agree with them.
THEOREM ReadyQueueCorrect == Spec => []ReadyQueueConsistent
<1>1. IInv => ReadyQueueConsistent
  BY DEF IInv, QueueInv, ReadyInv, ReadyQueueConsistent
<1> QED
  BY Invariance, <1>1, PTL

\* The running task is the one of highest precedence, or a switch to that one
\* is recorded in reqflg, or dispatching is disabled.
THEOREM DispatchCorrect == Spec => []DispatchIsPrompt
<1>1. IInv => DispatchIsPrompt
  BY DEF IInv, CpuInv
<1> QED
  BY Invariance, <1>1, PTL

\* The CPU is never left with a task that waits, is suspended or is dormant.
THEOREM RunningCorrect == Spec => []RunningTaskIsRunnable
<1>1. IInv => RunningTaskIsRunnable
  BY DEF IInv, CpuInv
<1> QED
  BY Invariance, <1>1, PTL

\* The cached flag is right whatever order chg_ipm, dis_dsp, ena_dsp and ext_tsk
\* come in.
THEOREM DspflgCorrect == Spec => []DspflgIsCache
<1>1. IInv => DspflgIsCache
  BY DEF IInv, ModeInv
<1> QED
  BY Invariance, <1>1, PTL

\* The TCB fields agree with the state of the task, as bit_task requires.
THEOREM TcbCorrect == Spec => []TcbConsistent
<1>1. IInv => TcbConsistent
  BY DEF IInv, TcbInv
<1> QED
  BY Invariance, <1>1, PTL

\* While dispatching is disabled no operation takes the CPU from the running
\* task.
THEOREM NoSwitchCorrect == Spec => NoSwitchWhileDisabled
<1> DEFINE Keeps == ~dspflg /\ ~dspflg' => runtsk' = runtsk
<1>1. ASSUME IInv, [Next]_vars
      PROVE  [Keeps]_vars
  <2> SUFFICES ASSUME Next, ~dspflg, ~dspflg'
               PROVE  runtsk' = runtsk
    BY <1>1
  <2>1. ASSUME NEW t \in TASK, TaskService(t)
        PROVE  runtsk' = runtsk
    BY <2>1 DEF TaskService, ActTsk, IactTsk, Activate, CanAct, TerTsk, DelTsk, ChgPri,
                AcreTsk, WupTsk, IwupTsk, WakeUp, CanWup, RelWai, IrelWai, ReleaseWait,
                WaitTmout, MakeNonWait, SusTsk, RsmTsk, SetWaifbd, BecomeReady,
                BecomeNonReady, Reschedule, cpuVars
  <2>2. CASE ExtTsk \/ DlyTsk \/ \E b \in BOOLEAN : SlpTsk(b)
    BY <2>2 DEF ExtTsk, DlyTsk, SlpTsk, DispatchState
  <2>3. ASSUME NEW p \in PRI, RotRdq(p)
        PROVE  runtsk' = runtsk
    BY <2>3 DEF RotRdq, Reschedule
  <2>4. CASE LocCpu \/ UnlCpu \/ DisDsp \/ EnaDsp \/ \E b \in BOOLEAN : ChgIpm(b)
    BY <2>4 DEF LocCpu, UnlCpu, DisDsp, EnaDsp, ChgIpm, EnableDispatch, cpuVars
  <2>5. CASE IntEnter \/ IntExitNested \/ IntExit
    BY <2>5 DEF IntEnter, IntExitNested, IntExit
  <2>6. CASE IdleExit
    BY <2>6, <1>1 DEF IdleExit, IInv, CpuInv, RunningTaskIsRunnable
  <2> QED
    BY <2>1, <2>2, <2>3, <2>4, <2>5, <2>6 DEF Next
<1> QED
  BY Invariance, <1>1, PTL DEF Spec, NoSwitchWhileDisabled

-----------------------------------------------------------------------------
\* The order within a priority

\* What FifoWithinPriority says of one queue
InTurn(old, new) ==
    \A t \in Range(old) \cap Range(new), u \in Range(new) :
        Before(new, u, t) /\ ~Before(old, u, t) => u \in Range(old) /\ t = Last(new)

\* All tasks of the new queue but its last are those of the old one in their
\* order, at most one of which, the k-th, has gone.
KeepsOrder(old, new) ==
    \E k \in Nat : \A i \in 1 .. Len(new) - 1 :
        LET j == IF i < k THEN i ELSE i + 1
        IN  j \in 1 .. Len(old) /\ new[i] = old[j]

\* Where the others keep their order, only the task that is last can have been
\* overtaken.
LEMMA OrderGivesTurn ==
    ASSUME NEW old \in Seq(TASK), NEW new \in Seq(TASK), KeepsOrder(old, new)
    PROVE  InTurn(old, new)
<1>1. PICK k \in Nat : \A i \in 1 .. Len(new) - 1 :
          LET j == IF i < k THEN i ELSE i + 1
          IN  j \in 1 .. Len(old) /\ new[i] = old[j]
  BY DEF KeepsOrder
<1> DEFINE at(i) == IF i < k THEN i ELSE i + 1
<1>2. \A i \in 1 .. Len(new) - 1 : at(i) \in 1 .. Len(old) /\ new[i] = old[at(i)]
  BY <1>1
<1>3. \A i, j \in 1 .. Len(new) - 1 : i < j => at(i) < at(j)
  OBVIOUS
<1> HIDE DEF at
<1> SUFFICES ASSUME NEW t, NEW u, Before(new, u, t), ~Before(old, u, t)
             PROVE  u \in Range(old) /\ t = Last(new)
  BY DEF InTurn
<1>4. Len(new) \in Nat /\ DOMAIN new = 1 .. Len(new) /\ DOMAIN old = 1 .. Len(old)
  OBVIOUS
<1>5. PICK i, j \in 1 .. Len(new) : i < j /\ new[i] = u /\ new[j] = t
  BY <1>4 DEF Before
<1>6. i \in 1 .. Len(new) - 1
  BY <1>4, <1>5
<1>7. u \in Range(old)
  BY <1>2, <1>4, <1>5, <1>6 DEF Range
<1>8. CASE j = Len(new)
  BY <1>5, <1>7, <1>8 DEF Last
<1>9. CASE j # Len(new)
  <2>1. j \in 1 .. Len(new) - 1
    BY <1>9
  <2>2. at(i) < at(j) /\ old[at(i)] = u /\ old[at(j)] = t
    BY <1>2, <1>3, <1>5, <1>6, <2>1
  <2> QED
    BY <1>2, <1>4, <1>6, <2>1, <2>2 DEF Before
<1> QED
  BY <1>8, <1>9

\* What the operations on the ready queue do to the queue q of one priority
LEMMA StaysInTurn ==
    ASSUME NEW q \in Seq(TASK)
    PROVE  InTurn(q, q)
<1>1. \A i \in 1 .. Len(q) - 1 :
          LET j == IF i < Len(q) THEN i ELSE i + 1
          IN  j \in 1 .. Len(q) /\ q[i] = q[j]
  OBVIOUS
<1>2. KeepsOrder(q, q)
  <2>1. Len(q) \in Nat
    OBVIOUS
  <2> QED
    BY <1>1, <2>1 DEF KeepsOrder
<1> QED
  BY <1>2, OrderGivesTurn

\* A task that joins at the tail overtakes nobody.
LEMMA AppendInTurn ==
    ASSUME NEW q \in Seq(TASK), NEW t \in TASK
    PROVE  InTurn(q, Append(q, t))
<1> DEFINE n == Append(q, t)
<1>1. n \in Seq(TASK) /\ Len(n) = Len(q) + 1 /\ \A i \in 1 .. Len(q) : n[i] = q[i]
  OBVIOUS
<1> HIDE DEF n
<1>2. \A i \in 1 .. Len(n) - 1 :
          LET j == IF i < Len(n) THEN i ELSE i + 1
          IN  j \in 1 .. Len(q) /\ n[i] = q[j]
  BY <1>1
<1>3. KeepsOrder(q, n)
  <2>1. Len(n) \in Nat
    BY <1>1
  <2> QED
    BY <1>2, <2>1 DEF KeepsOrder
<1>4. InTurn(q, n)
  BY <1>1, <1>3, OrderGivesTurn
<1> QED
  BY <1>4 DEF n

\* A task that leaves, and may come back to the tail, lets nobody pass another.
LEMMA DeleteInTurn ==
    ASSUME NEW q \in Seq(TASK), Distinct(q), NEW t \in TASK, NEW k \in 1 .. Len(q), q[k] = t
    PROVE  InTurn(q, Delete(q, t)) /\ InTurn(q, Append(Delete(q, t), t))
<1> DEFINE d == Delete(q, t)
           n == Append(d, t)
<1>1. /\ d \in Seq(TASK) /\ Len(d) = Len(q) - 1
      /\ \A i \in 1 .. Len(q) - 1 : d[i] = IF i < k THEN q[i] ELSE q[i + 1]
  BY DeleteProps
<1> HIDE DEF d
<1>2. /\ n \in Seq(TASK) /\ Len(n) = Len(q)
      /\ \A i \in 1 .. Len(q) - 1 : n[i] = IF i < k THEN q[i] ELSE q[i + 1]
  BY <1>1
<1> HIDE DEF n
<1>3. k \in Nat /\ Len(q) \in Nat
  OBVIOUS
<1>4. KeepsOrder(q, d)
  <2>1. \A i \in 1 .. Len(d) - 1 :
            LET j == IF i < k THEN i ELSE i + 1
            IN  j \in 1 .. Len(q) /\ d[i] = q[j]
    BY <1>1, <1>3
  <2> QED
    BY <1>3, <2>1 DEF KeepsOrder
<1>5. KeepsOrder(q, n)
  <2>1. \A i \in 1 .. Len(n) - 1 :
            LET j == IF i < k THEN i ELSE i + 1
            IN  j \in 1 .. Len(q) /\ n[i] = q[j]
    BY <1>2, <1>3
  <2> QED
    BY <1>3, <2>1 DEF KeepsOrder
<1>6. InTurn(q, d) /\ InTurn(q, n)
  BY <1>1, <1>2, <1>4, <1>5, OrderGivesTurn
<1> QED
  BY <1>6 DEF d, n

\* A rotation puts the first task last and moves no other.
LEMMA RotateInTurn ==
    ASSUME NEW q \in Seq(TASK), Len(q) >= 2
    PROVE  InTurn(q, Append(Tail(q), Head(q)))
<1> DEFINE n == Append(Tail(q), Head(q))
<1>1. /\ n \in Seq(TASK) /\ Len(n) = Len(q)
      /\ \A i \in 1 .. Len(q) - 1 : i + 1 \in 1 .. Len(q) /\ n[i] = q[i + 1]
  OBVIOUS
<1> HIDE DEF n
<1>2. KeepsOrder(q, n)
  <2>1. \A i \in 1 .. Len(n) - 1 :
            LET j == IF i < 0 THEN i ELSE i + 1
            IN  j \in 1 .. Len(q) /\ n[i] = q[j]
    BY <1>1
  <2> QED
    BY <2>1 DEF KeepsOrder
<1>3. InTurn(q, n)
  BY <1>1, <1>2, OrderGivesTurn
<1> QED
  BY <1>3 DEF n

\* What FifoWithinPriority says of the whole ready queue
AllInTurn(r, s) == \A p \in PRI : InTurn(r.queue[p], s.queue[p])

\* A task leaves the queue of priority a for the tail of that of priority b.
LEMMA MoveInTurn ==
    ASSUME NEW r, NEW runnable \in SUBSET TASK, NEW pri \in [TASK -> PRI],
           ReadyInv(r, runnable, pri), NEW t \in runnable,
           NEW a, a = pri[t], NEW b \in PRI, NEW p \in PRI,
           NEW left, left = [r.queue EXCEPT ![a] = Delete(@, t)]
    PROVE  /\ InTurn(r.queue[p], left[p])
           /\ InTurn(r.queue[p], [left EXCEPT ![b] = Append(@, t)][p])
<1>1. /\ r.queue \in [PRI -> Seq(TASK)] /\ r.queue[p] \in Seq(TASK)
      /\ \A x \in PRI : Enumerates(r.queue[x], At(runnable, pri, x))
      /\ t \in TASK /\ a \in PRI
  <2>1. QueueFacts(r, runnable, pri)
    BY ReadyFacts
  <2> QED
    BY <2>1 DEF QueueFacts
<1> DEFINE q == r.queue[p]
<1>2. p = a => InTurn(q, Delete(q, t)) /\ InTurn(q, Append(Delete(q, t), t))
  <2> SUFFICES ASSUME p = a PROVE InTurn(q, Delete(q, t)) /\ InTurn(q, Append(Delete(q, t), t))
    OBVIOUS
  <2>1. Enumerates(q, At(runnable, pri, p)) /\ t \in At(runnable, pri, p)
    BY <1>1 DEF At
  <2>2. Distinct(q) /\ \E k \in 1 .. Len(q) : q[k] = t
    BY <2>1 DEF Enumerates, Distinct
  <2> HIDE DEF q
  <2>3. q \in Seq(TASK)
    BY <1>1 DEF q
  <2> QED
    BY <1>1, <2>2, <2>3, DeleteInTurn
<1>3. InTurn(q, q) /\ InTurn(q, Append(q, t))
  BY <1>1, StaysInTurn, AppendInTurn
<1>4. left[p] = (IF p = a THEN Delete(q, t) ELSE q) /\ p \in DOMAIN left /\ b \in DOMAIN left
  BY <1>1
<1>5. [left EXCEPT ![b] = Append(@, t)][p] = IF p = b THEN Append(left[p], t) ELSE left[p]
  BY <1>4
<1> HIDE DEF q
<1> QED
  <2>1. InTurn(q, left[p]) /\ InTurn(q, [left EXCEPT ![b] = Append(@, t)][p])
    BY <1>2, <1>3, <1>4, <1>5
  <2> QED
    BY <2>1 DEF q

\* make_runnable
LEMMA MakeRunnableInTurn ==
    ASSUME NEW r, NEW runnable \in SUBSET TASK, NEW pri \in [TASK -> PRI],
           ReadyInv(r, runnable, pri), NEW t \in TASK, NEW new \in [TASK -> PRI]
    PROVE  AllInTurn(r, r) /\ AllInTurn(r, MakeRunnable(r, t, new))
<1>1. r.queue \in [PRI -> Seq(TASK)] /\ new[t] \in PRI
  BY DEF ReadyInv, ReadyType
<1>2. ASSUME NEW p \in PRI
      PROVE  InTurn(r.queue[p], r.queue[p]) /\ InTurn(r.queue[p], MakeRunnable(r, t, new).queue[p])
  <2>1. MakeRunnable(r, t, new).queue[p] = IF p = new[t] THEN Append(r.queue[p], t) ELSE r.queue[p]
    BY <1>1 DEF MakeRunnable
  <2>2. r.queue[p] \in Seq(TASK)
    BY <1>1
  <2> QED
    BY <2>1, <2>2, StaysInTurn, AppendInTurn
<1> QED
  BY <1>2 DEF AllInTurn

\* make_non_runnable, and a task that is made runnable again by the same call
LEMMA MakeNonRunnableInTurn ==
    ASSUME NEW r, NEW runnable \in SUBSET TASK, NEW pri \in [TASK -> PRI],
           ReadyInv(r, runnable, pri), NEW t \in runnable, NEW new \in [TASK -> PRI]
    PROVE  /\ AllInTurn(r, MakeNonRunnable(r, t, pri))
           /\ AllInTurn(r, MakeRunnable(MakeNonRunnable(r, t, pri), t, new))
<1> DEFINE left == [r.queue EXCEPT ![pri[t]] = Delete(@, t)]
<1>1. /\ MakeNonRunnable(r, t, pri).queue = left
      /\ MakeRunnable(MakeNonRunnable(r, t, pri), t, new).queue
             = [left EXCEPT ![new[t]] = Append(@, t)]
  BY DEF MakeNonRunnable, MakeRunnable
<1>2. new[t] \in PRI
  OBVIOUS
<1> HIDE DEF left
<1>3. \A p \in PRI : InTurn(r.queue[p], left[p])
                     /\ InTurn(r.queue[p], [left EXCEPT ![new[t]] = Append(@, t)][p])
  BY <1>2, MoveInTurn DEF left
<1> QED
  BY <1>1, <1>3 DEF AllInTurn

\* change_priority, when the task goes to the tail
LEMMA ChangePriorityInTurn ==
    ASSUME NEW r, NEW runnable \in SUBSET TASK, NEW pri \in [TASK -> PRI],
           ReadyInv(r, runnable, pri), NEW t \in runnable, NEW newpri \in PRI
    PROVE  AllInTurn(r, ChangePriority(r, t, pri, newpri, FALSE))
<1> DEFINE new  == [pri EXCEPT ![t] = newpri]
           back == MakeRunnable(MakeNonRunnable(r, t, pri), t, new)
<1>1. new \in [TASK -> PRI] /\ new[t] = newpri
  OBVIOUS
<1>2. ChangePriority(r, t, pri, newpri, FALSE).queue = back.queue
  BY <1>1 DEF ChangePriority, MakeRunnable, MakeNonRunnable
<1> HIDE DEF new
<1>3. AllInTurn(r, back)
  BY <1>1, MakeNonRunnableInTurn
<1> QED
  BY <1>2, <1>3 DEF AllInTurn

\* rot_rdq
LEMMA RotateReadyQueueInTurn ==
    ASSUME NEW r, NEW runnable \in SUBSET TASK, NEW pri \in [TASK -> PRI],
           ReadyInv(r, runnable, pri), NEW p \in PRI
    PROVE  AllInTurn(r, RotateReadyQueue(r, p))
<1>1. r.queue \in [PRI -> Seq(TASK)]
  BY DEF ReadyInv, ReadyType
<1>2. ASSUME NEW x \in PRI
      PROVE  InTurn(r.queue[x], RotateReadyQueue(r, p).queue[x])
  <2> DEFINE q == r.queue[x]
  <2>1. q \in Seq(TASK)
    BY <1>1
  <2>2. \/ RotateReadyQueue(r, p).queue[x] = q
        \/ RotateReadyQueue(r, p).queue[x] = Append(Tail(q), Head(q)) /\ ~(Len(q) < 2)
    BY <1>1 DEF RotateReadyQueue
  <2> HIDE DEF q
  <2>3. InTurn(q, q) /\ (~(Len(q) < 2) => InTurn(q, Append(Tail(q), Head(q))))
    <3>1. ~(Len(q) < 2) => Len(q) >= 2
      BY <2>1
    <3> QED
      BY <2>1, <3>1, StaysInTurn, RotateInTurn
  <2>4. InTurn(q, RotateReadyQueue(r, p).queue[x])
    BY <2>2, <2>3
  <2> QED
    BY <2>4 DEF q
<1> QED
  BY <1>2 DEF AllInTurn

\* The ways in which one step of the kernel changes the ready queue
ReadyMove ==
    \/ ready' = ready
    \/ \E t \in TASK : \/ ready' = MakeRunnable(ready, t, priority)
                       \/ ready' = MakeRunnable(ready, t, priority')
    \/ \E t \in RunnableTasks :
           \/ ready' = MakeNonRunnable(ready, t, priority)
           \/ ready' = MakeRunnable(MakeNonRunnable(ready, t, priority), t, priority')
           \/ \E p \in PRI : ready' = ChangePriority(ready, t, priority, p, FALSE)
    \/ \E p \in PRI : ready' = RotateReadyQueue(ready, p)

\* Each of them lets every queue go on in turn.
LEMMA ReadyMoveInTurn ==
    ASSUME IInv, IInv', ReadyMove
    PROVE  AllInTurn(ready, ready')
<1>1. /\ RunnableTasks \in SUBSET TASK /\ priority \in [TASK -> PRI] /\ priority' \in [TASK -> PRI]
      /\ ReadyInv(ready, RunnableTasks, priority)
  BY DEF IInv, TcbInv, QueueInv, RunnableTasks
<1>2. CASE ready' = ready
  <2>1. AllInTurn(ready, ready)
    <3>1. ready.queue \in [PRI -> Seq(TASK)]
      BY <1>1 DEF ReadyInv, ReadyType
    <3> QED
      BY <3>1, StaysInTurn DEF AllInTurn
  <2> QED
    BY <1>2, <2>1
<1>3. ASSUME NEW t \in TASK, \/ ready' = MakeRunnable(ready, t, priority)
                             \/ ready' = MakeRunnable(ready, t, priority')
      PROVE  AllInTurn(ready, ready')
  BY <1>1, <1>3, MakeRunnableInTurn
<1>4. ASSUME NEW t \in RunnableTasks,
             \/ ready' = MakeNonRunnable(ready, t, priority)
             \/ ready' = MakeRunnable(MakeNonRunnable(ready, t, priority), t, priority')
      PROVE  AllInTurn(ready, ready')
  BY <1>1, <1>4, MakeNonRunnableInTurn
<1>5. ASSUME NEW t \in RunnableTasks, NEW p \in PRI,
             ready' = ChangePriority(ready, t, priority, p, FALSE)
      PROVE  AllInTurn(ready, ready')
  BY <1>1, <1>5, ChangePriorityInTurn
<1>6. ASSUME NEW p \in PRI, ready' = RotateReadyQueue(ready, p)
      PROVE  AllInTurn(ready, ready')
  BY <1>1, <1>6, RotateReadyQueueInTurn
<1> QED
  BY <1>2, <1>3, <1>4, <1>5, <1>6 DEF ReadyMove

\* Every step changes the ready queue in one of these ways, or not at all.
LEMMA NextMovesReady ==
    ASSUME IInv, Next
    PROVE  ReadyMove
<1>1. nest = 0 => runtsk \in RunnableTasks
  BY DEF IInv, CpuInv, RunningTaskIsRunnable, RunnableTasks
<1>2. ASSUME NEW t \in TASK, TaskService(t)
      PROVE  ReadyMove
  <2>1. CASE ActTsk(t) \/ IactTsk(t)
    BY <2>1 DEF ActTsk, IactTsk, Activate, BecomeReady, Reschedule, cpuVars, ReadyMove
  <2>2. CASE TerTsk(t)
    <3>1. CASE Runnable(t)
      <4>1. t \in RunnableTasks
        BY <3>1 DEF RunnableTasks
      <4>2. \/ ready' = MakeNonRunnable(ready, t, priority)
            \/ ready' = MakeRunnable(MakeNonRunnable(ready, t, priority), t, priority')
        BY <2>2, <3>1 DEF TerTsk, Reschedule
      <4> QED
        BY <4>1, <4>2 DEF ReadyMove
    <3>2. CASE ~Runnable(t)
      BY <2>2, <3>2 DEF TerTsk, Reschedule, ReadyMove
    <3> QED
      BY <3>1, <3>2
  <2>3. ASSUME NEW p \in PRI, ChgPri(t, p) \/ AcreTsk(t, p)
        PROVE  ReadyMove
    BY <2>3 DEF ChgPri, AcreTsk, Reschedule, cpuVars, ReadyMove, RunnableTasks
  <2>4. CASE WupTsk(t) \/ IwupTsk(t) \/ RelWai(t) \/ IrelWai(t) \/ WaitTmout(t)
    BY <2>4 DEF WupTsk, IwupTsk, WakeUp, RelWai, IrelWai, ReleaseWait, WaitTmout, MakeNonWait,
                BecomeReady, Reschedule, cpuVars, ReadyMove
  <2>5. CASE SusTsk(t)
    BY <2>5 DEF SusTsk, BecomeNonReady, Reschedule, cpuVars, ReadyMove, RunnableTasks
  <2>6. CASE RsmTsk(t)
    BY <2>6 DEF RsmTsk, BecomeReady, Reschedule, cpuVars, ReadyMove
  <2>7. CASE CanAct(t) \/ DelTsk(t) \/ CanWup(t) \/ SetWaifbd(t)
    BY <2>7 DEF CanAct, DelTsk, CanWup, SetWaifbd, cpuVars, ReadyMove
  <2> QED
    BY <1>2, <2>1, <2>2, <2>3, <2>4, <2>5, <2>6, <2>7 DEF TaskService
<1>3. CASE ExtTsk
  <2>1. runtsk \in RunnableTasks
    BY <1>1, <1>3 DEF ExtTsk
  <2>2. \/ ready' = MakeNonRunnable(ready, runtsk, priority)
        \/ ready' = MakeRunnable(MakeNonRunnable(ready, runtsk, priority), runtsk, priority')
    BY <1>3 DEF ExtTsk
  <2> QED
    BY <2>1, <2>2 DEF ReadyMove
<1>4. ASSUME NEW b \in BOOLEAN, DlyTsk \/ SlpTsk(b)
      PROVE  ReadyMove
  <2>1. runtsk \in RunnableTasks
    BY <1>1, <1>4 DEF DlyTsk, SlpTsk, DispatchState, TskCtxUnl
  <2>2. ready' = ready \/ ready' = MakeNonRunnable(ready, runtsk, priority)
    BY <1>4 DEF DlyTsk, SlpTsk, MakeWait, cpuVars
  <2> QED
    BY <2>1, <2>2 DEF ReadyMove
<1>5. ASSUME NEW p \in PRI, RotRdq(p)
      PROVE  ReadyMove
  BY <1>5 DEF RotRdq, Reschedule, ReadyMove
<1>6. CASE LocCpu \/ UnlCpu \/ DisDsp \/ EnaDsp \/ \E b \in BOOLEAN : ChgIpm(b)
  BY <1>6 DEF LocCpu, UnlCpu, DisDsp, EnaDsp, ChgIpm, EnableDispatch, cpuVars, ReadyMove
<1>7. CASE IntEnter \/ IntExitNested \/ IntExit \/ IdleExit
  BY <1>7 DEF IntEnter, IntExitNested, IntExit, IdleExit, ReadyMove
<1> QED
  BY <1>2, <1>3, <1>4, <1>5, <1>6, <1>7 DEF Next

\* Whatever the tasks and handlers call, tasks of one priority are served first come,
\* first served, but for the one task that the call puts last.
THEOREM FifoCorrect == Spec => FifoWithinPriority
<1> DEFINE Fifo == \A p \in PRI : InTurn(ready.queue[p], ready'.queue[p])
<1>1. ASSUME IInv, IInv', [Next]_vars
      PROVE  [Fifo]_vars
  BY <1>1, NextMovesReady, ReadyMoveInTurn DEF AllInTurn
<1>2. FifoWithinPriority <=> [][Fifo]_vars
  BY DEF FifoWithinPriority, InTurn
<1> HIDE DEF Fifo
<1> QED
  BY Invariance, <1>1, <1>2, PTL DEF Spec
=============================================================================
