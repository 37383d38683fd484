--------------------------- MODULE WaitObjectProofs ---------------------------
(***************************************************************************)
(* What the functions of kernel/wait.c keep true of the record k they work *)
(* on: the ready queue holds the runnable tasks and the wait queues the    *)
(* waiting ones, each at its place, after every step of a service call     *)
(* that moves several tasks before it dispatches.                          *)
(***************************************************************************)
EXTENDS WaitObject, SchedulerProofs, FiniteSetTheorems

-----------------------------------------------------------------------------
\* One wait queue

Sorted(q, pri) == \A i, j \in 1 .. Len(q) : i < j => pri[q[i]] <= pri[q[j]]

\* Two sequences after one another
LEMMA ConcatFacts ==
    ASSUME NEW A, NEW a \in Seq(A), NEW b \in Seq(A)
    PROVE  /\ a \o b \in Seq(A) /\ Len(a \o b) = Len(a) + Len(b)
           /\ \A i \in 1 .. Len(a) : (a \o b)[i] = a[i]
           /\ \A i \in 1 .. Len(b) : (a \o b)[i + Len(a)] = b[i]
<1>1. a \o b \in Seq(A) /\ Len(a \o b) = Len(a) + Len(b)
  OBVIOUS
<1>2. \A i \in 1 .. Len(a) : (a \o b)[i] = a[i]
  OBVIOUS
<1>3. \A i \in 1 .. Len(b) : (a \o b)[i + Len(a)] = b[i]
  OBVIOUS
<1> QED
  BY <1>1, <1>2, <1>3

\* queue_delete takes out one entry; the others stay, in their order.
LEMMA DeleteKeeps ==
    ASSUME NEW A, NEW q \in Seq(A), Distinct(q), NEW t, Contains(q, t)
    PROVE  LET n == Delete(q, t)
           IN  /\ n \in Seq(A) /\ Distinct(n)
               /\ \A u : Contains(n, u) <=> Contains(q, u) /\ u # t
               /\ \A pri : Sorted(q, pri) => Sorted(n, pri)
<1> DEFINE n == Delete(q, t)
<1>1. PICK k \in 1 .. Len(q) : q[k] = t
  BY DEF Contains
<1>2. /\ n \in Seq(A) /\ Len(n) = Len(q) - 1 /\ Len(q) \in Nat
      /\ \A i \in 1 .. Len(q) - 1 : n[i] = IF i < k THEN q[i] ELSE q[i + 1]
  BY <1>1, DeleteProps
<1> DEFINE at == [i \in 1 .. Len(q) - 1 |-> IF i < k THEN i ELSE i + 1]
<1>3. \A i \in 1 .. Len(n) : at[i] \in 1 .. Len(q) /\ at[i] # k /\ n[i] = q[at[i]]
  BY <1>2
<1>4. \A i, j \in 1 .. Len(n) : /\ at[i] = at[j] => i = j
                                /\ i < j => at[i] < at[j]
  BY <1>2
<1>5. ASSUME NEW j \in 1 .. Len(q), j # k
      PROVE  \E i \in 1 .. Len(n) : at[i] = j
  <2>1. CASE j < k
    <3>1. j \in 1 .. Len(n) /\ at[j] = j
      BY <2>1, <1>2
    <3> QED
      BY <3>1
  <2>2. CASE j > k
    <3>1. j - 1 \in 1 .. Len(n) /\ at[j - 1] = j
      BY <2>2, <1>2
    <3> QED
      BY <3>1
  <2>3. j < k \/ j > k
    BY <1>2, <1>5
  <2> QED
    BY <2>1, <2>2, <2>3
<1> HIDE DEF n, at
<1>6. Distinct(n)
  BY <1>3, <1>4 DEF Distinct
<1>7. ASSUME NEW u
      PROVE  Contains(n, u) <=> Contains(q, u) /\ u # t
  <2>1. ASSUME Contains(n, u)
        PROVE  Contains(q, u) /\ u # t
    BY <2>1, <1>1, <1>3 DEF Contains, Distinct
  <2>2. ASSUME Contains(q, u), u # t
        PROVE  Contains(n, u)
    <3>1. PICK j \in 1 .. Len(q) : q[j] = u
      BY <2>2 DEF Contains
    <3>2. PICK i \in 1 .. Len(n) : at[i] = j
      BY <3>1, <2>2, <1>1, <1>5
    <3> QED
      BY <3>1, <3>2, <1>3 DEF Contains
  <2> QED
    BY <2>1, <2>2
<1>8. ASSUME NEW pri, Sorted(q, pri)
      PROVE  Sorted(n, pri)
  BY <1>3, <1>4, <1>8 DEF Sorted
<1> QED
  BY <1>2, <1>6, <1>7, <1>8 DEF n

\* A task that leaves the queue it may be in leaves the others in their order.
LEMMA UnlinkedKeeps ==
    ASSUME NEW A, NEW q \in Seq(A), Distinct(q), NEW t
    PROVE  LET n == Unlinked(q, t)
           IN  /\ n \in Seq(A) /\ Distinct(n)
               /\ \A u : Contains(n, u) <=> Contains(q, u) /\ u # t
               /\ ~Contains(q, t) => n = q
               /\ \A pri : Sorted(q, pri) => Sorted(n, pri)
<1>1. CASE Contains(q, t)
  BY <1>1, DeleteKeeps DEF Unlinked
<1>2. CASE ~Contains(q, t)
  <2>1. Unlinked(q, t) = q
    BY <1>2 DEF Unlinked
  <2>2. \A u : Contains(q, u) <=> Contains(q, u) /\ u # t
    BY <1>2
  <2> QED
    BY <2>1, <2>2
<1> QED
  BY <1>1, <1>2

\* queue_insert_prev on the head of the queue: the task comes last.
LEMMA AppendKeeps ==
    ASSUME NEW A, NEW q \in Seq(A), Distinct(q), NEW t \in A, ~Contains(q, t)
    PROVE  LET n == Append(q, t)
           IN  /\ n \in Seq(A) /\ Distinct(n)
               /\ \A u : Contains(n, u) <=> Contains(q, u) \/ u = t
<1> DEFINE n == Append(q, t)
<1>1. /\ n \in Seq(A) /\ Len(n) = Len(q) + 1 /\ Len(q) \in Nat
      /\ \A i \in 1 .. Len(q) : n[i] = q[i] /\ i \in 1 .. Len(n)
      /\ n[Len(q) + 1] = t
  OBVIOUS
<1>2. \A i \in 1 .. Len(n) : i \in 1 .. Len(q) \/ i = Len(q) + 1
  BY <1>1
<1> HIDE DEF n
<1>3. Distinct(n)
  BY <1>1, <1>2 DEF Distinct, Contains
<1>4. ASSUME NEW u
      PROVE  Contains(n, u) <=> Contains(q, u) \/ u = t
  <2>1. Len(q) + 1 \in 1 .. Len(n)
    BY <1>1
  <2> QED
    BY <2>1, <1>1, <1>2 DEF Contains
<1> QED
  BY <1>1, <1>3, <1>4 DEF n

\* queue_insert_tpri puts a task behind those of its priority.
LEMMA QueueInsertTpriKeeps ==
    ASSUME NEW q \in Seq(TASK), Distinct(q), NEW pri \in [TASK -> PRI], Sorted(q, pri),
           NEW t \in TASK, ~Contains(q, t)
    PROVE  LET n == QueueInsertTpri(q, t, pri)
           IN  /\ n \in Seq(TASK) /\ Distinct(n)
               /\ \A u : Contains(n, u) <=> Contains(q, u) \/ u = t
               /\ Sorted(n, pri)
<1> DEFINE n == QueueInsertTpri(q, t, pri)
           I == {i \in 1 .. Len(q) : pri[t] < pri[q[i]]}
<1>p. \A u \in TASK : pri[u] \in Int
  BY DEF PRI
<1>q. \A i \in 1 .. Len(q) : q[i] \in TASK
  OBVIOUS
<1>1. CASE I = {}
  <2>1. n = Append(q, t)
    BY <1>1 DEF QueueInsertTpri, SelectInSeq
  <2>2. \A i \in 1 .. Len(q) : pri[q[i]] <= pri[t]
    BY <1>1, <1>p, <1>q
  <2> HIDE DEF n
  <2>3. Sorted(n, pri)
    <3>1. /\ Len(n) = Len(q) + 1 /\ Len(q) \in Nat /\ n[Len(q) + 1] = t
          /\ \A i \in 1 .. Len(q) : n[i] = q[i]
      BY <2>1
    <3> QED
      BY <3>1, <2>2 DEF Sorted
  <2> QED
    BY <2>1, <2>3, AppendKeeps DEF n
<1>2. CASE I # {}
  <2>0. I \in SUBSET Nat
    OBVIOUS
  <2>1. PICK k \in I : \A i \in I : k <= i
    BY <1>2, <2>0, LeastNumber
  <2>2. Min(I) = k
    <3>1. \A x \in I : (\A i \in I : x <= i) => x = k
      BY <2>1
    <3> QED
      BY <2>1, <3>1 DEF Min
  <2>3. k # 0 /\ k \in 1 .. Len(q) /\ k \in Nat
    BY <2>1
  <2> DEFINE l == SubSeq(q, 1, k - 1)
             h == SubSeq(q, k, Len(q))
  <2>4. n = l \o <<t>> \o h
    BY <1>2, <2>2, <2>3 DEF QueueInsertTpri, SelectInSeq, InsertAt
  <2>5. l \in Seq(TASK) /\ Len(l) = k - 1 /\ \A i \in 1 .. k - 1 : l[i] = q[i]
    BY <2>3
  <2>6. h \in Seq(TASK) /\ Len(h) = Len(q) - k + 1 /\ \A i \in 1 .. Len(q) - k + 1 : h[i] = q[i + k - 1]
    BY <2>3
  <2>7. \A i \in 1 .. k - 1 : pri[q[i]] <= pri[t]
    BY <2>1, <2>3, <1>p, <1>q
  <2>8. \A i \in k .. Len(q) : pri[t] <= pri[q[i]]
    <3>1. pri[t] < pri[q[k]]
      BY <2>1
    <3>2. \A i \in k .. Len(q) : pri[q[k]] <= pri[q[i]]
      BY <2>3, <1>p, <1>q DEF Sorted
    <3> QED
      BY <3>1, <3>2, <2>3, <1>p, <1>q
  <2> HIDE DEF n, l, h, I
  <2>9. /\ n \in Seq(TASK) /\ Len(n) = Len(q) + 1 /\ Len(q) \in Nat
        /\ n[k] = t
        /\ \A i \in 1 .. k - 1 : n[i] = q[i]
        /\ \A i \in k + 1 .. Len(q) + 1 : n[i] = q[i - 1]
    <3> DEFINE lt == l \o <<t>>
    <3>1. lt \in Seq(TASK) /\ Len(lt) = k /\ lt[k] = t /\ \A i \in 1 .. k - 1 : lt[i] = q[i]
      BY <2>3, <2>5
    <3>2. n = lt \o h
      BY <2>4
    <3> HIDE DEF lt
    <3>3. /\ n \in Seq(TASK) /\ Len(n) = Len(lt) + Len(h)
          /\ \A i \in 1 .. Len(lt) : n[i] = lt[i]
          /\ \A i \in 1 .. Len(h) : n[i + Len(lt)] = h[i]
      <4>1. lt \in Seq(TASK) /\ h \in Seq(TASK)
        BY <3>1, <2>6
      <4>2. /\ lt \o h \in Seq(TASK) /\ Len(lt \o h) = Len(lt) + Len(h)
            /\ \A i \in 1 .. Len(lt) : (lt \o h)[i] = lt[i]
            /\ \A i \in 1 .. Len(h) : (lt \o h)[i + Len(lt)] = h[i]
        BY ONLY <4>1, ConcatFacts
      <4> QED
        BY <3>2, <4>2
    <3>6. Len(q) \in Nat /\ Len(n) = Len(q) + 1 /\ k \in 1 .. Len(lt)
      BY <3>1, <3>3, <2>3, <2>6
    <3>7. ASSUME NEW i \in k + 1 .. Len(q) + 1
          PROVE  n[i] = q[i - 1]
      <4>1. i - k \in 1 .. Len(h) /\ (i - k) + Len(lt) = i /\ (i - k) + k - 1 = i - 1
        BY <3>1, <3>6, <2>3, <2>6
      <4>2. n[(i - k) + Len(lt)] = h[i - k]
        BY <4>1, <3>3
      <4>3. h[i - k] = q[(i - k) + k - 1]
        BY <4>1, <2>6
      <4> QED
        BY <4>1, <4>2, <4>3
    <3>8. n[k] = t
      BY <3>1, <3>3, <3>6
    <3>9. \A i \in 1 .. k - 1 : n[i] = q[i]
      BY <3>1, <3>3, <2>3
    <3> QED
      BY <3>3, <3>6, <3>7, <3>8, <3>9
  <2> DEFINE at == [i \in 1 .. Len(n) |-> IF i < k THEN i ELSE i - 1]
  <2>10. \A i \in 1 .. Len(n) : i # k => at[i] \in 1 .. Len(q) /\ n[i] = q[at[i]]
    BY <2>3, <2>9
  <2>11. \A i, j \in 1 .. Len(n) : i # k /\ j # k =>
            (at[i] = at[j] => i = j) /\ (i < j => at[i] < at[j])
    BY <2>3, <2>9
  <2>12. \A j \in 1 .. Len(q) : \E i \in 1 .. Len(n) : i # k /\ at[i] = j
    <3> TAKE j \in 1 .. Len(q)
    <3>1. CASE j < k
      <4>1. j \in 1 .. Len(n) /\ j # k /\ at[j] = j
        BY <3>1, <2>3, <2>9
      <4> QED
        BY <4>1
    <3>2. CASE j >= k
      <4>1. j + 1 \in 1 .. Len(n) /\ j + 1 # k /\ at[j + 1] = j
        BY <3>2, <2>3, <2>9
      <4> QED
        BY <4>1
    <3> QED
      BY <3>1, <3>2, <2>3
  <2>13. \A i \in 1 .. Len(n) : /\ i < k => at[i] \in 1 .. k - 1
                                /\ i > k => at[i] \in k .. Len(q)
    BY <2>3, <2>9
  <2> HIDE DEF at
  <2>14. Distinct(n)
    BY <2>9, <2>10, <2>11 DEF Distinct, Contains
  <2>15. ASSUME NEW u
         PROVE  Contains(n, u) <=> Contains(q, u) \/ u = t
    <3>1. k \in 1 .. Len(n)
      BY <2>3, <2>9
    <3>2. ASSUME Contains(q, u)
          PROVE  Contains(n, u)
      <4>1. PICK j \in 1 .. Len(q) : q[j] = u
        BY <3>2 DEF Contains
      <4>2. PICK i \in 1 .. Len(n) : i # k /\ at[i] = j
        BY <2>12
      <4> QED
        BY <4>1, <4>2, <2>10 DEF Contains
    <3>3. ASSUME Contains(n, u), u # t
          PROVE  Contains(q, u)
      BY <3>3, <2>9, <2>10 DEF Contains
    <3> QED
      BY <3>1, <3>2, <3>3, <2>9 DEF Contains
  <2>16. Sorted(n, pri)
    <3> SUFFICES ASSUME NEW i \in 1 .. Len(n), NEW j \in 1 .. Len(n), i < j
                 PROVE  pri[n[i]] <= pri[n[j]]
      BY DEF Sorted
    <3>1. CASE i # k /\ j # k
      BY <3>1, <2>10, <2>11 DEF Sorted
    <3>2. CASE i = k
      BY <3>2, <2>8, <2>9, <2>10, <2>13
    <3>3. CASE j = k
      BY <3>3, <2>7, <2>9, <2>10, <2>13
    <3> QED
      BY <3>1, <3>2, <3>3
  <2> QED
    BY <2>9, <2>14, <2>15, <2>16 DEF n
<1> QED
  BY <1>1, <1>2

-----------------------------------------------------------------------------
(***************************************************************************)
(* The record k of a service call in progress.  X is the task that is      *)
(* ending, if any: it is in no queue any more, while its tstat is still    *)
(* the old one.                                                            *)
(***************************************************************************)
KFields == {"ready", "tstat", "priority", "tmevt", "wait_queue", "dspreq"}

Run(ts) == {t \in TASK : "RUNNABLE" \in ts[t]}

\* The wait queues hold the tasks that wait for an object, each in one of them.
QueuesHold(wq, ts, X) ==
    /\ wq \in [WQUEUE -> Seq(TASK)]
    /\ \A w \in WQUEUE : Distinct(wq[w])
    /\ \A w \in WQUEUE, t \in TASK : Contains(wq[w], t) => t \notin X /\ "WOBJ" \in ts[t]
    /\ \A t \in TASK \ X : "WOBJ" \in ts[t] => \E w \in WQUEUE : Contains(wq[w], t)
    /\ \A v, w \in WQUEUE, t \in TASK : Contains(wq[v], t) /\ Contains(wq[w], t) => v = w

QueuesSorted(wq, pri) == \A w \in TaTpri : Sorted(wq[w], pri)

TcbOkK(k, t) ==
    /\ k.tstat[t] = {} => ~actque[t] /\ ~wupque[t] /\ ~waifbd[t] /\ k.priority[t] = ipriority[t]
    /\ "SLP" \in k.tstat[t] => ~wupque[t]
    /\ "WAITING" \in k.tstat[t] /\ "SLP" \notin k.tstat[t] /\ "WOBJ" \notin k.tstat[t] => t \in k.tmevt
    /\ t \in k.tmevt => "WAITING" \in k.tstat[t]
    /\ t \notin exist => k.tstat[t] = {}

KInv(k, X) ==
    /\ KFields \subseteq DOMAIN k
    /\ k.tstat \in [TASK -> TSTAT] /\ k.priority \in [TASK -> PRI] /\ k.tmevt \in SUBSET TASK
    /\ ReadyInv(k.ready, Run(k.tstat) \ X, k.priority)
    /\ QueuesHold(k.wait_queue, k.tstat, X)
    /\ QueuesSorted(k.wait_queue, k.priority)
    /\ \A t \in TASK \ X : TcbOkK(k, t)
    /\ \A t \in X : t \notin k.tmevt

\* What no function of a service call does: take a task out of the RUNNABLE
\* state, make it dormant or let it wait, put it in a wait queue, or forget that
\* a dispatch is needed.
Advances(k, n) ==
    /\ DOMAIN n = DOMAIN k
    /\ k.dspreq => n.dspreq
    /\ n.ready.schedtsk # k.ready.schedtsk => n.dspreq
    /\ \A t \in TASK : /\ "RUNNABLE" \in k.tstat[t] => "RUNNABLE" \in n.tstat[t]
                       /\ n.tstat[t] = {} <=> k.tstat[t] = {}
                       /\ "WOBJ" \in n.tstat[t] => "WOBJ" \in k.tstat[t]
    /\ \A w \in WQUEUE, t \in TASK : Contains(n.wait_queue[w], t) => Contains(k.wait_queue[w], t)

\* One function after another
LEMMA AdvancesTransitive ==
    ASSUME NEW a, NEW b, NEW c, Advances(a, b), Advances(b, c)
    PROVE  Advances(a, c)
  BY DEF Advances

\* A function that changes none of the fields
LEMMA AdvancesReflexive ==
    ASSUME NEW a
    PROVE  Advances(a, a)
  BY DEF Advances

-----------------------------------------------------------------------------
\* The fields each function writes

\* make_non_wait: a suspended task stays suspended, another becomes runnable.
LEMMA MakeNonWaitFields ==
    ASSUME NEW k, KFields \subseteq DOMAIN k, NEW t
    PROVE  LET n == MakeNonWaitK(k, t)
               r == MakeRunnable(k.ready, t, k.priority)
           IN  /\ DOMAIN n = DOMAIN k
               /\ \A f \in DOMAIN k \ KFields : n[f] = k[f]
               /\ n.priority = k.priority /\ n.tmevt = k.tmevt /\ n.wait_queue = k.wait_queue
               /\ "SUSPENDED" \in k.tstat[t] =>
                    /\ n.ready = k.ready /\ n.dspreq = k.dspreq
                    /\ n.tstat = [k.tstat EXCEPT ![t] = {"SUSPENDED"}]
               /\ "SUSPENDED" \notin k.tstat[t] =>
                    /\ n.ready = r /\ n.tstat = [k.tstat EXCEPT ![t] = {"RUNNABLE"}]
                    /\ n.dspreq = (k.dspreq \/ r.schedtsk # k.ready.schedtsk)
  BY Zenon DEF MakeNonWaitK, WithReady, KFields, DispatchRequest

\* wait_dequeue_wobj and wait_dequeue_tmevtb unlink the task and its time event.
LEMMA WaitDequeueFields ==
    ASSUME NEW k, KFields \subseteq DOMAIN k, NEW t
    PROVE  LET n == WaitDequeue(k, t)
           IN  /\ DOMAIN n = DOMAIN k
               /\ \A f \in DOMAIN k \ KFields : n[f] = k[f]
               /\ n.ready = k.ready /\ n.tstat = k.tstat /\ n.priority = k.priority
               /\ n.dspreq = k.dspreq
               /\ n.wait_queue = [w \in WQUEUE |-> Unlinked(k.wait_queue[w], t)]
               /\ n.tmevt = k.tmevt \ {t}
  BY Zenon DEF WaitDequeue, KFields

\* A task that ends leaves the ready queue, or its wait queue and time event.
LEMMA LeaveQueuesFields ==
    ASSUME NEW k, KFields \subseteq DOMAIN k, NEW t
    PROVE  LET n == LeaveQueues(k, t)
           IN  /\ DOMAIN n = DOMAIN k
               /\ \A f \in DOMAIN k \ KFields : n[f] = k[f]
               /\ n.tstat = k.tstat /\ n.priority = k.priority /\ n.dspreq = k.dspreq
               /\ "RUNNABLE" \in k.tstat[t] =>
                    /\ n.ready = MakeNonRunnable(k.ready, t, k.priority)
                    /\ n.tmevt = k.tmevt /\ n.wait_queue = k.wait_queue
               /\ "RUNNABLE" \notin k.tstat[t] => n.ready = k.ready
               /\ "RUNNABLE" \notin k.tstat[t] /\ "WAITING" \notin k.tstat[t] => n = k
               /\ "RUNNABLE" \notin k.tstat[t] /\ "WAITING" \in k.tstat[t] =>
                    /\ n.wait_queue = [w \in WQUEUE |-> Unlinked(k.wait_queue[w], t)]
                    /\ n.tmevt = k.tmevt \ {t}
  BY Zenon DEF LeaveQueues, WaitDequeue, KFields

-----------------------------------------------------------------------------
\* What the functions keep

\* A task that stops waiting leaves the queue it is in and becomes ready, or
\* stays suspended; the other tasks keep their places.
WaitReleased(k, n, X, t) ==
    /\ KInv(n, X) /\ Advances(k, n)
    /\ n.priority = k.priority
    /\ n.wait_queue = [w \in WQUEUE |-> Unlinked(k.wait_queue[w], t)]
    /\ "WOBJ" \notin n.tstat[t]
    /\ \A u \in TASK \ {t} : n.tstat[u] = k.tstat[u]
    /\ \A f \in DOMAIN k \ KFields : n[f] = k[f]

\* The wait of t ends, and KInv still holds.
LEMMA WaitReleaseKeeps ==
    ASSUME NEW k, NEW X, KInv(k, X), NEW t \in TASK \ X, "WAITING" \in k.tstat[t]
    PROVE  WaitReleased(k, WaitRelease(k, t), X, t)
<1> DEFINE d == WaitDequeue(k, t)
           n == WaitRelease(k, t)
           r == MakeRunnable(k.ready, t, k.priority)
<1>1. /\ KFields \subseteq DOMAIN k
      /\ k.tstat \in [TASK -> TSTAT] /\ k.priority \in [TASK -> PRI] /\ k.tmevt \in SUBSET TASK
      /\ ReadyInv(k.ready, Run(k.tstat) \ X, k.priority)
      /\ QueuesHold(k.wait_queue, k.tstat, X) /\ QueuesSorted(k.wait_queue, k.priority)
      /\ \A u \in TASK \ X : TcbOkK(k, u)
      /\ \A u \in X : u \notin k.tmevt
  BY DEF KInv
<1>2. /\ DOMAIN d = DOMAIN k /\ d.ready = k.ready /\ d.tstat = k.tstat
      /\ d.priority = k.priority /\ d.dspreq = k.dspreq /\ d.tmevt = k.tmevt \ {t}
      /\ d.wait_queue = [w \in WQUEUE |-> Unlinked(k.wait_queue[w], t)]
      /\ \A f \in DOMAIN k \ KFields : d[f] = k[f]
  BY <1>1, WaitDequeueFields
<1>3. /\ DOMAIN n = DOMAIN d
      /\ n.priority = d.priority /\ n.tmevt = d.tmevt /\ n.wait_queue = d.wait_queue
      /\ \A f \in DOMAIN d \ KFields : n[f] = d[f]
      /\ "SUSPENDED" \in d.tstat[t] =>
           /\ n.ready = d.ready /\ n.dspreq = d.dspreq
           /\ n.tstat = [d.tstat EXCEPT ![t] = {"SUSPENDED"}]
      /\ "SUSPENDED" \notin d.tstat[t] =>
           /\ n.ready = MakeRunnable(d.ready, t, d.priority)
           /\ n.tstat = [d.tstat EXCEPT ![t] = {"RUNNABLE"}]
           /\ n.dspreq = (d.dspreq \/ MakeRunnable(d.ready, t, d.priority).schedtsk # d.ready.schedtsk)
  <2>1. KFields \subseteq DOMAIN d
    BY <1>1, <1>2
  <2> HIDE DEF d
  <2>2. n = MakeNonWaitK(d, t)
    BY DEF WaitRelease, d
  <2> QED
    BY <2>1, <2>2, MakeNonWaitFields
<1> HIDE DEF d, n
<1>4. /\ n.priority = k.priority /\ n.tmevt = k.tmevt \ {t} /\ DOMAIN n = DOMAIN k
      /\ n.wait_queue = [w \in WQUEUE |-> Unlinked(k.wait_queue[w], t)]
      /\ \A f \in DOMAIN k \ KFields : n[f] = k[f]
      /\ "SUSPENDED" \in k.tstat[t] =>
           /\ n.ready = k.ready /\ n.dspreq = k.dspreq
           /\ n.tstat = [k.tstat EXCEPT ![t] = {"SUSPENDED"}]
      /\ "SUSPENDED" \notin k.tstat[t] =>
           /\ n.ready = r /\ n.tstat = [k.tstat EXCEPT ![t] = {"RUNNABLE"}]
           /\ n.dspreq = (k.dspreq \/ r.schedtsk # k.ready.schedtsk)
  BY <1>2, <1>3
<1>5. /\ k.tstat[t] \in TSTAT /\ "RUNNABLE" \notin k.tstat[t] /\ k.tstat[t] # {}
      /\ t \in TASK /\ t \notin X
  <2>1. k.tstat[t] \in TSTAT /\ t \in TASK /\ t \notin X
    BY <1>1
  <2> QED
    BY <2>1, TstatFacts
<1>6. /\ n.tstat \in [TASK -> TSTAT] /\ n.tstat[t] \in {{"SUSPENDED"}, {"RUNNABLE"}}
      /\ "WOBJ" \notin n.tstat[t] /\ n.tstat[t] # {}
      /\ \A u \in TASK \ {t} : n.tstat[u] = k.tstat[u]
  <2>1. PICK x \in {{"SUSPENDED"}, {"RUNNABLE"}} : n.tstat = [k.tstat EXCEPT ![t] = x]
    BY <1>4
  <2>2. x \in TSTAT /\ "WOBJ" \notin x /\ x # {}
    BY TstatValues
  <2> QED
    BY <2>1, <2>2, <1>1, <1>5
<1>7. ReadyInv(n.ready, Run(n.tstat) \ X, n.priority)
  <2>1. CASE "SUSPENDED" \in k.tstat[t]
    <3>1. Run(n.tstat) = Run(k.tstat)
      BY <2>1, <1>1, <1>4, <1>5 DEF Run
    <3> QED
      BY <2>1, <3>1, <1>1, <1>4
  <2>2. CASE "SUSPENDED" \notin k.tstat[t]
    <3>1. Run(n.tstat) \ X = (Run(k.tstat) \ X) \cup {t} /\ t \notin Run(k.tstat)
      BY <2>2, <1>1, <1>4, <1>5 DEF Run
    <3>2. Run(k.tstat) \ X \in SUBSET TASK
      BY DEF Run
    <3>3. ReadyInv(r, (Run(k.tstat) \ X) \cup {t}, k.priority)
      BY <1>1, <1>5, <3>1, <3>2, MakeRunnableInv
    <3> QED
      BY <2>2, <3>1, <3>3, <1>4
  <2> QED
    BY <2>1, <2>2
<1> HIDE DEF r
<1>8. ASSUME NEW w \in WQUEUE
      PROVE  /\ n.wait_queue[w] \in Seq(TASK) /\ Distinct(n.wait_queue[w])
             /\ \A u : Contains(n.wait_queue[w], u) <=> Contains(k.wait_queue[w], u) /\ u # t
             /\ \A pri : Sorted(k.wait_queue[w], pri) => Sorted(n.wait_queue[w], pri)
  <2>1. k.wait_queue[w] \in Seq(TASK) /\ Distinct(k.wait_queue[w])
    BY <1>1 DEF QueuesHold
  <2>2. n.wait_queue[w] = Unlinked(k.wait_queue[w], t)
    BY <1>4
  <2> QED
    BY <2>1, <2>2, UnlinkedKeeps
<1>9. QueuesHold(n.wait_queue, n.tstat, X)
  <2>1. n.wait_queue \in [WQUEUE -> Seq(TASK)]
    BY <1>4, <1>8
  <2>2. \A w \in WQUEUE, u \in TASK :
            Contains(n.wait_queue[w], u) => u \notin X /\ "WOBJ" \in n.tstat[u]
    BY <1>1, <1>6, <1>8 DEF QueuesHold
  <2>3. \A u \in TASK \ X : "WOBJ" \in n.tstat[u] => \E w \in WQUEUE : Contains(n.wait_queue[w], u)
    BY <1>1, <1>6, <1>8 DEF QueuesHold
  <2>4. \A v, w \in WQUEUE, u \in TASK :
            Contains(n.wait_queue[v], u) /\ Contains(n.wait_queue[w], u) => v = w
    BY <1>1, <1>8 DEF QueuesHold
  <2> QED
    BY <2>1, <2>2, <2>3, <2>4, <1>8 DEF QueuesHold
<1>10. QueuesSorted(n.wait_queue, n.priority)
  BY <1>1, <1>4, <1>8, TaTpriAssumption DEF QueuesSorted
<1>11. ASSUME NEW u \in TASK \ X
       PROVE  TcbOkK(n, u)
  <2>1. TcbOkK(k, u)
    BY <1>1
  <2>2. TcbOkK(k, t)
    BY <1>1
  <2>3. CASE u = t
    BY <2>2, <2>3, <1>4, <1>5, <1>6 DEF TcbOkK
  <2>4. CASE u # t
    BY <2>1, <2>4, <1>4, <1>6 DEF TcbOkK
  <2> QED
    BY <2>3, <2>4
<1>12. KInv(n, X)
  BY <1>1, <1>4, <1>6, <1>7, <1>9, <1>10, <1>11 DEF KInv
<1>13. Advances(k, n)
  <2>1. (k.dspreq => n.dspreq) /\ (n.ready.schedtsk # k.ready.schedtsk => n.dspreq)
    BY <1>4
  <2>2. \A u \in TASK : /\ "RUNNABLE" \in k.tstat[u] => "RUNNABLE" \in n.tstat[u]
                        /\ n.tstat[u] = {} <=> k.tstat[u] = {}
                        /\ "WOBJ" \in n.tstat[u] => "WOBJ" \in k.tstat[u]
    BY <1>5, <1>6
  <2> QED
    BY <2>1, <2>2, <1>4, <1>8 DEF Advances
<1> QED
  BY <1>4, <1>6, <1>12, <1>13 DEF WaitReleased, n

\* The order of a queue does not depend on the priority of a task elsewhere.
LEMMA SortedWithout ==
    ASSUME NEW q \in Seq(TASK), NEW pri \in [TASK -> PRI], Sorted(q, pri),
           NEW t, ~Contains(q, t), NEW p
    PROVE  Sorted(q, [pri EXCEPT ![t] = p])
<1>1. \A i \in 1 .. Len(q) : q[i] \in TASK /\ q[i] # t
  BY DEF Contains
<1>2. \A u \in TASK : u # t => [pri EXCEPT ![t] = p][u] = pri[u]
  OBVIOUS
<1> QED
  BY <1>1, <1>2 DEF Sorted

\* A task gets another priority: it moves to its place among the ready tasks, or
\* in the queue it waits in, and leaves no queue.
PriorityChanged(k, n, X, t, p) ==
    /\ KInv(n, X) /\ Advances(k, n)
    /\ n.priority = [k.priority EXCEPT ![t] = p]
    /\ n.tstat = k.tstat
    /\ "RUNNABLE" \in k.tstat[t] => n.wait_queue = k.wait_queue
    /\ \A w \in WQUEUE, u \in TASK : Contains(n.wait_queue[w], u) <=> Contains(k.wait_queue[w], u)
    /\ \A w \in WQUEUE : k.wait_queue[w] = <<>> => n.wait_queue[w] = <<>>
    /\ \A f \in DOMAIN k \ KFields : n[f] = k[f]

\* change_priority keeps every queue in its order, whichever queue the task is in.
LEMMA ChangePriorityKeeps ==
    ASSUME NEW k, NEW X, KInv(k, X), NEW t \in TASK \ X, k.tstat[t] # {},
           NEW p \in PRI, NEW mtxmode \in BOOLEAN
    PROVE  PriorityChanged(k, ChangePriorityK(k, t, p, mtxmode), X, t, p)
<1> DEFINE n == ChangePriorityK(k, t, p, mtxmode)
           r == ChangePriority(k.ready, t, k.priority, p, mtxmode)
           new == [k.priority EXCEPT ![t] = p]
           moved(w) == QueueInsertTpri(Delete(k.wait_queue[w], t), t, new)
<1>1. /\ KFields \subseteq DOMAIN k
      /\ k.tstat \in [TASK -> TSTAT] /\ k.priority \in [TASK -> PRI] /\ k.tmevt \in SUBSET TASK
      /\ ReadyInv(k.ready, Run(k.tstat) \ X, k.priority)
      /\ QueuesHold(k.wait_queue, k.tstat, X) /\ QueuesSorted(k.wait_queue, k.priority)
      /\ \A u \in TASK \ X : TcbOkK(k, u)
      /\ \A u \in X : u \notin k.tmevt
  BY DEF KInv
<1>2. /\ DOMAIN n = DOMAIN k
      /\ \A f \in DOMAIN k \ KFields : n[f] = k[f]
      /\ n.tstat = k.tstat /\ n.tmevt = k.tmevt /\ n.priority = new
      /\ "RUNNABLE" \in k.tstat[t] =>
           /\ n.ready = r /\ n.wait_queue = k.wait_queue
           /\ n.dspreq = (k.dspreq \/ r.schedtsk # k.ready.schedtsk)
      /\ "RUNNABLE" \notin k.tstat[t] =>
           /\ n.ready = k.ready /\ n.dspreq = k.dspreq
           /\ n.wait_queue = [w \in WQUEUE |->
                IF w \in TaTpri /\ Contains(k.wait_queue[w], t) THEN moved(w)
                ELSE k.wait_queue[w]]
  <2>1. KFields \subseteq DOMAIN k
    BY <1>1
  <2> QED
    BY ONLY <2>1, Zenon DEF ChangePriorityK, WithReady, KFields, DispatchRequest
<1>3. t \in TASK /\ t \notin X /\ k.tstat[t] \in TSTAT /\ new \in [TASK -> PRI]
  BY <1>1
<1>4. ReadyInv(n.ready, Run(n.tstat) \ X, n.priority)
  <2>1. Run(n.tstat) = Run(k.tstat) /\ Run(k.tstat) \ X \in SUBSET TASK
    BY <1>2 DEF Run
  <2>2. CASE "RUNNABLE" \in k.tstat[t]
    <3>1. t \in Run(k.tstat) \ X
      BY <2>2, <1>3 DEF Run
    <3>2. ReadyInv(r, Run(k.tstat) \ X, new)
      BY <3>1, <2>1, <1>1, ChangePriorityInv
    <3> QED
      BY <3>2, <2>1, <2>2, <1>2
  <2>3. CASE "RUNNABLE" \notin k.tstat[t]
    <3>1. \A u \in Run(k.tstat) \ X : new[u] = k.priority[u]
      BY <2>3, <1>1 DEF Run
    <3>2. ReadyInv(k.ready, Run(k.tstat) \ X, new)
      BY <3>1, <2>1, <1>1, <1>3, ReadyInvPriority
    <3> QED
      BY <3>2, <2>1, <2>3, <1>2
  <2> QED
    BY <2>2, <2>3
<1>5. ASSUME NEW w \in WQUEUE
      PROVE  /\ n.wait_queue[w] \in Seq(TASK) /\ Distinct(n.wait_queue[w])
             /\ \A u \in TASK : Contains(n.wait_queue[w], u) <=> Contains(k.wait_queue[w], u)
             /\ k.wait_queue[w] = <<>> => n.wait_queue[w] = <<>>
             /\ w \in TaTpri => Sorted(n.wait_queue[w], new)
  <2>1. /\ k.wait_queue[w] \in Seq(TASK) /\ Distinct(k.wait_queue[w])
        /\ w \in TaTpri => Sorted(k.wait_queue[w], k.priority)
    BY <1>1 DEF QueuesHold, QueuesSorted
  <2>2. CASE ~Contains(k.wait_queue[w], t)
    <3>1. n.wait_queue[w] = k.wait_queue[w]
      BY <2>2, <1>2
    <3>2. w \in TaTpri => Sorted(k.wait_queue[w], new)
      BY <2>1, <2>2, <1>1, SortedWithout
    <3> QED
      BY <2>1, <3>1, <3>2
  <2>3. CASE Contains(k.wait_queue[w], t) /\ w \notin TaTpri
    <3>1. n.wait_queue[w] = k.wait_queue[w]
      BY <2>3, <1>2
    <3> QED
      BY <2>1, <2>3, <3>1
  <2>4. CASE Contains(k.wait_queue[w], t) /\ w \in TaTpri
    <3> DEFINE d == Delete(k.wait_queue[w], t)
    <3>1. "RUNNABLE" \notin k.tstat[t]
      <4>1. "WOBJ" \in k.tstat[t]
        BY <2>4, <1>1, <1>3 DEF QueuesHold
      <4> QED
        BY <4>1, <1>3 DEF TSTAT
    <3>2. n.wait_queue[w] = QueueInsertTpri(d, t, new)
      BY <2>4, <3>1, <1>2
    <3>3. /\ d \in Seq(TASK) /\ Distinct(d)
          /\ \A u : Contains(d, u) <=> Contains(k.wait_queue[w], u) /\ u # t
          /\ Sorted(d, k.priority)
      BY <2>1, <2>4, DeleteKeeps
    <3> HIDE DEF d
    <3>4. Sorted(d, new)
      BY <3>3, <1>1, SortedWithout
    <3>5. ~Contains(d, t)
      BY <3>3
    <3> DEFINE i == QueueInsertTpri(d, t, new)
    <3>6. /\ i \in Seq(TASK) /\ Distinct(i) /\ Sorted(i, new)
          /\ \A u : Contains(i, u) <=> Contains(d, u) \/ u = t
      BY <3>3, <3>4, <3>5, <1>3, QueueInsertTpriKeeps
    <3> HIDE DEF i
    <3>7. \A u \in TASK : Contains(i, u) <=> Contains(k.wait_queue[w], u)
      BY <3>3, <3>6, <2>4
    <3>8. k.wait_queue[w] # <<>>
      BY <2>4 DEF Contains
    <3> QED
      BY <3>2, <3>6, <3>7, <3>8 DEF i
  <2> QED
    BY <2>2, <2>3, <2>4
<1> HIDE DEF n, r, moved
<1>6. QueuesHold(n.wait_queue, n.tstat, X)
  <2>1. n.wait_queue \in [WQUEUE -> Seq(TASK)]
    <3>1. CASE "RUNNABLE" \in k.tstat[t]
      BY <3>1, <1>1, <1>2 DEF QueuesHold
    <3>2. CASE "RUNNABLE" \notin k.tstat[t]
      <4>1. n.wait_queue = [w \in WQUEUE |-> n.wait_queue[w]]
        BY <3>2, <1>2
      <4> QED
        BY <4>1, <1>5
    <3> QED
      BY <3>1, <3>2
  <2> QED
    BY <2>1, <1>1, <1>2, <1>5 DEF QueuesHold
<1>7. QueuesSorted(n.wait_queue, n.priority)
  BY <1>2, <1>5, TaTpriAssumption DEF QueuesSorted
<1>8. ASSUME NEW u \in TASK \ X
      PROVE  TcbOkK(n, u)
  <2>1. TcbOkK(k, u)
    BY <1>1
  <2>2. u # t => n.priority[u] = k.priority[u]
    BY <1>1, <1>2
  <2> QED
    BY <2>1, <2>2, <1>2 DEF TcbOkK
<1>9. KInv(n, X)
  BY <1>1, <1>2, <1>3, <1>4, <1>6, <1>7, <1>8 DEF KInv
<1>10. Advances(k, n)
  BY <1>2, <1>5 DEF Advances
<1> QED
  BY <1>2, <1>5, <1>9, <1>10 DEF PriorityChanged, n

\* The ending task leaves the ready queue or the queue it waits in; all others
\* keep their places.
QueuesLeft(k, n, t) ==
    /\ KInv(n, {t}) /\ DOMAIN n = DOMAIN k
    /\ n.tstat = k.tstat /\ n.priority = k.priority /\ n.dspreq = k.dspreq
    /\ k.ready.schedtsk # t => n.ready.schedtsk = k.ready.schedtsk
    /\ \A w \in WQUEUE, u \in TASK :
            Contains(n.wait_queue[w], u) <=> Contains(k.wait_queue[w], u) /\ u # t
    /\ \A w \in WQUEUE : ~Contains(k.wait_queue[w], t) => n.wait_queue[w] = k.wait_queue[w]
    /\ \A f \in DOMAIN k \ KFields : n[f] = k[f]

\* The ending task is in no queue, and the queues are otherwise as they were.
LEMMA LeaveQueuesKeeps ==
    ASSUME NEW k, KInv(k, {}), NEW t \in TASK
    PROVE  QueuesLeft(k, LeaveQueues(k, t), t)
<1> DEFINE n == LeaveQueues(k, t)
<1>1. /\ KFields \subseteq DOMAIN k
      /\ k.tstat \in [TASK -> TSTAT] /\ k.priority \in [TASK -> PRI] /\ k.tmevt \in SUBSET TASK
      /\ ReadyInv(k.ready, Run(k.tstat), k.priority)
      /\ QueuesHold(k.wait_queue, k.tstat, {}) /\ QueuesSorted(k.wait_queue, k.priority)
      /\ \A u \in TASK : TcbOkK(k, u)
  <2>1. ReadyInv(k.ready, Run(k.tstat) \ {}, k.priority) /\ Run(k.tstat) \ {} = Run(k.tstat)
    BY DEF KInv
  <2> QED
    BY <2>1 DEF KInv
<1>2. /\ DOMAIN n = DOMAIN k
      /\ \A f \in DOMAIN k \ KFields : n[f] = k[f]
      /\ n.tstat = k.tstat /\ n.priority = k.priority /\ n.dspreq = k.dspreq
      /\ "RUNNABLE" \in k.tstat[t] =>
           /\ n.ready = MakeNonRunnable(k.ready, t, k.priority)
           /\ n.tmevt = k.tmevt /\ n.wait_queue = k.wait_queue
      /\ "RUNNABLE" \notin k.tstat[t] => n.ready = k.ready
      /\ "RUNNABLE" \notin k.tstat[t] /\ "WAITING" \notin k.tstat[t] => n = k
      /\ "RUNNABLE" \notin k.tstat[t] /\ "WAITING" \in k.tstat[t] =>
           /\ n.wait_queue = [w \in WQUEUE |-> Unlinked(k.wait_queue[w], t)]
           /\ n.tmevt = k.tmevt \ {t}
  BY <1>1, LeaveQueuesFields
<1>3. k.tstat[t] \in TSTAT
  BY <1>1
<1> HIDE DEF n
<1>4. ReadyInv(n.ready, Run(n.tstat) \ {t}, n.priority)
  <2>1. CASE "RUNNABLE" \in k.tstat[t]
    <3>1. t \in Run(k.tstat) /\ Run(k.tstat) \in SUBSET TASK
      BY <2>1 DEF Run
    <3>2. ReadyInv(MakeNonRunnable(k.ready, t, k.priority), Run(k.tstat) \ {t}, k.priority)
      BY <3>1, <1>1, MakeNonRunnableInv
    <3> QED
      BY <3>2, <2>1, <1>2
  <2>2. CASE "RUNNABLE" \notin k.tstat[t]
    <3>1. Run(k.tstat) \ {t} = Run(k.tstat)
      BY <2>2 DEF Run
    <3> QED
      BY <3>1, <2>2, <1>1, <1>2
  <2> QED
    BY <2>1, <2>2
<1>5. k.ready.schedtsk # t => n.ready.schedtsk = k.ready.schedtsk
  BY <1>2 DEF MakeNonRunnable
<1>6. ASSUME NEW w \in WQUEUE
      PROVE  /\ n.wait_queue[w] \in Seq(TASK) /\ Distinct(n.wait_queue[w])
             /\ \A u \in TASK : Contains(n.wait_queue[w], u) <=> Contains(k.wait_queue[w], u) /\ u # t
             /\ ~Contains(k.wait_queue[w], t) => n.wait_queue[w] = k.wait_queue[w]
             /\ \A pri : Sorted(k.wait_queue[w], pri) => Sorted(n.wait_queue[w], pri)
  <2>1. k.wait_queue[w] \in Seq(TASK) /\ Distinct(k.wait_queue[w])
    BY <1>1 DEF QueuesHold
  <2>2. CASE "RUNNABLE" \notin k.tstat[t] /\ "WAITING" \in k.tstat[t]
    <3>1. n.wait_queue[w] = Unlinked(k.wait_queue[w], t)
      BY <2>2, <1>2
    <3> QED
      BY <2>1, <3>1, UnlinkedKeeps
  <2>3. CASE ~("RUNNABLE" \notin k.tstat[t] /\ "WAITING" \in k.tstat[t])
    <3>1. n.wait_queue[w] = k.wait_queue[w]
      BY <2>3, <1>2
    <3>2. "WOBJ" \notin k.tstat[t]
      BY <2>3, <1>3 DEF TSTAT
    <3>3. ~Contains(k.wait_queue[w], t)
      BY <3>2, <1>1 DEF QueuesHold
    <3> QED
      BY <2>1, <3>1, <3>3
  <2> QED
    BY <2>2, <2>3
<1>7. QueuesHold(n.wait_queue, n.tstat, {t})
  <2>1. n.wait_queue \in [WQUEUE -> Seq(TASK)]
    <3>1. CASE "RUNNABLE" \notin k.tstat[t] /\ "WAITING" \in k.tstat[t]
      <4>1. n.wait_queue = [w \in WQUEUE |-> n.wait_queue[w]]
        BY <3>1, <1>2
      <4> QED
        BY <4>1, <1>6
    <3>2. CASE ~("RUNNABLE" \notin k.tstat[t] /\ "WAITING" \in k.tstat[t])
      BY <3>2, <1>1, <1>2 DEF QueuesHold
    <3> QED
      BY <3>1, <3>2
  <2> QED
    BY <2>1, <1>1, <1>2, <1>6 DEF QueuesHold
<1>8. QueuesSorted(n.wait_queue, n.priority)
  BY <1>1, <1>2, <1>6, TaTpriAssumption DEF QueuesSorted
<1>9. n.tmevt = k.tmevt \ {t}
  <2>1. "WAITING" \notin k.tstat[t] => t \notin k.tmevt
    BY <1>1 DEF TcbOkK
  <2>2. "RUNNABLE" \in k.tstat[t] => "WAITING" \notin k.tstat[t]
    BY <1>3, TstatFacts
  <2> QED
    BY <2>1, <2>2, <1>1, <1>2
<1>10. ASSUME NEW u \in TASK \ {t}
       PROVE  TcbOkK(n, u)
  BY <1>1, <1>2, <1>9 DEF TcbOkK
<1>11. KInv(n, {t})
  BY <1>1, <1>2, <1>4, <1>7, <1>8, <1>9, <1>10 DEF KInv
<1> QED
  BY <1>2, <1>5, <1>6, <1>11 DEF QueuesLeft, n

-----------------------------------------------------------------------------
\* The record becomes the next state

\* The waiting tasks are in the queues of what they wait for.
WaitInv == QueuesHold(wait_queue, tstat, {}) /\ QueuesSorted(wait_queue, priority)

\* A call that moves tasks and dispatches once at its end keeps the scheduler's
\* invariant and the wait queues.
LEMMA CommitKeeps ==
    ASSUME IInv, NEW k, KInv(k, {}), Commit(k),
           dspflg /\ k.ready.schedtsk # ready.schedtsk => k.dspreq,
           runtsk # NoTask => "RUNNABLE" \in k.tstat[runtsk],
           UNCHANGED <<exist, ipriority, actque, wupque, waifbd, modeVars>>,
           bpriority' \in [TASK -> PRI]
    PROVE  IInv' /\ WaitInv'
<1>1. /\ k.tstat \in [TASK -> TSTAT] /\ k.priority \in [TASK -> PRI] /\ k.tmevt \in SUBSET TASK
      /\ ReadyInv(k.ready, Run(k.tstat), k.priority)
      /\ QueuesHold(k.wait_queue, k.tstat, {}) /\ QueuesSorted(k.wait_queue, k.priority)
      /\ \A u \in TASK : TcbOkK(k, u)
  <2>1. ReadyInv(k.ready, Run(k.tstat) \ {}, k.priority) /\ Run(k.tstat) \ {} = Run(k.tstat)
    BY DEF KInv
  <2> QED
    BY <2>1 DEF KInv
<1>2. /\ tstat' = k.tstat /\ priority' = k.priority /\ tmevt' = k.tmevt
      /\ wait_queue' = k.wait_queue /\ Reschedule(k.ready, k.dspreq)
  BY DEF Commit
<1>3. exist' = exist /\ ipriority' = ipriority /\ actque' = actque /\ wupque' = wupque /\ waifbd' = waifbd
  OBVIOUS
<1>4. ASSUME NEW u \in TASK
      PROVE  TcbOk(u)'
  <2>1. TcbOkK(k, u)
    BY <1>1
  <2> QED
    BY <2>1, <1>2, <1>3 DEF TcbOkK, TcbOk, Dormant, Sleeping, Delayed, Waiting, Queued
<1>5. TcbInv'
  BY <1>1, <1>2, <1>3, <1>4 DEF IInv, TcbInv, TcbConsistent
<1>6. ModeInv' /\ dspflg' = dspflg
  <2>1. UNCHANGED modeVars
    OBVIOUS
  <2> QED
    BY <2>1, ModeUnchanged DEF IInv
<1>7. RunnableTasks' = Run(k.tstat)
  BY <1>2 DEF RunnableTasks, Runnable, Run
<1>9. runtsk # NoTask => runtsk \in RunnableTasks'
  BY <1>7 DEF Run, IInv, CpuInv
<1>10. QueueInv' /\ CpuInv'
  <2>1. ReadyInv(k.ready, RunnableTasks', priority')
    BY <1>1, <1>2, <1>7
  <2> QED
    BY <2>1, <1>2, <1>5, <1>6, <1>9, RescheduleInv
<1>11. WaitInv'
  BY <1>1, <1>2 DEF WaitInv
<1> QED
  BY <1>5, <1>6, <1>10, <1>11 DEF IInv

\* The ending task becomes dormant or, if an activation is queued, ready: its
\* fields are as make_dormant leaves them.
LEMMA MakeDormantKeeps ==
    ASSUME TcbInv, NEW k, NEW t \in TASK, t \in exist, KInv(k, {t}), DormantFields(t),
           NEW n, n = MakeDormantK(k, t),
           tstat' = n.tstat, priority' = n.priority, tmevt' = n.tmevt, wait_queue' = n.wait_queue
    PROVE  /\ TcbInv' /\ WaitInv'
           /\ ReadyInv(n.ready, RunnableTasks', priority')
           /\ n.wait_queue = k.wait_queue
           /\ k.dspreq => n.dspreq
           /\ n.ready.schedtsk # k.ready.schedtsk => n.dspreq
           /\ \A u \in TASK \ {t} : n.tstat[u] = k.tstat[u] /\ n.priority[u] = k.priority[u]
           /\ n.tstat[t] \in {{}, {"RUNNABLE"}} /\ n.priority[t] = ipriority[t]
           /\ \A f \in DOMAIN k \ KFields : n[f] = k[f]
<1> DEFINE pri == [k.priority EXCEPT ![t] = ipriority[t]]
           r == MakeRunnable(k.ready, t, pri)
<1>1. /\ KFields \subseteq DOMAIN k
      /\ k.tstat \in [TASK -> TSTAT] /\ k.priority \in [TASK -> PRI] /\ k.tmevt \in SUBSET TASK
      /\ ReadyInv(k.ready, Run(k.tstat) \ {t}, k.priority)
      /\ QueuesHold(k.wait_queue, k.tstat, {t}) /\ QueuesSorted(k.wait_queue, k.priority)
      /\ \A u \in TASK \ {t} : TcbOkK(k, u)
      /\ t \notin k.tmevt
  BY DEF KInv
<1>2. /\ \A f \in DOMAIN k \ KFields : n[f] = k[f]
      /\ n.priority = pri /\ n.tmevt = k.tmevt /\ n.wait_queue = k.wait_queue
      /\ ~actque[t] => /\ n.ready = k.ready /\ n.dspreq = k.dspreq
                       /\ n.tstat = [k.tstat EXCEPT ![t] = {}]
      /\ actque[t] =>
           /\ n.ready = r /\ n.dspreq = (k.dspreq \/ r.schedtsk # k.ready.schedtsk)
           /\ n.tstat = [[k.tstat EXCEPT ![t] = {}] EXCEPT ![t] = {"RUNNABLE"}]
  <2>1. KFields \subseteq DOMAIN k /\ n = MakeDormantK(k, t)
    BY <1>1
  <2> QED
    BY ONLY <2>1, Zenon DEF MakeDormantK, WithReady, KFields, DispatchRequest
<1>3. /\ exist' = exist /\ ipriority' = ipriority
      /\ actque' = [actque EXCEPT ![t] = FALSE] /\ wupque' = [wupque EXCEPT ![t] = FALSE]
      /\ waifbd' = [waifbd EXCEPT ![t] = FALSE] /\ bpriority' = [bpriority EXCEPT ![t] = ipriority[t]]
  BY DEF DormantFields
<1>4. /\ exist \in SUBSET TASK /\ ipriority \in [TASK -> PRI] /\ bpriority \in [TASK -> PRI]
      /\ actque \in [TASK -> BOOLEAN] /\ wupque \in [TASK -> BOOLEAN] /\ waifbd \in [TASK -> BOOLEAN]
  BY DEF TcbInv
<1>5. /\ n.tstat \in [TASK -> TSTAT]
      /\ n.tstat[t] = IF actque[t] THEN {"RUNNABLE"} ELSE {}
      /\ \A u \in TASK \ {t} : n.tstat[u] = k.tstat[u]
  BY <1>1, <1>2, TstatValues
<1>6. pri \in [TASK -> PRI] /\ pri[t] = ipriority[t] /\ \A u \in TASK \ {t} : pri[u] = k.priority[u]
  BY <1>1, <1>4
<1>7. RunnableTasks' = IF actque[t] THEN (Run(k.tstat) \ {t}) \cup {t} ELSE Run(k.tstat) \ {t}
  BY <1>5 DEF RunnableTasks, Runnable, Run
<1>8. ReadyInv(n.ready, RunnableTasks', priority')
  <2>1. Run(k.tstat) \ {t} \in SUBSET TASK /\ \A u \in Run(k.tstat) \ {t} : pri[u] = k.priority[u]
    BY <1>6 DEF Run
  <2>2. ReadyInv(k.ready, Run(k.tstat) \ {t}, pri)
    BY <2>1, <1>1, <1>6, ReadyInvPriority
  <2>3. ReadyInv(r, (Run(k.tstat) \ {t}) \cup {t}, pri)
    BY <2>1, <2>2, <1>6, MakeRunnableInv
  <2> QED
    BY <2>2, <2>3, <1>2, <1>7
<1> HIDE DEF r, pri
<1>9. ASSUME NEW u \in TASK
      PROVE  TcbOk(u)'
  <2>1. CASE u = t
    <3>1. tstat'[t] = (IF actque[t] THEN {"RUNNABLE"} ELSE {}) /\ t \notin tmevt'
      BY <1>1, <1>2, <1>5
    <3>2. ~actque'[t] /\ ~wupque'[t] /\ ~waifbd'[t] /\ priority'[t] = ipriority'[t] /\ t \in exist'
      BY <1>2, <1>3, <1>4, <1>6
    <3> QED
      BY <2>1, <3>1, <3>2 DEF TcbOk, Dormant, Sleeping, Delayed, Waiting, Queued
  <2>2. CASE u # t
    <3>1. TcbOkK(k, u)
      BY <2>2, <1>1
    <3>2. /\ tstat'[u] = k.tstat[u] /\ priority'[u] = k.priority[u] /\ tmevt' = k.tmevt
          /\ actque'[u] = actque[u] /\ wupque'[u] = wupque[u] /\ waifbd'[u] = waifbd[u]
      BY <2>2, <1>2, <1>3, <1>4, <1>5, <1>6
    <3> QED
      BY <3>1, <3>2, <1>3 DEF TcbOkK, TcbOk, Dormant, Sleeping, Delayed, Waiting, Queued
  <2> QED
    BY <2>1, <2>2
<1>10. TcbInv'
  BY <1>1, <1>2, <1>3, <1>4, <1>5, <1>6, <1>9 DEF TcbInv, TcbConsistent
<1>11. QueuesHold(wait_queue', tstat', {})
  <2>1. \A w \in WQUEUE, u \in TASK :
            Contains(k.wait_queue[w], u) => u # t /\ "WOBJ" \in n.tstat[u]
    BY <1>1, <1>5 DEF QueuesHold
  <2>2. \A u \in TASK : "WOBJ" \in n.tstat[u] => \E w \in WQUEUE : Contains(k.wait_queue[w], u)
    <3>1. "WOBJ" \notin n.tstat[t]
      BY <1>5
    <3> QED
      BY <3>1, <1>1, <1>5 DEF QueuesHold
  <2> QED
    BY <2>1, <2>2, <1>1, <1>2 DEF QueuesHold
<1>12. QueuesSorted(wait_queue', priority')
  <2>1. ASSUME NEW w \in TaTpri
        PROVE  Sorted(k.wait_queue[w], pri)
    <3>1. /\ k.wait_queue[w] \in Seq(TASK) /\ Sorted(k.wait_queue[w], k.priority)
          /\ ~Contains(k.wait_queue[w], t)
      BY <1>1, TaTpriAssumption DEF QueuesHold, QueuesSorted
    <3> QED
      BY <3>1, <1>1, SortedWithout DEF pri
  <2> QED
    BY <2>1, <1>2 DEF QueuesSorted
<1> QED
  BY <1>1, <1>2, <1>5, <1>6, <1>8, <1>10, <1>11, <1>12 DEF WaitInv

-----------------------------------------------------------------------------
\* init_wait_queue, a loop over the queue

\* Induction along a loop of N steps, as a fact about sets
LEMMA LoopInduction ==
    ASSUME NEW N \in Nat, NEW S \in SUBSET (0 .. N), 0 \in S,
           \A n \in 0 .. N : n < N /\ n \in S => n + 1 \in S
    PROVE  S = 0 .. N
<1> DEFINE B == (0 .. N) \ S
<1>1. SUFFICES ASSUME B # {}
               PROVE  FALSE
  OBVIOUS
<1>2. B \in SUBSET Nat
  OBVIOUS
<1>3. PICK b \in B : \A x \in B : b <= x
  BY <1>1, <1>2, LeastNumber
<1>4. b # 0 /\ b \in 0 .. N /\ b - 1 \in 0 .. N /\ b - 1 < N
  BY <1>3
<1>5. b - 1 \in S
  BY <1>3, <1>4
<1>6. (b - 1) + 1 \in S
  BY <1>4, <1>5
<1> QED
  BY <1>3, <1>4, <1>6

\* The records of the loop: the first is k, each other one follows from the one
\* before it.
ReleaseLoop(k, q, f) ==
    f = [n \in 0 .. Len(q) |-> IF n = 0 THEN k ELSE WaitRelease(f[n - 1], q[n])]

\* There are such records, whatever the record and the queue.
LEMMA ReleasedIsDefined ==
    ASSUME NEW k, NEW q, Len(q) \in Nat
    PROVE  \E f : ReleaseLoop(k, q, f)
<1> USE DEF ReleaseLoop
<1> DEFINE Loop(f, N) == f = [n \in 0 .. N |-> IF n = 0 THEN k ELSE WaitRelease(f[n - 1], q[n])]
           S == {N \in 0 .. Len(q) : \E f : Loop(f, N)}
<1>1. 0 \in S
  <2> DEFINE g == [n \in 0 .. 0 |-> k]
  <2>1. Loop(g, 0)
    <3>1. \A n \in 0 .. 0 : n = 0
      OBVIOUS
    <3> QED
      BY <3>1
  <2> HIDE DEF Loop
  <2> QED
    BY <2>1
<1>2. ASSUME NEW N \in 0 .. Len(q), N < Len(q), N \in S
      PROVE  N + 1 \in S
  <2>1. PICK f : Loop(f, N)
    BY <1>2
  <2> DEFINE g == [n \in 0 .. N + 1 |-> IF n = N + 1 THEN WaitRelease(f[N], q[N + 1]) ELSE f[n]]
  <2>2. ASSUME NEW n \in 0 .. N + 1
        PROVE  g[n] = IF n = 0 THEN k ELSE WaitRelease(g[n - 1], q[n])
    <3>1. CASE n = N + 1
      <4>1. n - 1 \in 0 .. N + 1 /\ n - 1 # N + 1 /\ n - 1 = N /\ n # 0
        BY <3>1
      <4>2. g[n - 1] = f[N] /\ g[n] = WaitRelease(f[N], q[N + 1])
        BY <3>1, <4>1
      <4> QED
        BY <3>1, <4>1, <4>2
    <3>2. CASE n # N + 1
      <4>1. n \in 0 .. N /\ g[n] = f[n]
        BY <3>2
      <4>2. f[n] = IF n = 0 THEN k ELSE WaitRelease(f[n - 1], q[n])
        BY <4>1, <2>1
      <4>3. n # 0 => n - 1 \in 0 .. N + 1 /\ n - 1 # N + 1
        BY <4>1
      <4>4. n # 0 => g[n - 1] = f[n - 1]
        BY <4>3
      <4> QED
        BY <4>1, <4>2, <4>4
    <3> QED
      BY <3>1, <3>2
  <2>3. Loop(g, N + 1)
    BY <2>2
  <2>4. N + 1 \in 0 .. Len(q)
    BY <1>2
  <2> HIDE DEF Loop, g
  <2> QED
    BY <2>3, <2>4
<1>3. S = 0 .. Len(q)
  <2>1. S \in SUBSET (0 .. Len(q))
    OBVIOUS
  <2> HIDE DEF S
  <2> QED
    BY <1>1, <1>2, <2>1, LoopInduction
<1>4. \E f : Loop(f, Len(q))
  <2>1. Len(q) \in S
    BY <1>3
  <2> QED
    BY <2>1
<1> QED
  BY <1>4

\* After the first n tasks of the queue w of k have been released: they are out
\* of it, the others and the other queues are as they were.
ReleasedUpTo(k, X, w, n, r) ==
    /\ KInv(r, X) /\ Advances(k, r) /\ r.priority = k.priority
    /\ \A v \in WQUEUE \ {w} : r.wait_queue[v] = k.wait_queue[v]
    /\ \A u \in TASK : Contains(r.wait_queue[w], u)
                         <=> \E i \in 1 .. Len(k.wait_queue[w]) : i > n /\ k.wait_queue[w][i] = u
    /\ \A u \in TASK : ~Contains(k.wait_queue[w], u) => r.tstat[u] = k.tstat[u]
    /\ \A f \in DOMAIN k \ KFields : r[f] = k[f]

\* One turn of the loop of init_wait_queue releases the first task left.
LEMMA ReleaseNext ==
    ASSUME NEW k, NEW X, KInv(k, X), NEW w \in WQUEUE, NEW n \in Nat, n < Len(k.wait_queue[w]),
           NEW r, ReleasedUpTo(k, X, w, n, r)
    PROVE  ReleasedUpTo(k, X, w, n + 1, WaitRelease(r, k.wait_queue[w][n + 1]))
<1> DEFINE q == k.wait_queue[w]
           t == q[n + 1]
           s == WaitRelease(r, t)
<1>1. QueuesHold(k.wait_queue, k.tstat, X)
  BY DEF KInv
<1>2. q \in Seq(TASK) /\ Len(q) \in Nat /\ Distinct(q) /\ n + 1 \in 1 .. Len(q) /\ t \in TASK
  BY <1>1 DEF QueuesHold
<1>3. Contains(q, t) /\ Contains(r.wait_queue[w], t)
  <2>1. n + 1 > n
    OBVIOUS
  <2> QED
    BY <1>2, <2>1 DEF Contains, ReleasedUpTo
<1>4. t \in TASK \ X /\ "WAITING" \in r.tstat[t] /\ KInv(r, X)
  <2>1. QueuesHold(r.wait_queue, r.tstat, X) /\ r.tstat \in [TASK -> TSTAT]
    BY DEF ReleasedUpTo, KInv
  <2>2. t \notin X /\ "WOBJ" \in r.tstat[t] /\ r.tstat[t] \in TSTAT
    BY <2>1, <1>2, <1>3 DEF QueuesHold
  <2> QED
    BY <2>2, <1>2 DEF TSTAT, ReleasedUpTo
<1>5. WaitReleased(r, s, X, t)
  BY <1>4, WaitReleaseKeeps
<1> HIDE DEF s
<1>6. KInv(s, X) /\ Advances(k, s) /\ s.priority = k.priority
  BY <1>5, AdvancesTransitive DEF WaitReleased, ReleasedUpTo
<1>7. ASSUME NEW v \in WQUEUE
      PROVE  /\ s.wait_queue[v] = Unlinked(r.wait_queue[v], t)
             /\ r.wait_queue[v] \in Seq(TASK) /\ Distinct(r.wait_queue[v])
  BY <1>4, <1>5 DEF WaitReleased, KInv, QueuesHold
<1>8. ASSUME NEW v \in WQUEUE \ {w}
      PROVE  s.wait_queue[v] = k.wait_queue[v]
  <2>1. r.wait_queue[v] = k.wait_queue[v]
    BY DEF ReleasedUpTo
  <2>2. ~Contains(k.wait_queue[v], t)
    BY <1>1, <1>2, <1>3 DEF QueuesHold
  <2>3. Unlinked(r.wait_queue[v], t) = r.wait_queue[v]
    BY <2>1, <2>2 DEF Unlinked
  <2> QED
    BY <2>1, <2>3, <1>7
<1>9. ASSUME NEW u \in TASK
      PROVE  Contains(s.wait_queue[w], u) <=> \E i \in 1 .. Len(q) : i > n + 1 /\ q[i] = u
  <2>1. Contains(s.wait_queue[w], u) <=> Contains(r.wait_queue[w], u) /\ u # t
    BY <1>7, UnlinkedKeeps
  <2>2. Contains(r.wait_queue[w], u) <=> \E i \in 1 .. Len(q) : i > n /\ q[i] = u
    BY DEF ReleasedUpTo
  <2>3. ASSUME NEW i \in 1 .. Len(q), i > n, q[i] = u, u # t
        PROVE  i > n + 1
    BY <1>2, <2>3
  <2>4. ASSUME NEW i \in 1 .. Len(q), i > n + 1, q[i] = u
        PROVE  i > n /\ u # t
    BY <1>2, <2>4 DEF Distinct
  <2> QED
    BY <2>1, <2>2, <2>3, <2>4
<1>10. \A u \in TASK : ~Contains(q, u) => s.tstat[u] = k.tstat[u]
  BY <1>3, <1>5 DEF WaitReleased, ReleasedUpTo
<1>11. \A f \in DOMAIN k \ KFields : s[f] = k[f]
  <2>1. DOMAIN r = DOMAIN k
    BY DEF ReleasedUpTo, Advances
  <2> QED
    BY <2>1, <1>5 DEF WaitReleased, ReleasedUpTo
<1> QED
  BY <1>6, <1>8, <1>9, <1>10, <1>11 DEF ReleasedUpTo, s

\* init_wait_queue empties one queue and touches no other.
QueueReleased(k, n, X, w) ==
    /\ KInv(n, X) /\ Advances(k, n) /\ n.priority = k.priority
    /\ n.wait_queue[w] = <<>>
    /\ \A v \in WQUEUE \ {w} : n.wait_queue[v] = k.wait_queue[v]
    /\ \A u \in TASK : ~Contains(k.wait_queue[w], u) => n.tstat[u] = k.tstat[u]
    /\ \A f \in DOMAIN k \ KFields : n[f] = k[f]

\* init_wait_queue ends every wait on the queue and keeps KInv.
LEMMA InitWaitQueueKeeps ==
    ASSUME NEW k, NEW X, KInv(k, X), NEW w \in WQUEUE
    PROVE  QueueReleased(k, InitWaitQueue(k, w), X, w)
<1> DEFINE q == k.wait_queue[w]
           R[n \in 0 .. Len(q)] == IF n = 0 THEN k ELSE WaitRelease(R[n - 1], q[n])
           S == {n \in 0 .. Len(q) : ReleasedUpTo(k, X, w, n, R[n])}
<1>1. QueuesHold(k.wait_queue, k.tstat, X)
  BY DEF KInv
<1>2. q \in Seq(TASK) /\ Len(q) \in Nat
  BY <1>1 DEF QueuesHold
<1>3. R = [n \in 0 .. Len(q) |-> IF n = 0 THEN k ELSE WaitRelease(R[n - 1], q[n])]
  <2>1. \E f : ReleaseLoop(k, q, f)
    BY <1>2, ReleasedIsDefined
  <2> QED
    BY <2>1 DEF ReleaseLoop
<1>4. InitWaitQueue(k, w) = R[Len(q)]
  BY DEF InitWaitQueue
<1> HIDE DEF R
<1>5. 0 \in S
  <2>1. R[0] = k
    BY <1>2, <1>3
  <2>2. ReleasedUpTo(k, X, w, 0, k)
    <3>1. \A u \in TASK : Contains(q, u) <=> \E i \in 1 .. Len(q) : i > 0 /\ q[i] = u
      BY <1>2 DEF Contains
    <3> QED
      BY <3>1, AdvancesReflexive DEF ReleasedUpTo
  <2> QED
    BY <2>1, <2>2, <1>2
<1>6. ASSUME NEW n \in 0 .. Len(q), n < Len(q), n \in S
      PROVE  n + 1 \in S
  <2>1. n + 1 \in 0 .. Len(q) /\ n + 1 # 0 /\ (n + 1) - 1 = n /\ n \in Nat
    BY <1>2, <1>6
  <2>2. R[n + 1] = WaitRelease(R[n], q[n + 1])
    BY <2>1, <1>3
  <2>3. ReleasedUpTo(k, X, w, n, R[n])
    BY <1>6
  <2>4. ReleasedUpTo(k, X, w, n + 1, WaitRelease(R[n], q[n + 1]))
    BY <2>1, <2>3, <1>6, ReleaseNext
  <2> QED
    BY <2>1, <2>2, <2>4
<1>7. S = 0 .. Len(q)
  <2>1. S \in SUBSET (0 .. Len(q))
    OBVIOUS
  <2> HIDE DEF S
  <2> QED
    BY <1>2, <1>5, <1>6, <2>1, LoopInduction
<1> DEFINE n == R[Len(q)]
<1>8. ReleasedUpTo(k, X, w, Len(q), n)
  <2>1. Len(q) \in S
    BY <1>2, <1>7
  <2> QED
    BY <2>1
<1> HIDE DEF n
<1>9. n.wait_queue[w] = <<>>
  <2>1. n.wait_queue[w] \in Seq(TASK)
    BY <1>8 DEF ReleasedUpTo, KInv, QueuesHold
  <2>2. \A u \in TASK : ~Contains(n.wait_queue[w], u)
    BY <1>2, <1>8 DEF ReleasedUpTo
  <2>3. ASSUME n.wait_queue[w] # <<>>
        PROVE  FALSE
    <3>1. 1 \in 1 .. Len(n.wait_queue[w]) /\ n.wait_queue[w][1] \in TASK
      BY <2>1, <2>3
    <3> QED
      BY <3>1, <2>2 DEF Contains
  <2> QED
    BY <2>3
<1> QED
  BY <1>4, <1>8, <1>9 DEF ReleasedUpTo, QueueReleased, n


-----------------------------------------------------------------------------
\* The steps of the scheduler and of the waiting tasks

\* The invariant is kept by a step that leaves the queues, the priorities and
\* what waits in the queues alone.
LEMMA WaitUnchanged ==
    ASSUME WaitInv, wait_queue' = wait_queue, priority' = priority,
           \A t \in TASK : Queued(t)' <=> Queued(t)
    PROVE  WaitInv'
  BY DEF WaitInv, QueuesHold, QueuesSorted, Queued

\* The operations of the scheduler change no priority and no wait queue; a task
\* starts to wait for an object, or ends, in none of them.
LEMMA SchedulerStepKeeps ==
    ASSUME IInv, WaitInv, SchedulerStep, wait_queue' = wait_queue
    PROVE  /\ IInv' /\ WaitInv'
           /\ UNCHANGED <<ipriority, bpriority, priority>>
           /\ \A t \in TASK : (Queued(t)' <=> Queued(t)) /\ (Dormant(t)' => Dormant(t))
<1>1. IInv'
  BY ActivateInv, SusTskInv, RsmTskInv, RotRdqInv, ModeCallInv, IntEnterInv, IntExitInv
     DEF SchedulerStep, ActTsk, IactTsk
<1>2. UNCHANGED <<ipriority, bpriority, priority>>
  <2>1. CASE \E t \in TASK : ActTsk(t) \/ IactTsk(t) \/ SusTsk(t) \/ RsmTsk(t)
    BY <2>1 DEF ActTsk, IactTsk, Activate, SusTsk, RsmTsk
  <2>2. CASE UNCHANGED tcbVars
    BY <2>2 DEF tcbVars
  <2> QED
    BY <2>1, <2>2 DEF SchedulerStep, RotRdq, DisDsp, EnaDsp, IntEnter, IntExitNested,
                      IntExit, IdleExit
<1>3. tstat \in [TASK -> TSTAT]
  BY DEF IInv, TcbInv
<1>4. \A t \in TASK : (Queued(t)' <=> Queued(t)) /\ (Dormant(t)' => Dormant(t))
  <2>1. CASE UNCHANGED tcbVars
    BY <2>1 DEF tcbVars, Queued, Dormant
  <2>2. ASSUME NEW t \in TASK, ActTsk(t) \/ IactTsk(t) \/ SusTsk(t) \/ RsmTsk(t)
        PROVE  \E x : /\ tstat' = [tstat EXCEPT ![t] = x]
                      /\ "WOBJ" \in x <=> "WOBJ" \in tstat[t]
                      /\ x = {} => tstat[t] = {}
    <3>1. tstat[t] \in TSTAT
      BY <1>3
    <3>2. CASE Activate(t)
      <4>1. CASE Dormant(t)
        BY <3>2, <4>1 DEF Activate, Dormant
      <4>2. CASE ~Dormant(t)
        <5>1. tstat' = [tstat EXCEPT ![t] = tstat[t]]
          BY <3>2, <4>2, <1>3 DEF Activate
        <5> QED
          BY <5>1
      <4> QED
        BY <4>1, <4>2
    <3>3. CASE SusTsk(t)
      <4>1. CASE Runnable(t)
        <5>1. tstat[t] = {"RUNNABLE"}
          BY <3>1, <4>1, TstatFacts DEF Runnable
        <5> QED
          BY <5>1, <3>3, <4>1 DEF SusTsk
      <4>2. CASE ~Runnable(t)
        <5>1. tstat' = [tstat EXCEPT ![t] = tstat[t] \cup {"SUSPENDED"}]
          BY <3>3, <4>2 DEF SusTsk
        <5> QED
          BY <5>1
      <4> QED
        BY <4>1, <4>2
    <3>4. CASE RsmTsk(t)
      <4>1. CASE Waiting(t)
        <5>1. tstat' = [tstat EXCEPT ![t] = tstat[t] \ {"SUSPENDED"}]
          BY <3>4, <4>1 DEF RsmTsk
        <5>2. tstat[t] \ {"SUSPENDED"} # {}
          BY <4>1 DEF Waiting
        <5> QED
          BY <5>1, <5>2
      <4>2. CASE ~Waiting(t)
        <5>1. tstat' = [tstat EXCEPT ![t] = {"RUNNABLE"}]
          BY <3>4, <4>2 DEF RsmTsk
        <5>2. "WOBJ" \notin tstat[t]
          BY <3>1, <4>2 DEF TSTAT, Waiting
        <5> QED
          BY <5>1, <5>2
      <4> QED
        BY <4>1, <4>2
    <3> QED
      BY <2>2, <3>2, <3>3, <3>4 DEF ActTsk, IactTsk
  <2>3. CASE \E t \in TASK : ActTsk(t) \/ IactTsk(t) \/ SusTsk(t) \/ RsmTsk(t)
    <3>1. PICK t \in TASK : ActTsk(t) \/ IactTsk(t) \/ SusTsk(t) \/ RsmTsk(t)
      BY <2>3
    <3>2. PICK x : /\ tstat' = [tstat EXCEPT ![t] = x]
                   /\ "WOBJ" \in x <=> "WOBJ" \in tstat[t]
                   /\ x = {} => tstat[t] = {}
      BY <3>1, <2>2
    <3> QED
      BY <3>2, <1>3 DEF Queued, Dormant
  <2> QED
    BY <2>1, <2>3 DEF SchedulerStep, RotRdq, DisDsp, EnaDsp, IntEnter, IntExitNested,
                      IntExit, IdleExit
<1>5. WaitInv'
  BY <1>2, <1>4, WaitUnchanged
<1> QED
  BY <1>1, <1>2, <1>4, <1>5


\* The running task goes to its place in the wait queue and leaves the CPU.
LEMMA WobjMakeWaitKeeps ==
    ASSUME IInv, WaitInv, DispatchState, NEW w \in WQUEUE, NEW timed \in BOOLEAN,
           WobjMakeWait(w, timed), UNCHANGED restVars
    PROVE  /\ IInv' /\ WaitInv'
           /\ runtsk \in RunnableTasks
           /\ tstat' = [tstat EXCEPT ![runtsk] = {"WAITING"} \cup {"WOBJ"}]
           /\ \A v \in WQUEUE, u \in TASK : Contains(wait_queue'[v], u)
                                      <=> Contains(wait_queue[v], u) \/ (v = w /\ u = runtsk)
<1> DEFINE t == runtsk
<1>1. /\ tstat' = [tstat EXCEPT ![t] = {"WAITING"} \cup {"WOBJ"}]
      /\ tmevt' = IF timed THEN tmevt \cup {t} ELSE tmevt
      /\ wait_queue' = [wait_queue EXCEPT ![w] = QueueInsert(w, wait_queue[w], t, priority)]
      /\ priority' = priority /\ MakeWait({"WOBJ"}, timed)
  BY DEF WobjMakeWait, MakeWait
<1>2. /\ exist' = exist /\ ipriority' = ipriority /\ bpriority' = bpriority
      /\ actque' = actque /\ wupque' = wupque /\ waifbd' = waifbd /\ UNCHANGED modeVars
  BY DEF restVars
<1>3. t \in RunnableTasks /\ t \in TASK /\ t \in exist /\ "RUNNABLE" \in tstat[t]
  BY TaskContext DEF DispatchState, TskCtxUnl, RunnableTasks, Runnable
<1>4. /\ tstat \in [TASK -> TSTAT] /\ priority \in [TASK -> PRI] /\ tmevt \in SUBSET TASK
      /\ \A u \in TASK : TcbOk(u)
  BY DEF IInv, TcbInv, TcbConsistent
<1>5. QueuesHold(wait_queue, tstat, {}) /\ QueuesSorted(wait_queue, priority)
  BY DEF WaitInv
<1>6. "WOBJ" \notin tstat[t]
  <2>1. tstat[t] \in TSTAT
    BY <1>3, <1>4
  <2> QED
    BY <2>1, <1>3 DEF TSTAT
<1>7. IInv'
  <2>1. ASSUME NEW u \in TASK
        PROVE  TcbOk(u)'
    <3>1. CASE u = t
      BY <3>1, <1>1, <1>2, <1>3, <1>4
         DEF TcbOk, Dormant, Sleeping, Delayed, Waiting, Queued
    <3>2. CASE u # t
      <4>1. tstat'[u] = tstat[u] /\ (u \in tmevt' <=> u \in tmevt)
        BY <3>2, <1>1, <1>4
      <4> QED
        BY <4>1, <1>1, <1>2, <1>4 DEF TcbOk, Dormant, Sleeping, Delayed, Waiting, Queued
    <3> QED
      BY <3>1, <3>2
  <2>2. tstat' \in [TASK -> TSTAT]
    BY <1>1, <1>3, <1>4, TstatValues
  <2>3. TcbInv'
    BY <2>1, <2>2, <1>1, <1>2, <1>3, <1>4 DEF IInv, TcbInv, TcbConsistent
  <2> QED
    BY <2>3, <1>1, <1>2, MakeWaitInv
<1> DEFINE q == wait_queue[w]
           n == QueueInsert(w, q, t, priority)
<1>8. /\ q \in Seq(TASK) /\ Distinct(q) /\ ~Contains(q, t)
      /\ (w \in TaTpri => Sorted(q, priority))
  BY <1>3, <1>5, <1>6 DEF QueuesHold, QueuesSorted
<1>9. /\ n \in Seq(TASK) /\ Distinct(n)
      /\ \A u : Contains(n, u) <=> Contains(q, u) \/ u = t
      /\ (w \in TaTpri => Sorted(n, priority))
  <2>1. CASE w \in TaTpri
    BY <2>1, <1>3, <1>4, <1>8, QueueInsertTpriKeeps DEF QueueInsert
  <2>2. CASE w \notin TaTpri
    BY <2>2, <1>3, <1>8, AppendKeeps DEF QueueInsert
  <2> QED
    BY <2>1, <2>2
<1>10. wait_queue' = [wait_queue EXCEPT ![w] = n]
  BY <1>1
<1> HIDE DEF n
<1>11. \A v \in WQUEUE, u \in TASK : Contains(wait_queue'[v], u)
                                  <=> Contains(wait_queue[v], u) \/ (v = w /\ u = t)
  BY <1>5, <1>9, <1>10 DEF QueuesHold
<1>12. QueuesHold(wait_queue', tstat', {})
  <2>1. wait_queue' \in [WQUEUE -> Seq(TASK)] /\ \A v \in WQUEUE : Distinct(wait_queue'[v])
    BY <1>5, <1>9, <1>10 DEF QueuesHold
  <2>2. \A u \in TASK : "WOBJ" \in tstat'[u] <=> "WOBJ" \in tstat[u] \/ u = t
    BY <1>1, <1>3, <1>4
  <2>3. \A v \in WQUEUE : ~Contains(wait_queue[v], t)
    BY <1>3, <1>5, <1>6 DEF QueuesHold
  <2>4. \A v \in WQUEUE, u \in TASK : Contains(wait_queue'[v], u) => u \notin {} /\ "WOBJ" \in tstat'[u]
    BY <2>2, <1>5, <1>11 DEF QueuesHold
  <2>5. \A u \in TASK \ {} : "WOBJ" \in tstat'[u] => \E v \in WQUEUE : Contains(wait_queue'[v], u)
    BY <2>2, <1>5, <1>11 DEF QueuesHold
  <2>6. \A v, x \in WQUEUE, u \in TASK :
            Contains(wait_queue'[v], u) /\ Contains(wait_queue'[x], u) => v = x
    BY <2>3, <1>5, <1>11 DEF QueuesHold
  <2> QED
    BY <2>1, <2>4, <2>5, <2>6 DEF QueuesHold
<1>13. QueuesSorted(wait_queue', priority')
  BY <1>1, <1>5, <1>9, <1>10, TaTpriAssumption DEF QueuesSorted, QueuesHold
<1> QED
  BY <1>1, <1>3, <1>7, <1>11, <1>12, <1>13 DEF WaitInv

\* The record a call starts with is in order.
LEMMA KStateInv ==
    ASSUME IInv, WaitInv
    PROVE  KInv(KState, {})
<1>1. /\ KFields \subseteq DOMAIN KState /\ KState.ready = ready /\ KState.tstat = tstat
      /\ KState.priority = priority /\ KState.tmevt = tmevt /\ KState.wait_queue = wait_queue
  BY DEF KState, KFields
<1>2. /\ tstat \in [TASK -> TSTAT] /\ priority \in [TASK -> PRI] /\ tmevt \in SUBSET TASK
      /\ ReadyInv(ready, RunnableTasks, priority)
      /\ \A t \in TASK : TcbOk(t)
  BY DEF IInv, TcbInv, TcbConsistent, QueueInv
<1>3. Run(tstat) \ {} = RunnableTasks
  BY DEF Run, RunnableTasks, Runnable
<1>4. ASSUME NEW t \in TASK
      PROVE  TcbOkK(KState, t)
  <2>1. TcbOk(t)
    BY <1>2
  <2> QED
    BY <2>1, <1>1 DEF TcbOk, TcbOkK, Dormant, Sleeping, Delayed, Waiting, Queued
<1> QED
  BY <1>1, <1>2, <1>3, <1>4 DEF KInv, WaitInv

\* rel_wai, irel_wai and the timeout take the task out of its queue and let it
\* run, unless it is suspended.
LEMMA ReleaseQueuedKeeps ==
    ASSUME IInv, WaitInv, NEW t \in TASK, ReleaseQueued(t)
    PROVE  /\ IInv' /\ WaitInv' /\ UNCHANGED <<priority, bpriority, ipriority>>
           /\ wait_queue' = [w \in WQUEUE |-> Unlinked(wait_queue[w], t)]
           /\ \A u \in TASK : Dormant(u)' <=> Dormant(u)
<1> DEFINE k == WaitRelease(KState, t)
<1>1. KInv(KState, {}) /\ KState.tstat = tstat /\ KState.priority = priority
      /\ KState.wait_queue = wait_queue /\ KState.ready = ready
  BY KStateInv DEF KState
<1>2. "WAITING" \in tstat[t]
  <2>1. tstat[t] \in TSTAT /\ "WOBJ" \in tstat[t]
    BY DEF IInv, TcbInv, ReleaseQueued, Queued
  <2> QED
    BY <2>1 DEF TSTAT
<1>3. WaitReleased(KState, k, {}, t)
  BY <1>1, <1>2, WaitReleaseKeeps
<1>4. Commit(k) /\ UNCHANGED restVars
  BY DEF ReleaseQueued
<1> HIDE DEF k
<1>5. KInv(k, {}) /\ Advances(KState, k) /\ k.priority = priority
      /\ k.wait_queue = [w \in WQUEUE |-> Unlinked(wait_queue[w], t)]
  BY <1>1, <1>3 DEF WaitReleased
<1>6. runtsk # NoTask => runtsk \in TASK /\ "RUNNABLE" \in tstat[runtsk]
  BY DEF IInv, CpuInv, RunningTaskIsRunnable, Runnable
<1>7. IInv' /\ WaitInv'
  <2>1. bpriority' \in [TASK -> PRI]
    BY <1>4 DEF restVars, IInv, TcbInv
  <2> QED
    BY <2>1, <1>1, <1>4, <1>5, <1>6, CommitKeeps DEF restVars, Advances
<1> QED
  BY <1>1, <1>4, <1>5, <1>7 DEF restVars, Commit, Advances, Dormant


-----------------------------------------------------------------------------
\* Nobody waits at first.
LEMMA InitWaitInv ==
    ASSUME Init, wait_queue = [w \in WQUEUE |-> <<>>]
    PROVE  IInv /\ WaitInv
<1>1. IInv
  BY InitInv
<1>2. \A t \in TASK : "WOBJ" \notin tstat[t]
  BY DEF Init
<1>3. \A w \in WQUEUE : wait_queue[w] = <<>> /\ <<>> \in Seq(TASK) /\ Len(<<>>) = 0
  OBVIOUS
<1>4. \A t \in TASK, w \in WQUEUE : ~Contains(wait_queue[w], t)
  BY <1>3 DEF Contains
<1>5. QueuesHold(wait_queue, tstat, {})
  BY <1>2, <1>3, <1>4 DEF QueuesHold, Distinct
<1>6. QueuesSorted(wait_queue, priority)
  BY <1>3, TaTpriAssumption DEF QueuesSorted, Sorted
<1> QED
  BY <1>1, <1>5, <1>6 DEF WaitInv

\* The invariants give what the runs check of the scheduler and the wait queues.
LEMMA WaitsAreConsistent ==
    ASSUME IInv, WaitInv
    PROVE  TypeOK /\ WaitsConsistent
<1>1. TypeOK /\ ReadyQueueConsistent /\ DispatchIsPrompt
  BY DEF IInv, TcbInv, ModeInv, CpuInv, QueueInv, ReadyInv, TypeOK, ReadyQueueConsistent
<1>2. QueuesHold(wait_queue, tstat, {}) /\ QueuesSorted(wait_queue, priority)
  BY DEF WaitInv
<1>3. ASSUME NEW w \in WQUEUE
      PROVE  wait_queue[w] \in Seq(TASK) /\ IsInjective(wait_queue[w])
  <2>1. wait_queue[w] \in Seq(TASK) /\ Distinct(wait_queue[w])
    BY <1>2 DEF QueuesHold
  <2>2. DOMAIN wait_queue[w] = 1 .. Len(wait_queue[w])
    BY <2>1
  <2> QED
    BY <2>1, <2>2 DEF Distinct, IsInjective
<1>4. WaitQueuesMatch
  <2> SUFFICES ASSUME NEW t \in TASK
               PROVE  Cardinality({w \in WQUEUE : Contains(wait_queue[w], t)})
                        = IF Queued(t) THEN 1 ELSE 0
    BY <1>3 DEF WaitQueuesMatch
  <2> DEFINE at == {w \in WQUEUE : Contains(wait_queue[w], t)}
  <2>1. CASE Queued(t)
    <3>1. PICK w \in WQUEUE : Contains(wait_queue[w], t)
      BY <2>1, <1>2 DEF QueuesHold, Queued
    <3>2. at = {w}
      BY <3>1, <1>2 DEF QueuesHold
    <3> HIDE DEF at
    <3>3. Cardinality(at) = 1
      BY <3>2, FS_Singleton
    <3> QED
      BY <2>1, <3>3 DEF at
  <2>2. CASE ~Queued(t)
    <3>1. at = {}
      BY <2>2, <1>2 DEF QueuesHold, Queued
    <3> HIDE DEF at
    <3>2. Cardinality(at) = 0
      BY <3>1, FS_EmptySet
    <3> QED
      BY <2>2, <3>2 DEF at
  <2> QED
    BY <2>1, <2>2
<1>5. WaitQueuesSorted
  <2> SUFFICES ASSUME NEW w \in TaTpri, NEW i \in DOMAIN wait_queue[w],
                      NEW j \in DOMAIN wait_queue[w], i < j
               PROVE  priority[wait_queue[w][i]] <= priority[wait_queue[w][j]]
    BY DEF WaitQueuesSorted
  <2>1. wait_queue[w] \in Seq(TASK) /\ Sorted(wait_queue[w], priority)
    BY <1>2, TaTpriAssumption DEF QueuesHold, QueuesSorted
  <2>2. i \in 1 .. Len(wait_queue[w]) /\ j \in 1 .. Len(wait_queue[w])
    BY <2>1
  <2> QED
    BY <2>1, <2>2 DEF Sorted
<1> QED
  BY <1>1, <1>4, <1>5 DEF WaitsConsistent


-----------------------------------------------------------------------------
\* What the mutexes need: the priority of a task is raised

\* A task that has the CPU keeps it when its priority is raised.
LEMMA RaiseKeepsSchedtsk ==
    ASSUME NEW k, KFields \subseteq DOMAIN k, NEW t, "RUNNABLE" \in k.tstat[t],
           NEW p, ~(p >= k.priority[t]), k.ready.schedtsk = t
    PROVE  ChangePriorityK(k, t, p, TRUE).ready.schedtsk = t
<1> DEFINE r == ChangePriority(k.ready, t, k.priority, p, TRUE)
<1>1. ChangePriorityK(k, t, p, TRUE).ready = r
  <2>1. KFields \subseteq DOMAIN k /\ "RUNNABLE" \in k.tstat[t]
    OBVIOUS
  <2> QED
    BY ONLY <2>1, Zenon DEF ChangePriorityK, WithReady, KFields, DispatchRequest
<1>2. r.schedtsk = t
  BY DEF ChangePriority
<1> QED
  BY <1>1, <1>2

\* The first task of a wait queue may be raised where it stands.
LEMMA RaiseHeadKeeps ==
    ASSUME NEW k, NEW X, KInv(k, X), NEW w \in WQUEUE, k.wait_queue[w] # <<>>,
           NEW p \in PRI, p <= k.priority[Head(k.wait_queue[w])],
           NEW n, DOMAIN n = DOMAIN k, n.ready = k.ready, n.tstat = k.tstat, n.tmevt = k.tmevt,
           n.wait_queue = k.wait_queue, n.dspreq = k.dspreq,
           n.priority = [k.priority EXCEPT ![Head(k.wait_queue[w])] = p]
    PROVE  /\ KInv(n, X) /\ Advances(k, n)
           /\ Head(k.wait_queue[w]) \in TASK \ X
           /\ Contains(k.wait_queue[w], Head(k.wait_queue[w]))
           /\ "WOBJ" \in k.tstat[Head(k.wait_queue[w])]
           /\ "WAITING" \in k.tstat[Head(k.wait_queue[w])]
<1> DEFINE q == k.wait_queue[w]
           t == Head(q)
<1>1. /\ KFields \subseteq DOMAIN k
      /\ k.tstat \in [TASK -> TSTAT] /\ k.priority \in [TASK -> PRI] /\ k.tmevt \in SUBSET TASK
      /\ ReadyInv(k.ready, Run(k.tstat) \ X, k.priority)
      /\ QueuesHold(k.wait_queue, k.tstat, X) /\ QueuesSorted(k.wait_queue, k.priority)
      /\ \A u \in TASK \ X : TcbOkK(k, u)
      /\ \A u \in X : u \notin k.tmevt
  BY DEF KInv
<1>2. q \in Seq(TASK) /\ 1 \in 1 .. Len(q) /\ t = q[1] /\ t \in TASK /\ Distinct(q)
  BY <1>1 DEF QueuesHold
<1>3. Contains(q, t)
  BY <1>2 DEF Contains
<1>4. t \notin X /\ "WOBJ" \in k.tstat[t] /\ k.tstat[t] \in TSTAT
  BY <1>1, <1>2, <1>3 DEF QueuesHold
<1>5. "WAITING" \in k.tstat[t] /\ "RUNNABLE" \notin k.tstat[t] /\ k.tstat[t] # {}
  BY <1>4 DEF TSTAT
<1>6. n.priority \in [TASK -> PRI] /\ \A u \in TASK \ {t} : n.priority[u] = k.priority[u]
  BY <1>1, <1>2
<1>7. ReadyInv(n.ready, Run(n.tstat) \ X, n.priority)
  <2>1. Run(k.tstat) \ X \in SUBSET TASK /\ \A u \in Run(k.tstat) \ X : n.priority[u] = k.priority[u]
    BY <1>5, <1>6 DEF Run
  <2> QED
    BY <2>1, <1>1, <1>6, ReadyInvPriority
<1>8. QueuesSorted(n.wait_queue, n.priority)
  <2> SUFFICES ASSUME NEW v \in TaTpri
               PROVE  Sorted(k.wait_queue[v], n.priority)
    BY DEF QueuesSorted
  <2>1. v \in WQUEUE /\ k.wait_queue[v] \in Seq(TASK) /\ Sorted(k.wait_queue[v], k.priority)
    BY <1>1, TaTpriAssumption DEF QueuesHold, QueuesSorted
  <2>2. CASE v # w
    <3>1. ~Contains(k.wait_queue[v], t)
      BY <2>1, <2>2, <1>1, <1>2, <1>3 DEF QueuesHold
    <3>2. n.priority = [k.priority EXCEPT ![t] = p]
      OBVIOUS
    <3>3. k.priority \in [TASK -> PRI]
      BY <1>1
    <3>4. Sorted(k.wait_queue[v], [k.priority EXCEPT ![t] = p])
      BY ONLY <2>1, <3>1, <3>3, SortedWithout, Zenon
    <3> QED
      BY <3>2, <3>4
  <2>3. CASE v = w
    <3> SUFFICES ASSUME NEW i \in 1 .. Len(q), NEW j \in 1 .. Len(q), i < j
                 PROVE  n.priority[q[i]] <= n.priority[q[j]]
      BY <2>3 DEF Sorted
    <3>1. q[i] \in TASK /\ q[j] \in TASK /\ q[j] # t
      <4>1. j # 1
        OBVIOUS
      <4> QED
        BY <4>1, <1>2 DEF Distinct
    <3>2. n.priority[q[j]] = k.priority[q[j]]
      BY <3>1, <1>6
    <3>3. k.priority[q[i]] <= k.priority[q[j]]
      BY <2>1, <2>3 DEF Sorted
    <3>4. CASE i = 1
      <4>1. n.priority[q[i]] = p
        BY <3>4, <1>1, <1>2
      <4>2. k.priority[t] <= k.priority[q[j]] /\ p <= k.priority[t]
        BY <3>3, <3>4, <1>2
      <4>3. p \in Nat /\ k.priority[t] \in Nat /\ k.priority[q[j]] \in Nat
        BY <1>1, <1>2, <3>1 DEF PRI
      <4> QED
        BY <4>1, <4>2, <4>3, <3>2
    <3>5. CASE i # 1
      <4>1. q[i] # t
        BY <3>5, <1>2 DEF Distinct
      <4> QED
        BY <4>1, <3>1, <3>2, <3>3, <1>6
    <3> QED
      BY <3>4, <3>5
  <2> QED
    BY <2>2, <2>3
<1>9. ASSUME NEW u \in TASK \ X
      PROVE  TcbOkK(n, u)
  <2>1. TcbOkK(k, u)
    BY <1>1
  <2>2. k.tstat[u] = {} => n.priority[u] = k.priority[u]
    BY <1>5, <1>6
  <2> QED
    BY <2>1, <2>2 DEF TcbOkK
<1>10. KInv(n, X)
  BY <1>1, <1>6, <1>7, <1>8, <1>9 DEF KInv
<1>11. Advances(k, n)
  BY DEF Advances
<1> QED
  BY <1>2, <1>3, <1>4, <1>5, <1>10, <1>11

-----------------------------------------------------------------------------
\* For every object: the calls that release waiting tasks and then dispatch

\* What a record means to KInv and Advances is in its fields.
LEMMA SameKFields ==
    ASSUME NEW k, NEW X, KInv(k, X), NEW n, KFields \subseteq DOMAIN n,
           n.ready = k.ready, n.tstat = k.tstat, n.priority = k.priority, n.tmevt = k.tmevt,
           n.wait_queue = k.wait_queue
    PROVE  KInv(n, X)
  BY DEF KInv, TcbOkK

\* n differs from k only in fields that are not the scheduler's.
SameK(k, n) ==
    /\ DOMAIN n = DOMAIN k
    /\ n.ready = k.ready /\ n.tstat = k.tstat /\ n.priority = k.priority
    /\ n.tmevt = k.tmevt /\ n.wait_queue = k.wait_queue /\ n.dspreq = k.dspreq

\* A function may first write fields of its own object.
LEMMA SameKKeeps ==
    ASSUME NEW k, NEW X, KInv(k, X), NEW n, SameK(k, n)
    PROVE  KInv(n, X) /\ Advances(k, n)
<1>1. KFields \subseteq DOMAIN n
  BY DEF KInv, SameK
<1>2. KInv(n, X)
  BY <1>1, SameKFields DEF SameK
<1>3. Advances(k, n)
  BY DEF SameK, Advances
<1> QED
  BY <1>2, <1>3

\* The first task of the queue w waits no longer.
FirstReleased(k, n, w) ==
    /\ KInv(n, {}) /\ Advances(k, n) /\ n.priority = k.priority
    /\ n.wait_queue = [k.wait_queue EXCEPT ![w] = Tail(@)]
    /\ \A f \in DOMAIN k \ KFields : n[f] = k[f]

\* wait_complete for the first task of a queue
LEMMA ReleaseFirstKeeps ==
    ASSUME NEW k, KInv(k, {}), NEW w \in WQUEUE, k.wait_queue[w] # <<>>
    PROVE  FirstReleased(k, WaitRelease(k, Head(k.wait_queue[w])), w)
<1> DEFINE q == k.wait_queue[w]
           t == Head(q)
           n == WaitRelease(k, t)
<1>1. k.tstat \in [TASK -> TSTAT] /\ QueuesHold(k.wait_queue, k.tstat, {})
  BY DEF KInv
<1>2. q \in Seq(TASK) /\ Distinct(q) /\ q # <<>> /\ k.wait_queue \in [WQUEUE -> Seq(TASK)]
  BY <1>1 DEF QueuesHold
<1>3. t \in TASK /\ Len(q) \in Nat /\ Len(q) >= 1 /\ q[1] = t
  BY <1>2
<1>4. Contains(q, t) /\ 1 \in 1 .. Len(q)
  BY <1>3 DEF Contains
<1>5. "WAITING" \in k.tstat[t]
  <2>1. "WOBJ" \in k.tstat[t] /\ k.tstat[t] \in TSTAT
    BY <1>1, <1>3, <1>4 DEF QueuesHold
  <2> QED
    BY <2>1 DEF TSTAT
<1>6. WaitReleased(k, n, {}, t)
  BY <1>3, <1>5, WaitReleaseKeeps
<1>7. Delete(q, t) = Tail(q)
  <2>1. /\ Delete(q, t) \in Seq(TASK) /\ Len(Delete(q, t)) = Len(q) - 1
        /\ \A i \in 1 .. Len(q) - 1 : Delete(q, t)[i] = IF i < 1 THEN q[i] ELSE q[i + 1]
    BY <1>2, <1>3, <1>4, DeleteProps
  <2>2. /\ Tail(q) \in Seq(TASK) /\ Len(Tail(q)) = Len(q) - 1
        /\ \A i \in 1 .. Len(q) - 1 : Tail(q)[i] = q[i + 1]
    BY <1>2
  <2> DEFINE a == Delete(q, t)
             b == Tail(q)
  <2> HIDE DEF a, b, q, t
  <2>3. a \in Seq(TASK) /\ b \in Seq(TASK) /\ Len(a) = Len(b) /\ Len(b) = Len(q) - 1
    BY <2>1, <2>2 DEF a, b
  <2>4. \A i \in 1 .. Len(b) : a[i] = b[i]
    BY <2>1, <2>2, <2>3, <1>3 DEF a, b
  <2>5. a = b
    BY ONLY <2>3, <2>4
  <2> QED
    BY <2>5 DEF a, b
<1>8. ASSUME NEW v \in WQUEUE
      PROVE  Unlinked(k.wait_queue[v], t) = IF v = w THEN Tail(q) ELSE k.wait_queue[v]
  BY <1>1, <1>3, <1>4, <1>7 DEF QueuesHold, Unlinked
<1>9. n.wait_queue = [k.wait_queue EXCEPT ![w] = Tail(@)]
  <2>1. n.wait_queue = [v \in WQUEUE |-> Unlinked(k.wait_queue[v], t)]
    BY <1>6 DEF WaitReleased
  <2> QED
    BY <2>1, <1>8, <1>2
<1> QED
  BY <1>6, <1>9 DEF WaitReleased, FirstReleased

\* A call that advances from the present state, and commits, keeps everything.
LEMMA AdvanceKeeps ==
    ASSUME IInv, WaitInv, NEW a, a.ready = ready, a.tstat = tstat,
           NEW k, KInv(k, {}), Advances(a, k), Commit(k), UNCHANGED restVars
    PROVE  IInv' /\ WaitInv'
<1>1. /\ UNCHANGED <<exist, ipriority, actque, wupque, waifbd, modeVars>>
      /\ bpriority' \in [TASK -> PRI]
  BY DEF restVars, IInv, TcbInv
<1>2. runtsk # NoTask => runtsk \in TASK /\ "RUNNABLE" \in tstat[runtsk]
  BY DEF IInv, CpuInv, RunningTaskIsRunnable, Runnable
<1>3. runtsk # NoTask => "RUNNABLE" \in k.tstat[runtsk]
  BY <1>2 DEF Advances
<1> QED
  BY <1>1, <1>3, CommitKeeps DEF Advances

\* The fields of KState
LEMMA KStateFields ==
    /\ KFields \subseteq DOMAIN KState
    /\ KState.ready = ready /\ KState.tstat = tstat /\ KState.priority = priority
    /\ KState.tmevt = tmevt /\ KState.wait_queue = wait_queue /\ KState.dspreq = FALSE
  BY DEF KState, KFields

\* A task that ends itself is in no wait queue.
LEMMA ExtTskQueuesKeeps ==
    ASSUME IInv, WaitInv, ExtTsk, wait_queue' = wait_queue
    PROVE  IInv' /\ WaitInv'
<1> DEFINE t == runtsk
<1>1. IInv'
  BY ExtTskInv
<1>2. /\ t \in TASK /\ "RUNNABLE" \in tstat[t]
      /\ tstat' = [tstat EXCEPT ![t] = IF actque[t] THEN {"RUNNABLE"} ELSE {}]
      /\ priority' = [priority EXCEPT ![t] = ipriority[t]]
  BY TaskContext DEF ExtTsk, MakeDormant, RunnableTasks, Runnable
<1>3. /\ tstat \in [TASK -> TSTAT] /\ priority \in [TASK -> PRI]
      /\ QueuesHold(wait_queue, tstat, {}) /\ QueuesSorted(wait_queue, priority)
  BY DEF IInv, TcbInv, WaitInv
<1>4. "WOBJ" \notin tstat[t] /\ "WOBJ" \notin tstat'[t]
  <2>1. tstat[t] \in TSTAT
    BY <1>2, <1>3
  <2>2. "WOBJ" \notin tstat[t]
    BY <2>1, <1>2 DEF TSTAT
  <2> QED
    BY <2>2, <1>2, <1>3
<1>5. \A u \in TASK : "WOBJ" \in tstat'[u] <=> "WOBJ" \in tstat[u]
  BY <1>2, <1>3, <1>4
<1>6. \A w \in WQUEUE : ~Contains(wait_queue[w], t)
  BY <1>2, <1>3, <1>4 DEF QueuesHold
<1>7. QueuesHold(wait_queue', tstat', {})
  BY <1>3, <1>5 DEF QueuesHold
<1>8. QueuesSorted(wait_queue', priority')
  <2>1. ASSUME NEW w \in TaTpri
        PROVE  Sorted(wait_queue[w], priority')
    <3>1. w \in WQUEUE /\ wait_queue[w] \in Seq(TASK) /\ Sorted(wait_queue[w], priority)
      BY <1>3, TaTpriAssumption DEF QueuesHold, QueuesSorted
    <3> QED
      BY <3>1, <1>2, <1>3, <1>6, SortedWithout
  <2> QED
    BY <2>1 DEF QueuesSorted
<1> QED
  BY <1>1, <1>7, <1>8 DEF WaitInv

\* What a step does to the wait queues when t leaves them, or moves in one of
\* them because its priority changes.
Leaves(t) == wait_queue' = [w \in WQUEUE |-> Unlinked(wait_queue[w], t)]

Moves(t) ==
    wait_queue' = [w \in WQUEUE |->
                      IF w \in TaTpri /\ Contains(wait_queue[w], t)
                      THEN QueueInsertTpri(Delete(wait_queue[w], t), t, priority')
                      ELSE wait_queue[w]]

\* ter_tsk where no task holds a mutex
LEMMA TerTskQueuedKeeps ==
    ASSUME IInv, WaitInv, NEW t \in TASK, TerTskQueued(t)
    PROVE  IInv' /\ WaitInv' /\ Leaves(t)
<1> DEFINE l == LeaveQueues(KState, t)
           n == MakeDormantK(l, t)
<1>1. /\ tstat' = n.tstat /\ priority' = n.priority /\ tmevt' = n.tmevt
      /\ wait_queue' = n.wait_queue /\ Reschedule(n.ready, n.dspreq)
      /\ DormantFields(t) /\ UNCHANGED modeVars /\ nest = 0 /\ t \in exist /\ t # runtsk
  BY DEF TerTskQueued, Commit, TskCtxUnl
<1>2. KInv(KState, {})
  BY KStateInv
<1>3. QueuesLeft(KState, l, t)
  BY <1>2, LeaveQueuesKeeps
<1>4. /\ "RUNNABLE" \in tstat[t] => l.wait_queue = wait_queue
      /\ "RUNNABLE" \notin tstat[t] /\ "WAITING" \notin tstat[t] => l = KState
      /\ "RUNNABLE" \notin tstat[t] /\ "WAITING" \in tstat[t] =>
           l.wait_queue = [w \in WQUEUE |-> Unlinked(wait_queue[w], t)]
  BY LeaveQueuesFields, KStateFields
<1> HIDE DEF l
<1>5. KInv(l, {t}) /\ l.dspreq = FALSE /\ l.tstat = tstat
      /\ (ready.schedtsk # t => l.ready.schedtsk = ready.schedtsk)
  BY <1>3, KStateFields DEF QueuesLeft
<1>6. n = MakeDormantK(l, t)
  OBVIOUS
<1> HIDE DEF n
<1>7. /\ TcbInv' /\ WaitInv' /\ ReadyInv(n.ready, RunnableTasks', priority')
      /\ n.wait_queue = l.wait_queue
      /\ n.ready.schedtsk # l.ready.schedtsk => n.dspreq
      /\ \A u \in TASK \ {t} : n.tstat[u] = tstat[u]
  BY <1>1, <1>5, <1>6, MakeDormantKeeps DEF IInv
<1>8. IInv /\ (dspflg => runtsk = ready.schedtsk) /\ runtsk \in RunnableTasks
  BY <1>1, TaskContext
<1>9. runtsk \in RunnableTasks'
  BY <1>1, <1>7, <1>8 DEF RunnableTasks, Runnable
<1>10. ModeInv' /\ dspflg' = dspflg
  BY <1>1, <1>8, ModeUnchanged DEF IInv
<1>11. dspflg /\ n.ready.schedtsk # ready.schedtsk => n.dspreq
  BY <1>1, <1>5, <1>7, <1>8
<1>12. QueueInv' /\ CpuInv'
  BY <1>1, <1>7, <1>8, <1>9, <1>10, <1>11, RescheduleInv
<1>13. IInv'
  BY <1>7, <1>10, <1>12 DEF IInv
<1>14. Leaves(t)
  <2>1. tstat[t] \in TSTAT /\ QueuesHold(wait_queue, tstat, {})
    BY DEF IInv, TcbInv, WaitInv
  <2>2. CASE "RUNNABLE" \notin tstat[t] /\ "WAITING" \in tstat[t]
    BY <2>2, <1>1, <1>4, <1>7 DEF Leaves
  <2>3. CASE ~("RUNNABLE" \notin tstat[t] /\ "WAITING" \in tstat[t])
    <3>1. "WOBJ" \notin tstat[t]
      BY <2>1, <2>3 DEF TSTAT
    <3>2. \A w \in WQUEUE : Unlinked(wait_queue[w], t) = wait_queue[w]
      BY <2>1, <3>1 DEF QueuesHold, Unlinked
    <3>3. wait_queue' = wait_queue
      BY <2>3, <1>1, <1>4, <1>7, KStateFields
    <3>4. wait_queue = [w \in WQUEUE |-> wait_queue[w]]
      BY <2>1 DEF QueuesHold
    <3> QED
      BY <3>2, <3>3, <3>4 DEF Leaves
  <2> QED
    BY <2>2, <2>3
<1> QED
  BY <1>7, <1>13, <1>14

\* chg_pri where no task holds a mutex
LEMMA ChgPriQueuedKeeps ==
    ASSUME IInv, WaitInv, NEW t \in TASK, NEW p \in PRI, ChgPriQueued(t, p)
    PROVE  /\ IInv' /\ WaitInv' /\ Moves(t)
           /\ \A w \in WQUEUE, u \in TASK :
                 Contains(wait_queue'[w], u) <=> Contains(wait_queue[w], u)
<1> DEFINE k == ChangePriorityK(KState, t, p, FALSE)
<1>1. /\ Commit(k) /\ tstat[t] # {} /\ bpriority' = [bpriority EXCEPT ![t] = p]
      /\ UNCHANGED <<exist, ipriority, actque, wupque, waifbd, modeVars>>
  BY DEF ChgPriQueued, Dormant
<1>2. KInv(KState, {}) /\ KState.tstat = tstat /\ KState.wait_queue = wait_queue
      /\ KState.ready = ready /\ KState.priority = priority
  BY KStateInv, KStateFields
<1>3. FALSE \in BOOLEAN
  OBVIOUS
<1>4. PriorityChanged(KState, k, {}, t, p)
  BY <1>1, <1>2, <1>3, ChangePriorityKeeps
<1>5. "RUNNABLE" \notin tstat[t] =>
        k.wait_queue = [w \in WQUEUE |->
                          IF w \in TaTpri /\ Contains(wait_queue[w], t)
                          THEN QueueInsertTpri(Delete(wait_queue[w], t), t, [priority EXCEPT ![t] = p])
                          ELSE wait_queue[w]]
  <2>1. KFields \subseteq DOMAIN KState /\ KState.priority = priority
    BY KStateFields
  <2> DEFINE a == KState
  <2>2. a.tstat = tstat /\ a.wait_queue = wait_queue /\ a.priority = priority /\ k = ChangePriorityK(a, t, p, FALSE)
    BY <1>2
  <2> HIDE DEF a, k
  <2>3. KFields \subseteq DOMAIN a
    BY <2>1 DEF a
  <2>4. "RUNNABLE" \notin a.tstat[t] =>
        k.wait_queue = [w \in WQUEUE |->
                          IF w \in TaTpri /\ Contains(a.wait_queue[w], t)
                          THEN QueueInsertTpri(Delete(a.wait_queue[w], t), t, [a.priority EXCEPT ![t] = p])
                          ELSE a.wait_queue[w]]
    BY ONLY <2>2, <2>3, Zenon DEF ChangePriorityK, KFields
  <2> QED
    BY <2>2, <2>4
<1> HIDE DEF k
<1>6. KInv(k, {}) /\ Advances(KState, k) /\ k.priority = [priority EXCEPT ![t] = p] /\ k.tstat = tstat
      /\ ("RUNNABLE" \in tstat[t] => k.wait_queue = wait_queue)
  BY <1>2, <1>4 DEF PriorityChanged
<1>7. runtsk # NoTask => "RUNNABLE" \in k.tstat[runtsk]
  BY <1>6 DEF IInv, CpuInv, RunningTaskIsRunnable, Runnable
<1>8. bpriority' \in [TASK -> PRI]
  BY <1>1 DEF IInv, TcbInv
<1>9. IInv' /\ WaitInv'
  BY <1>1, <1>2, <1>6, <1>7, <1>8, CommitKeeps DEF Advances
<1>10. Moves(t)
  <2>1. tstat[t] \in TSTAT /\ QueuesHold(wait_queue, tstat, {})
    BY DEF IInv, TcbInv, WaitInv
  <2>2. wait_queue' = k.wait_queue /\ priority' = [priority EXCEPT ![t] = p]
    BY <1>1, <1>6 DEF Commit
  <2>3. CASE "RUNNABLE" \notin tstat[t]
    BY <2>2, <2>3, <1>5 DEF Moves
  <2>4. CASE "RUNNABLE" \in tstat[t]
    <3>1. "WOBJ" \notin tstat[t]
      BY <2>1, <2>4 DEF TSTAT
    <3>2. \A w \in WQUEUE : ~Contains(wait_queue[w], t)
      BY <2>1, <3>1 DEF QueuesHold
    <3>3. wait_queue = [w \in WQUEUE |-> wait_queue[w]]
      BY <2>1 DEF QueuesHold
    <3> QED
      BY <2>2, <2>4, <3>2, <3>3, <1>6 DEF Moves
  <2> QED
    BY <2>3, <2>4
<1>11. \A w \in WQUEUE, u \in TASK : Contains(wait_queue'[w], u) <=> Contains(wait_queue[w], u)
  BY <1>1, <1>2, <1>4 DEF PriorityChanged, Commit
<1> QED
  BY <1>9, <1>10, <1>11

\* A task that waits is released, ended or given another priority: it leaves the
\* wait queues or moves in one, and no task enters one.
LEMMA WaitingTaskStepKeeps ==
    ASSUME IInv, WaitInv, NEW t \in TASK, WaitingTaskStep(t)
    PROVE  /\ IInv' /\ WaitInv' /\ (Leaves(t) \/ Moves(t))
           /\ \A w \in WQUEUE, u \in TASK :
                 Contains(wait_queue'[w], u) => Contains(wait_queue[w], u)
<1>1. CASE RelWaiQueued(t) \/ WaitTmoutQueued(t) \/ TerTskQueued(t)
  <2>1. IInv' /\ WaitInv' /\ Leaves(t)
    <3>1. CASE RelWaiQueued(t) \/ WaitTmoutQueued(t)
      BY <3>1, ReleaseQueuedKeeps DEF RelWaiQueued, WaitTmoutQueued, Leaves
    <3>2. CASE TerTskQueued(t)
      BY <3>2, TerTskQueuedKeeps
    <3> QED
      BY <3>1, <3>2, <1>1
  <2>2. ASSUME NEW w \in WQUEUE, NEW u \in TASK, Contains(wait_queue'[w], u)
        PROVE  Contains(wait_queue[w], u)
    <3>1. wait_queue[w] \in Seq(TASK) /\ Distinct(wait_queue[w])
      BY DEF WaitInv, QueuesHold
    <3>2. wait_queue'[w] = Unlinked(wait_queue[w], t)
      BY <2>1 DEF Leaves
    <3> QED
      BY <3>1, <3>2, <2>2, UnlinkedKeeps
  <2> QED
    BY <2>1, <2>2
<1>2. CASE \E p \in PRI : ChgPriQueued(t, p)
  BY <1>2, ChgPriQueuedKeeps
<1> QED
  BY <1>1, <1>2 DEF WaitingTaskStep

-----------------------------------------------------------------------------
\* The places of the tasks in the queues

\* Two sequences with the same entries are the same.
LEMMA SameSequence ==
    ASSUME NEW A, NEW a \in Seq(A), NEW b \in Seq(A), Len(a) = Len(b),
           \A i \in 1 .. Len(a) : a[i] = b[i]
    PROVE  a = b
  OBVIOUS

\* The entries of InsertAt(s, k, x)
LEMMA InsertAtFacts ==
    ASSUME NEW A, NEW s \in Seq(A), NEW k \in 1 .. Len(s) + 1, NEW x \in A
    PROVE  LET n == InsertAt(s, k, x)
           IN  /\ n \in Seq(A) /\ Len(n) = Len(s) + 1
               /\ \A i \in 1 .. Len(s) + 1 :
                     n[i] = IF i < k THEN s[i] ELSE IF i = k THEN x ELSE s[i - 1]
<1> DEFINE l == SubSeq(s, 1, k - 1)
           h == SubSeq(s, k, Len(s))
           lx == l \o <<x>>
           n == InsertAt(s, k, x)
<1>1. k \in Nat /\ Len(s) \in Nat /\ 1 <= k /\ k <= Len(s) + 1
  OBVIOUS
<1>2. l \in Seq(A) /\ Len(l) = k - 1 /\ \A i \in 1 .. k - 1 : l[i] = s[i]
  BY <1>1
<1>3. h \in Seq(A) /\ Len(h) = Len(s) - k + 1 /\ \A i \in 1 .. Len(s) - k + 1 : h[i] = s[i + k - 1]
  BY <1>1
<1>4. n = lx \o h
  BY DEF InsertAt
<1> HIDE DEF l, h, n
<1>5. lx \in Seq(A) /\ Len(lx) = k /\ lx[k] = x /\ \A i \in 1 .. k - 1 : lx[i] = s[i]
  BY <1>1, <1>2
<1> HIDE DEF lx
<1>6. /\ lx \o h \in Seq(A) /\ Len(lx \o h) = Len(lx) + Len(h)
      /\ \A i \in 1 .. Len(lx) : (lx \o h)[i] = lx[i]
      /\ \A i \in 1 .. Len(h) : (lx \o h)[i + Len(lx)] = h[i]
  BY ONLY <1>3, <1>5, ConcatFacts
<1>7. n \in Seq(A) /\ Len(n) = Len(s) + 1
  BY <1>1, <1>3, <1>4, <1>5, <1>6
<1>8. ASSUME NEW i \in 1 .. Len(s) + 1
      PROVE  n[i] = IF i < k THEN s[i] ELSE IF i = k THEN x ELSE s[i - 1]
  <2>1. CASE i <= k
    BY <2>1, <1>1, <1>4, <1>5, <1>6
  <2>2. CASE i > k
    <3>1. i - k \in 1 .. Len(h) /\ (i - k) + Len(lx) = i /\ (i - k) + k - 1 = i - 1
      BY <2>2, <1>1, <1>3, <1>5
    <3>2. n[(i - k) + Len(lx)] = h[i - k]
      BY <3>1, <1>4, <1>6
    <3>3. h[i - k] = s[(i - k) + k - 1]
      BY <3>1, <1>3
    <3> QED
      BY <2>2, <3>1, <3>2, <3>3
  <2> QED
    BY <2>1, <2>2
<1> QED
  BY <1>7, <1>8 DEF n

\* The entries of RemoveAt(s, k)
LEMMA RemoveAtFacts ==
    ASSUME NEW A, NEW s \in Seq(A), NEW k \in 1 .. Len(s)
    PROVE  LET n == RemoveAt(s, k)
           IN  /\ n \in Seq(A) /\ Len(n) = Len(s) - 1
               /\ \A i \in 1 .. Len(s) - 1 : n[i] = IF i < k THEN s[i] ELSE s[i + 1]
<1> DEFINE l == SubSeq(s, 1, k - 1)
           h == SubSeq(s, k + 1, Len(s))
           n == RemoveAt(s, k)
<1>1. k \in Nat /\ Len(s) \in Nat /\ 1 <= k /\ k <= Len(s)
  OBVIOUS
<1>2. l \in Seq(A) /\ Len(l) = k - 1 /\ \A i \in 1 .. k - 1 : l[i] = s[i]
  BY <1>1
<1>3. h \in Seq(A) /\ Len(h) = Len(s) - k /\ \A i \in 1 .. Len(s) - k : h[i] = s[i + k]
  BY <1>1
<1>4. n = l \o h
  BY DEF RemoveAt
<1> HIDE DEF l, h, n
<1>5. /\ l \o h \in Seq(A) /\ Len(l \o h) = Len(l) + Len(h)
      /\ \A i \in 1 .. Len(l) : (l \o h)[i] = l[i]
      /\ \A i \in 1 .. Len(h) : (l \o h)[i + Len(l)] = h[i]
  <2>1. l \in Seq(A) /\ h \in Seq(A)
    BY <1>2, <1>3
  <2> QED
    BY ONLY <2>1, ConcatFacts
<1>6. n \in Seq(A) /\ Len(n) = Len(s) - 1
  BY <1>1, <1>2, <1>3, <1>4, <1>5
<1>7. ASSUME NEW i \in 1 .. Len(s) - 1
      PROVE  n[i] = IF i < k THEN s[i] ELSE s[i + 1]
  <2>1. CASE i < k
    BY <2>1, <1>1, <1>2, <1>4, <1>5
  <2>2. CASE i >= k
    <3>1. i - (k - 1) \in 1 .. Len(h) /\ (i - (k - 1)) + Len(l) = i /\ (i - (k - 1)) + k = i + 1
      BY <2>2, <1>1, <1>2, <1>3
    <3>2. n[(i - (k - 1)) + Len(l)] = h[i - (k - 1)]
      BY <3>1, <1>4, <1>5
    <3>3. h[i - (k - 1)] = s[(i - (k - 1)) + k]
      BY <3>1, <1>3
    <3> QED
      BY <2>2, <3>1, <3>2, <3>3
  <2> QED
    BY <2>1, <2>2, <1>1
<1> QED
  BY <1>6, <1>7 DEF n

\* A task enters a queue at some place.
LEMMA QueueInsertPlace ==
    ASSUME NEW q \in Seq(TASK), NEW t \in TASK, NEW pri, NEW w
    PROVE  /\ \E k \in 1 .. Len(q) + 1 : QueueInsertTpri(q, t, pri) = InsertAt(q, k, t)
           /\ \E k \in 1 .. Len(q) + 1 : QueueInsert(w, q, t, pri) = InsertAt(q, k, t)
<1>1. \E k \in 1 .. Len(q) + 1 : Append(q, t) = InsertAt(q, k, t)
  <2>1. PICK k \in 1 .. Len(q) + 1 : k = Len(q) + 1
    OBVIOUS
  <2> DEFINE n == InsertAt(q, k, t)
             a == Append(q, t)
  <2>2. /\ n \in Seq(TASK) /\ Len(n) = Len(q) + 1
        /\ \A i \in 1 .. Len(q) + 1 : n[i] = IF i < k THEN q[i] ELSE IF i = k THEN t ELSE q[i - 1]
    BY InsertAtFacts
  <2>3. /\ a \in Seq(TASK) /\ Len(a) = Len(q) + 1 /\ Len(q) \in Nat
        /\ a[Len(q) + 1] = t /\ \A i \in 1 .. Len(q) : a[i] = q[i]
    OBVIOUS
  <2> HIDE DEF n, a
  <2>4. \A i \in 1 .. Len(a) : a[i] = n[i]
    BY <2>1, <2>2, <2>3
  <2>5. a = n
    BY <2>2, <2>3, <2>4, SameSequence
  <2> QED
    BY <2>5 DEF a, n
<1>2. \E k \in 1 .. Len(q) + 1 : QueueInsertTpri(q, t, pri) = InsertAt(q, k, t)
  <2> DEFINE I == {i \in 1 .. Len(q) : pri[t] < pri[q[i]]}
  <2>1. CASE I = {}
    BY <1>1, <2>1 DEF QueueInsertTpri, SelectInSeq
  <2>2. CASE I # {}
    <3>1. I \in SUBSET Nat
      OBVIOUS
    <3>2. PICK k \in I : \A i \in I : k <= i
      BY <2>2, <3>1, LeastNumber
    <3>3. Min(I) = k
      <4>1. \A x \in I : (\A i \in I : x <= i) => x = k
        BY <3>2
      <4> QED
        BY <3>2, <4>1 DEF Min
    <3>4. k # 0 /\ k \in 1 .. Len(q) + 1
      BY <3>2
    <3>5. QueueInsertTpri(q, t, pri) = InsertAt(q, k, t)
      BY <2>2, <3>3, <3>4 DEF QueueInsertTpri, SelectInSeq
    <3> QED
      BY <3>4, <3>5
  <2> QED
    BY <2>1, <2>2
<1> QED
  BY <1>1, <1>2 DEF QueueInsert

\* A task leaves a queue from the place it had.
LEMMA DeletePlace ==
    ASSUME NEW q \in Seq(TASK), Distinct(q), NEW t, Contains(q, t)
    PROVE  \E k \in 1 .. Len(q) : q[k] = t /\ Delete(q, t) = RemoveAt(q, k)
<1>1. PICK k \in 1 .. Len(q) : q[k] = t
  BY DEF Contains
<1> DEFINE n == Delete(q, t)
           m == RemoveAt(q, k)
<1>2. /\ n \in Seq(TASK) /\ Len(n) = Len(q) - 1
      /\ \A i \in 1 .. Len(q) - 1 : n[i] = IF i < k THEN q[i] ELSE q[i + 1]
  BY <1>1, DeleteProps
<1>3. /\ m \in Seq(TASK) /\ Len(m) = Len(q) - 1
      /\ \A i \in 1 .. Len(q) - 1 : m[i] = IF i < k THEN q[i] ELSE q[i + 1]
  BY RemoveAtFacts
<1> HIDE DEF n, m
<1>4. n = m
  BY <1>2, <1>3, SameSequence
<1> QED
  BY <1>1, <1>4 DEF n, m

\* The running task is in no queue.
LEMMA RunningWaitsNowhere ==
    ASSUME IInv, WaitInv, nest = 0
    PROVE  runtsk \in TASK /\ \A w \in WQUEUE : ~Contains(wait_queue[w], runtsk)
<1>1. runtsk \in TASK /\ "RUNNABLE" \in tstat[runtsk]
  BY TaskContext DEF RunnableTasks, Runnable
<1>2. tstat[runtsk] \in TSTAT
  BY <1>1 DEF IInv, TcbInv
<1>3. "WOBJ" \notin tstat[runtsk]
  BY <1>1, <1>2 DEF TSTAT
<1> QED
  BY <1>1, <1>3 DEF WaitInv, QueuesHold

\* A queue that loses a task, or in which a task gets another place
QueueWithout(q, t, n) == \E k \in 1 .. Len(q) : q[k] = t /\ n = RemoveAt(q, k)

QueueReordered(q, t, n) ==
    \E k, j \in 1 .. Len(q) : q[k] = t /\ n = InsertAt(RemoveAt(q, k), j, t)

\* A task leaves, or moves in, the one queue it waits in.
LEMMA OneQueueChanges ==
    ASSUME WaitInv, NEW t \in TASK, Leaves(t) \/ Moves(t), NEW w \in WQUEUE, Contains(wait_queue[w], t)
    PROVE  /\ \A v \in WQUEUE \ {w} : wait_queue'[v] = wait_queue[v]
           /\ \/ QueueWithout(wait_queue[w], t, wait_queue'[w])
              \/ w \in TaTpri /\ QueueReordered(wait_queue[w], t, wait_queue'[w])
              \/ wait_queue'[w] = wait_queue[w]
<1> DEFINE q == wait_queue[w]
<1>1. /\ q \in Seq(TASK) /\ Distinct(q)
      /\ \A v \in WQUEUE \ {w} : ~Contains(wait_queue[v], t)
  BY DEF WaitInv, QueuesHold
<1>2. PICK k \in 1 .. Len(q) : q[k] = t /\ Delete(q, t) = RemoveAt(q, k)
  BY <1>1, DeletePlace
<1>3. CASE Leaves(t)
  <2>1. \A v \in WQUEUE : wait_queue'[v] = Unlinked(wait_queue[v], t)
    BY <1>3 DEF Leaves
  <2>2. wait_queue'[w] = RemoveAt(q, k)
    BY <2>1, <1>2 DEF Unlinked
  <2> QED
    BY <2>1, <2>2, <1>1, <1>2 DEF Unlinked, QueueWithout
<1>4. CASE Moves(t)
  <2> DEFINE p == priority'
             r == RemoveAt(q, k)
             n == QueueInsertTpri(r, t, p)
  <2>1. /\ \A v \in WQUEUE \ {w} : wait_queue'[v] = wait_queue[v]
        /\ w \notin TaTpri => wait_queue'[w] = q
        /\ w \in TaTpri => wait_queue'[w] = n
    BY <1>1, <1>2, <1>4 DEF Moves
  <2>2. r \in Seq(TASK) /\ Len(r) + 1 = Len(q)
    BY <1>1, RemoveAtFacts
  <2> HIDE DEF p, r
  <2>3. \E j \in 1 .. Len(r) + 1 : n = InsertAt(r, j, t)
    BY <2>2, QueueInsertPlace
  <2>4. QueueReordered(q, t, n)
    BY <2>2, <2>3, <1>2 DEF QueueReordered, r
  <2> HIDE DEF n
  <2> QED
    BY <2>1, <2>4
<1> QED
  BY <1>3, <1>4

\* A task that is in no queue moves in none.
LEMMA NoQueueChanges ==
    ASSUME WaitInv, NEW t \in TASK, Leaves(t) \/ Moves(t),
           \A w \in WQUEUE : ~Contains(wait_queue[w], t)
    PROVE  wait_queue' = wait_queue
<1>1. wait_queue = [w \in WQUEUE |-> wait_queue[w]]
  BY DEF WaitInv, QueuesHold
<1>2. CASE Leaves(t)
  BY <1>1, <1>2 DEF Leaves, Unlinked
<1>3. CASE Moves(t)
  BY <1>1, <1>3 DEF Moves
<1> QED
  BY <1>2, <1>3


-----------------------------------------------------------------------------
\* What the steps of an object with one wait queue do to it

\* A call that does not touch the scheduler keeps its invariants.
LEMMA NothingMoves ==
    ASSUME IInv, WaitInv, UNCHANGED <<vars, wait_queue>>
    PROVE  IInv' /\ WaitInv'
<1>1. IInv'
  BY StutterInv
<1>2. WaitInv'
  BY WaitUnchanged DEF vars, tcbVars, Queued
<1> QED
  BY <1>1, <1>2

QueueBecomes(w, n) == wait_queue' = [wait_queue EXCEPT ![w] = n]

\* The first task that waits is served, then the call dispatches.
LEMMA FirstIsServed ==
    ASSUME IInv, WaitInv, NEW w \in WQUEUE, wait_queue[w] # <<>>,
           Commit(WaitRelease(KState, Head(wait_queue[w]))), UNCHANGED restVars
    PROVE  IInv' /\ WaitInv' /\ QueueBecomes(w, Tail(wait_queue[w]))
<1> DEFINE k == WaitRelease(KState, Head(wait_queue[w]))
           a == KState
<1>1. /\ KInv(a, {}) /\ a.ready = ready /\ a.tstat = tstat /\ a.wait_queue = wait_queue
      /\ Commit(k) /\ k = WaitRelease(a, Head(a.wait_queue[w])) /\ a.wait_queue[w] # <<>>
  BY KStateInv, KStateFields
<1> HIDE DEF k, a
<1>2. FirstReleased(a, k, w)
  BY <1>1, ReleaseFirstKeeps
<1>3. KInv(k, {}) /\ Advances(a, k) /\ k.wait_queue = [wait_queue EXCEPT ![w] = Tail(@)]
  BY <1>1, <1>2 DEF FirstReleased
<1>4. IInv' /\ WaitInv'
  BY <1>1, <1>3, AdvanceKeeps
<1> QED
  BY <1>1, <1>3, <1>4 DEF Commit, QueueBecomes

\* All tasks that wait are released, then the call dispatches.
LEMMA QueueIsEmptied ==
    ASSUME IInv, WaitInv, NEW w \in WQUEUE,
           Commit(InitWaitQueue(KState, w)), UNCHANGED restVars
    PROVE  IInv' /\ WaitInv' /\ QueueBecomes(w, <<>>)
<1> DEFINE k == InitWaitQueue(KState, w)
           a == KState
<1>1. /\ KInv(a, {}) /\ a.ready = ready /\ a.tstat = tstat /\ a.wait_queue = wait_queue
      /\ Commit(k) /\ k = InitWaitQueue(a, w)
  BY KStateInv, KStateFields
<1> HIDE DEF k, a
<1>2. QueueReleased(a, k, {}, w)
  BY <1>1, InitWaitQueueKeeps
<1>3. /\ KInv(k, {}) /\ Advances(a, k) /\ k.wait_queue[w] = <<>>
      /\ \A v \in WQUEUE \ {w} : k.wait_queue[v] = wait_queue[v]
  BY <1>1, <1>2 DEF QueueReleased
<1>4. IInv' /\ WaitInv'
  BY <1>1, <1>3, AdvanceKeeps
<1>5. k.wait_queue \in [WQUEUE -> Seq(TASK)] /\ wait_queue \in [WQUEUE -> Seq(TASK)]
  BY <1>3 DEF KInv, QueuesHold, WaitInv
<1>6. k.wait_queue = [wait_queue EXCEPT ![w] = <<>>]
  BY <1>3, <1>5
<1> QED
  BY <1>1, <1>4, <1>6 DEF Commit, QueueBecomes

\* The running task enters a queue at some place.
LEMMA RunningEnters ==
    ASSUME IInv, WaitInv, DispatchState, NEW w \in WQUEUE, NEW timed \in BOOLEAN,
           WobjMakeWait(w, timed), UNCHANGED restVars
    PROVE  /\ IInv' /\ WaitInv' /\ runtsk \in TASK
           /\ \A v \in WQUEUE : ~Contains(wait_queue[v], runtsk)
           /\ \E i \in 1 .. Len(wait_queue[w]) + 1 :
                 QueueBecomes(w, InsertAt(wait_queue[w], i, runtsk))
<1> DEFINE q == wait_queue[w]
<1>1. IInv' /\ WaitInv'
  BY WobjMakeWaitKeeps
<1>2. runtsk \in TASK /\ \A v \in WQUEUE : ~Contains(wait_queue[v], runtsk)
  <2>1. nest = 0
    BY DEF DispatchState, TskCtxUnl
  <2> QED
    BY <2>1, RunningWaitsNowhere
<1>3. q \in Seq(TASK)
  BY DEF WaitInv, QueuesHold
<1>4. PICK i \in 1 .. Len(q) + 1 : QueueInsert(w, q, runtsk, priority) = InsertAt(q, i, runtsk)
  BY <1>2, <1>3, QueueInsertPlace
<1>5. QueueBecomes(w, InsertAt(q, i, runtsk))
  BY <1>4 DEF WobjMakeWait, QueueBecomes
<1> QED
  BY <1>1, <1>2, <1>5

\* The steps of the waiting tasks and of the scheduler
QueueOtherStep ==
    \/ \E t \in TASK : WaitingTaskStep(t)
    \/ (ExtTsk \/ SchedulerStep) /\ UNCHANGED wait_queue

QueueLoses(w)    == \E i \in 1 .. Len(wait_queue[w]) : QueueBecomes(w, RemoveAt(wait_queue[w], i))
QueueReorders(w) ==
    \E i, j \in 1 .. Len(wait_queue[w]) :
        QueueBecomes(w, InsertAt(RemoveAt(wait_queue[w], i), j, wait_queue[w][i]))

\* They take at most one task out of its queue, or give it another place there.
LEMMA OtherStepQueues ==
    ASSUME IInv, WaitInv, QueueOtherStep
    PROVE  /\ IInv' /\ WaitInv'
           /\ \A w \in WQUEUE, u \in TASK : Contains(wait_queue'[w], u) => Contains(wait_queue[w], u)
           /\ \/ wait_queue' = wait_queue
              \/ \E w \in WQUEUE : QueueLoses(w) \/ (w \in TaTpri /\ QueueReorders(w))
<1>1. CASE (ExtTsk \/ SchedulerStep) /\ UNCHANGED wait_queue
  BY <1>1, ExtTskQueuesKeeps, SchedulerStepKeeps
<1>2. ASSUME NEW t \in TASK, WaitingTaskStep(t)
      PROVE  /\ IInv' /\ WaitInv'
             /\ \A w \in WQUEUE, u \in TASK :
                   Contains(wait_queue'[w], u) => Contains(wait_queue[w], u)
             /\ \/ wait_queue' = wait_queue
                \/ \E w \in WQUEUE : QueueLoses(w) \/ (w \in TaTpri /\ QueueReorders(w))
  <2>1. /\ IInv' /\ WaitInv' /\ (Leaves(t) \/ Moves(t))
        /\ \A w \in WQUEUE, u \in TASK : Contains(wait_queue'[w], u) => Contains(wait_queue[w], u)
    BY <1>2, WaitingTaskStepKeeps
  <2>2. CASE \A w \in WQUEUE : ~Contains(wait_queue[w], t)
    BY <2>1, <2>2, NoQueueChanges
  <2>3. ASSUME NEW w \in WQUEUE, Contains(wait_queue[w], t)
        PROVE  \/ wait_queue' = wait_queue
               \/ QueueLoses(w) \/ (w \in TaTpri /\ QueueReorders(w))
    <3> DEFINE q == wait_queue[w]
               n == wait_queue'[w]
    <3>1. /\ \A v \in WQUEUE \ {w} : wait_queue'[v] = wait_queue[v]
          /\ \/ QueueWithout(q, t, n)
             \/ w \in TaTpri /\ QueueReordered(q, t, n)
             \/ n = q
      BY <2>1, <2>3, OneQueueChanges
    <3>2. wait_queue \in [WQUEUE -> Seq(TASK)] /\ wait_queue' \in [WQUEUE -> Seq(TASK)]
      BY <2>1 DEF WaitInv, QueuesHold
    <3>3. ASSUME NEW m, n = m
          PROVE  QueueBecomes(w, m)
      BY <3>1, <3>2, <3>3 DEF QueueBecomes
    <3>4. CASE QueueWithout(q, t, n)
      BY <3>3, <3>4 DEF QueueWithout, QueueLoses
    <3>5. CASE w \in TaTpri /\ QueueReordered(q, t, n)
      BY <3>3, <3>5 DEF QueueReordered, QueueReorders
    <3>6. CASE n = q
      BY <3>1, <3>2, <3>6
    <3> QED
      BY <3>1, <3>4, <3>5, <3>6
  <2> QED
    BY <2>1, <2>2, <2>3
<1> QED
  BY <1>1, <1>2 DEF QueueOtherStep
=============================================================================
