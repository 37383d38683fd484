------------------------------ MODULE DataQueueProofs ------------------------------
(***************************************************************************)
(* The data queues for every set of tasks, of data and of data queues of   *)
(* any size: nobody waits in vain, and the scheduler and the buffers stay  *)
(* consistent while a call serves several tasks.                           *)
(***************************************************************************)
EXTENDS DataQueue, WaitObjectProofs, RingBufferProofs, SequenceTheorems

DFields == KFields \cup {"dtqcb", "delivered"}

\* Whoever waits for the data queue d has a reason to.
NoneInVain(cb, wq, d) ==
    /\ wq[Snd(d)] # <<>> => cb[d].count = Cap[d] /\ wq[Rcv(d)] = <<>>
    /\ wq[Rcv(d)] # <<>> => cb[d].count = 0

\* What holds of the record k between the functions of a call
DInv(k) ==
    /\ DFields \subseteq DOMAIN k
    /\ k.dtqcb = [d \in DTQ |-> k.dtqcb[d]]
    /\ \A d \in DTQ : RingOk(k.dtqcb[d], Cap[d])
    /\ \A d \in DTQ : NoneInVain(k.dtqcb, k.wait_queue, d)

\* The inductive invariant
DtqInv ==
    /\ IInv /\ WaitInv
    /\ DInv(DState)
    /\ dtqexist \in SUBSET DTQ
    /\ \A d \in DTQ \ dtqexist : wait_queue[Snd(d)] = <<>> /\ wait_queue[Rcv(d)] = <<>>
    /\ winfo \in [TASK -> DATA \cup {NoData}]
    /\ \A d \in DTQ, t \in TASK : Contains(wait_queue[Snd(d)], t) => winfo[t] \in DATA

-----------------------------------------------------------------------------
\* The wait queues of the data queues are distinct from one another.
LEMMA QueueNames ==
    /\ \A d \in DTQ : Snd(d) \in WQUEUE /\ Rcv(d) \in WQUEUE /\ Snd(d) # Rcv(d) /\ Cap[d] \in Nat
    /\ \A d, e \in DTQ : /\ Snd(d) # Rcv(e)
                         /\ (Snd(d) = Snd(e) <=> d = e) /\ (Rcv(d) = Rcv(e) <=> d = e)
    /\ \A d \in DTQ : Rcv(d) \notin TaTpri
  BY DtqAssumption DEF Snd, Rcv

\* The fields of DState
LEMMA DStateFields ==
    /\ DOMAIN DState = DFields /\ KFields \subseteq DOMAIN DState
    /\ DState.ready = ready /\ DState.tstat = tstat /\ DState.priority = priority
    /\ DState.tmevt = tmevt /\ DState.wait_queue = wait_queue /\ DState.dspreq = FALSE
    /\ DState.dtqcb = dtqcb /\ DState.delivered = <<>>
  BY DEF DState, DFields, KFields

\* The record a call on data queues starts with is in order.
LEMMA DStateInv ==
    ASSUME DtqInv
    PROVE  KInv(DState, {}) /\ DInv(DState)
<1>1. KInv(KState, {})
  BY KStateInv DEF DtqInv
<1>2. KInv(DState, {})
  BY <1>1, KStateFields, DStateFields, SameKFields
<1> QED
  BY <1>2 DEF DtqInv

\* A queue holds tasks, and somebody unless it is empty.
LEMMA QueueOfTasks ==
    ASSUME NEW k, KInv(k, {}), NEW w \in WQUEUE
    PROVE  /\ k.wait_queue[w] \in Seq(TASK) /\ k.wait_queue \in [WQUEUE -> Seq(TASK)]
           /\ Distinct(k.wait_queue[w])
           /\ k.wait_queue[w] # <<>> =>
                /\ Head(k.wait_queue[w]) \in TASK /\ Contains(k.wait_queue[w], Head(k.wait_queue[w]))
                /\ Tail(k.wait_queue[w]) \in Seq(TASK)
<1>1. k.wait_queue[w] \in Seq(TASK) /\ k.wait_queue \in [WQUEUE -> Seq(TASK)] /\ Distinct(k.wait_queue[w])
  BY DEF KInv, QueuesHold
<1> DEFINE q == k.wait_queue[w]
<1> HIDE DEF q
<1>2. q \in Seq(TASK)
  BY <1>1 DEF q
<1>3. q # <<>> => Head(q) \in TASK /\ Tail(q) \in Seq(TASK) /\ 1 \in 1 .. Len(q) /\ q[1] = Head(q)
  BY <1>2
<1> QED
  BY <1>1, <1>3 DEF q, Contains

-----------------------------------------------------------------------------
\* The functions that move data

\* A step of a call from the record k to n that leaves all queues in order
DMoved(k, n) == KInv(n, {}) /\ DInv(n) /\ Advances(k, n) /\ DOMAIN n = DOMAIN k

\* The first receiver waiting for d has got the datum.
HandedTo(k, n, d, x) ==
    /\ DMoved(k, n)
    /\ n.dtqcb = k.dtqcb
    /\ n.wait_queue = [k.wait_queue EXCEPT ![Rcv(d)] = Tail(@)]
    /\ n.delivered = Append(k.delivered, <<Head(k.wait_queue[Rcv(d)]), x>>)

\* send_data when a task waits to receive: the buffer is empty, and stays so.
LEMMA HandOverKeeps ==
    ASSUME NEW k, KInv(k, {}), DInv(k), NEW d \in DTQ, NEW x, k.wait_queue[Rcv(d)] # <<>>
    PROVE  HandedTo(k, HandOver(k, d, x), d, x)
<1> DEFINE w == Rcv(d)
           t == Head(k.wait_queue[w])
           e == [k EXCEPT !.delivered = Append(@, <<t, x>>)]
           n == WaitRelease(e, t)
<1>1. DFields \subseteq DOMAIN k /\ KFields \subseteq DOMAIN k
  BY DEF DInv, DFields
<1>2. SameK(k, e) /\ e.dtqcb = k.dtqcb /\ e.delivered = Append(k.delivered, <<t, x>>)
  BY ONLY <1>1, Zenon DEF SameK, DFields, KFields
<1>3. HandOver(k, d, x) = n
  BY DEF HandOver
<1> HIDE DEF e
<1>4. KInv(e, {}) /\ Advances(k, e) /\ e.wait_queue = k.wait_queue /\ DOMAIN e = DOMAIN k
  BY <1>2, SameKKeeps DEF SameK
<1>5. FirstReleased(e, n, w)
  BY <1>4, QueueNames, ReleaseFirstKeeps
<1> HIDE DEF n
<1>6. /\ KInv(n, {}) /\ Advances(e, n) /\ DOMAIN n = DOMAIN k
      /\ n.wait_queue = [k.wait_queue EXCEPT ![w] = Tail(@)]
      /\ \A f \in DOMAIN k \ KFields : n[f] = e[f]
  BY <1>4, <1>5 DEF FirstReleased, Advances
<1>7. n.dtqcb = k.dtqcb /\ n.delivered = e.delivered
  <2>1. "dtqcb" \in DOMAIN k \ KFields /\ "delivered" \in DOMAIN k \ KFields
    BY <1>1 DEF DFields, KFields
  <2> QED
    BY <2>1, <1>2, <1>6
<1>8. Advances(k, n)
  BY <1>4, <1>6, AdvancesTransitive
<1>9. ASSUME NEW c \in DTQ
      PROVE  NoneInVain(n.dtqcb, n.wait_queue, c)
  <2>1. NoneInVain(k.dtqcb, k.wait_queue, c)
    BY DEF DInv
  <2>2. n.wait_queue[Snd(c)] = k.wait_queue[Snd(c)]
    BY <1>6, QueueNames, QueueOfTasks
  <2>3. n.wait_queue[Rcv(c)] # <<>> => k.wait_queue[Rcv(c)] # <<>>
    <3>1. CASE c = d
      BY <3>1
    <3>2. CASE c # d
      BY <3>2, <1>6, QueueNames, QueueOfTasks
    <3> QED
      BY <3>1, <3>2
  <2> QED
    BY <2>1, <2>2, <2>3, <1>7 DEF NoneInVain
<1>10. DInv(n)
  BY <1>6, <1>7, <1>9 DEF DInv
<1> QED
  BY <1>2, <1>3, <1>6, <1>7, <1>8, <1>10 DEF HandedTo, DMoved

\* The datum is in the buffer of d.
Stored(k, n, d, b) ==
    /\ DMoved(k, n)
    /\ n.dtqcb = [k.dtqcb EXCEPT ![d] = b]
    /\ n.wait_queue = k.wait_queue /\ n.delivered = k.delivered

\* A function that only changes the buffer of d, and lets nobody wait in vain
LEMMA BufferKeeps ==
    ASSUME NEW k, KInv(k, {}), DInv(k), NEW d \in DTQ, NEW b, RingOk(b, Cap[d]),
           k.wait_queue[Snd(d)] # <<>> => b.count = Cap[d],
           k.wait_queue[Rcv(d)] # <<>> => b.count = 0,
           NEW n, SameK(k, n), n.dtqcb = [k.dtqcb EXCEPT ![d] = b]
    PROVE  DMoved(k, n)
<1>1. DFields \subseteq DOMAIN k
  BY DEF DInv
<1>2. DOMAIN n = DOMAIN k /\ n.wait_queue = k.wait_queue
  BY DEF SameK
<1>3. KInv(n, {}) /\ Advances(k, n)
  BY SameKKeeps
<1>4. ASSUME NEW c \in DTQ
      PROVE  RingOk(n.dtqcb[c], Cap[c]) /\ NoneInVain(n.dtqcb, n.wait_queue, c)
  BY <1>2 DEF DInv, NoneInVain
<1>5. n.dtqcb = [c \in DTQ |-> n.dtqcb[c]]
  BY DEF DInv
<1> QED
  BY <1>1, <1>2, <1>3, <1>4, <1>5 DEF DMoved, DInv

\* The same for a function that does nothing else
LEMMA StoreKeeps ==
    ASSUME NEW k, KInv(k, {}), DInv(k), NEW d \in DTQ, NEW b, RingOk(b, Cap[d]),
           k.wait_queue[Snd(d)] # <<>> => b.count = Cap[d],
           k.wait_queue[Rcv(d)] # <<>> => b.count = 0,
           NEW n, n = [k EXCEPT !.dtqcb[d] = b]
    PROVE  Stored(k, n, d, b)
<1>1. DFields \subseteq DOMAIN k
  BY DEF DInv
<1>2. SameK(k, n) /\ n.dtqcb = [k.dtqcb EXCEPT ![d] = b] /\ n.delivered = k.delivered
  <2>1. n = [k EXCEPT !.dtqcb[d] = b]
    OBVIOUS
  <2> QED
    BY ONLY <1>1, <2>1, Zenon DEF SameK, DFields, KFields
<1>3. DMoved(k, n)
  BY <1>2, BufferKeeps
<1> QED
  BY <1>2, <1>3 DEF Stored, SameK

\* The datum goes to the first receiver if there is one, else into the buffer.
SentTo(k, n, d, x) ==
    IF k.wait_queue[Rcv(d)] # <<>> THEN HandedTo(k, n, d, x)
    ELSE Stored(k, n, d, EnqueueData(k.dtqcb[d], Cap[d], x))

\* send_data, when it returns true
LEMMA SendDataKeeps ==
    ASSUME NEW k, KInv(k, {}), DInv(k), NEW d \in DTQ, NEW x \in DATA, CanSend(k, d)
    PROVE  DMoved(k, SendData(k, d, x)) /\ SentTo(k, SendData(k, d, x), d, x)
<1>1. CASE k.wait_queue[Rcv(d)] # <<>>
  BY <1>1, HandOverKeeps DEF SendData, SentTo, HandedTo
<1>2. CASE k.wait_queue[Rcv(d)] = <<>>
  <2> DEFINE q == k.dtqcb[d]
             b == EnqueueData(q, Cap[d], x)
             n == [k EXCEPT !.dtqcb[d] = b]
  <2>1. q.count < Cap[d] /\ RingOk(q, Cap[d]) /\ Cap[d] \in Nat /\ NoneInVain(k.dtqcb, k.wait_queue, d)
    BY <1>2, QueueNames DEF CanSend, DInv
  <2>2. SendData(k, d, x) = n
    BY <1>2, <2>1 DEF SendData
  <2>3. RingOk(b, Cap[d])
    BY <2>1, EnqueueAppends
  <2>4. k.wait_queue[Snd(d)] = <<>>
    <3>1. q.count \in Nat
      BY <2>1 DEF RingOk, RingType
    <3> QED
      BY <2>1, <3>1 DEF NoneInVain
  <2> HIDE DEF b
  <2>5. Stored(k, n, d, b)
    BY <1>2, <2>3, <2>4, StoreKeeps
  <2> QED
    BY <1>2, <2>2, <2>5 DEF b, SentTo, Stored
<1> QED
  BY <1>1, <1>2

\* force_send_data; it is called for a data queue with a buffer.
LEMMA ForceSendDataKeeps ==
    ASSUME NEW k, KInv(k, {}), DInv(k), NEW d \in DTQ, NEW x \in DATA, Cap[d] > 0
    PROVE  LET n == ForceSendData(k, d, x)
           IN  /\ DMoved(k, n)
               /\ k.wait_queue[Rcv(d)] # <<>> => HandedTo(k, n, d, x)
               /\ k.wait_queue[Rcv(d)] = <<>> =>
                    Stored(k, n, d, ForceEnqueueData(k.dtqcb[d], Cap[d], x))
<1>1. CASE k.wait_queue[Rcv(d)] # <<>>
  <2>1. HandedTo(k, HandOver(k, d, x), d, x)
    BY <1>1, HandOverKeeps
  <2>2. ForceSendData(k, d, x) = HandOver(k, d, x)
    BY <1>1 DEF ForceSendData
  <2> QED
    BY <1>1, <2>1, <2>2 DEF HandedTo
<1>2. CASE k.wait_queue[Rcv(d)] = <<>>
  <2> DEFINE q == k.dtqcb[d]
             b == ForceEnqueueData(q, Cap[d], x)
             n == [k EXCEPT !.dtqcb[d] = b]
  <2>1. /\ RingOk(q, Cap[d]) /\ Cap[d] \in Nat \ {0} /\ NoneInVain(k.dtqcb, k.wait_queue, d)
        /\ q.count \in Nat /\ q.count <= Cap[d]
    BY QueueNames DEF DInv, RingOk, RingType
  <2>2. ForceSendData(k, d, x) = n
    BY <1>2 DEF ForceSendData
  <2>3. RingOk(b, Cap[d]) /\ (q.count = Cap[d] => b.count = Cap[d])
    <3>1. CASE q.count < Cap[d]
      BY <2>1, <3>1, EnqueueAppends DEF ForceEnqueueData
    <3>2. CASE q.count = Cap[d]
      BY <2>1, <3>2, ForceEnqueueDropsOldest DEF ForceEnqueueData
    <3> QED
      BY <2>1, <3>1, <3>2
  <2>4. k.wait_queue[Snd(d)] # <<>> => q.count = Cap[d]
    BY <2>1 DEF NoneInVain
  <2> HIDE DEF b
  <2>5. Stored(k, n, d, b)
    BY <1>2, <2>3, <2>4, StoreKeeps
  <2> QED
    BY <1>2, <2>2, <2>5 DEF b, Stored
<1> QED
  BY <1>1, <1>2

\* What receive_data takes: the oldest datum, and the first waiting sender's in
\* its place.
Received(k, n, d) ==
    LET q == k.dtqcb[d]
        left == DequeueData(q, Cap[d])
        t == Head(k.wait_queue[Snd(d)])
    IN  /\ DMoved(k, n)
        /\ IF q.count = 0
           THEN /\ n.dtqcb = k.dtqcb /\ n.delivered = <<<<runtsk, winfo[t]>>>>
                /\ k.wait_queue[Snd(d)] # <<>>
           ELSE /\ n.dtqcb = [k.dtqcb EXCEPT ![d] = IF k.wait_queue[Snd(d)] = <<>> THEN left
                                                   ELSE EnqueueData(left, Cap[d], winfo[t])]
                /\ n.delivered = <<<<runtsk, FirstData(q)>>>>
        /\ n.wait_queue = IF k.wait_queue[Snd(d)] = <<>> THEN k.wait_queue
                          ELSE [k.wait_queue EXCEPT ![Snd(d)] = Tail(@)]

\* The first waiting sender of d is let in, with the buffer as given.
LEMMA LetInKeeps ==
    ASSUME NEW k, KInv(k, {}), DInv(k), NEW d \in DTQ, k.wait_queue[Snd(d)] # <<>>,
           NEW b, RingOk(b, Cap[d]), b.count = Cap[d],
           NEW e, SameK(k, e), e.dtqcb = [k.dtqcb EXCEPT ![d] = b],
           NEW n, n = WaitRelease(e, Head(k.wait_queue[Snd(d)]))
    PROVE  /\ DMoved(k, n) /\ n.dtqcb = e.dtqcb /\ n.delivered = e.delivered
           /\ n.wait_queue = [k.wait_queue EXCEPT ![Snd(d)] = Tail(@)]
<1> DEFINE w == Snd(d)
<1>1. DFields \subseteq DOMAIN k /\ KFields \subseteq DOMAIN k
  BY DEF DInv, DFields
<1>2. KInv(e, {}) /\ Advances(k, e) /\ e.wait_queue = k.wait_queue /\ DOMAIN e = DOMAIN k
  BY SameKKeeps DEF SameK
<1>3. FirstReleased(e, n, w)
  BY <1>2, QueueNames, ReleaseFirstKeeps
<1>4. /\ KInv(n, {}) /\ Advances(e, n) /\ DOMAIN n = DOMAIN k
      /\ n.wait_queue = [k.wait_queue EXCEPT ![w] = Tail(@)]
      /\ \A f \in DOMAIN k \ KFields : n[f] = e[f]
  BY <1>2, <1>3 DEF FirstReleased, Advances
<1>5. n.dtqcb = e.dtqcb /\ n.delivered = e.delivered
  <2>1. "dtqcb" \in DOMAIN k \ KFields /\ "delivered" \in DOMAIN k \ KFields
    BY <1>1 DEF DFields, KFields
  <2> QED
    BY <2>1, <1>4
<1>6. Advances(k, n)
  BY <1>2, <1>4, AdvancesTransitive
<1>7. ASSUME NEW c \in DTQ
      PROVE  RingOk(n.dtqcb[c], Cap[c]) /\ NoneInVain(n.dtqcb, n.wait_queue, c)
  <2>1. NoneInVain(k.dtqcb, k.wait_queue, c) /\ RingOk(k.dtqcb[c], Cap[c]) /\ k.dtqcb = [a \in DTQ |-> k.dtqcb[a]]
    BY DEF DInv
  <2>2. n.wait_queue[Rcv(c)] = k.wait_queue[Rcv(c)]
    BY <1>4, QueueNames, QueueOfTasks
  <2>3. CASE c = d
    <3>1. n.dtqcb[c] = b /\ k.wait_queue[Rcv(c)] = <<>>
      BY <2>1, <2>3, <1>5 DEF NoneInVain
    <3> QED
      BY <2>2, <2>3, <3>1 DEF NoneInVain
  <2>4. CASE c # d
    <3>1. n.dtqcb[c] = k.dtqcb[c]
      BY <2>1, <2>4, <1>5
    <3>2. n.wait_queue[Snd(c)] = k.wait_queue[Snd(c)]
      BY <2>4, <1>4, QueueNames, QueueOfTasks
    <3> QED
      BY <2>1, <2>2, <3>1, <3>2 DEF NoneInVain
  <2> QED
    BY <2>3, <2>4
<1>8. n.dtqcb = [c \in DTQ |-> n.dtqcb[c]]
  BY <1>5 DEF DInv
<1> QED
  BY <1>1, <1>4, <1>5, <1>6, <1>7, <1>8 DEF DMoved, DInv

\* receive_data, when it returns true
LEMMA ReceiveDataKeeps ==
    ASSUME NEW k, KInv(k, {}), DInv(k), NEW d \in DTQ,
           k.dtqcb[d].count > 0 \/ k.wait_queue[Snd(d)] # <<>>,
           \A t \in TASK : Contains(k.wait_queue[Snd(d)], t) => winfo[t] \in DATA
    PROVE  Received(k, ReceiveData(k, d), d)
<1> DEFINE q == k.dtqcb[d]
           c == Cap[d]
           left == DequeueData(q, c)
           t == Head(k.wait_queue[Snd(d)])
           n == ReceiveData(k, d)
<1>1. /\ DFields \subseteq DOMAIN k /\ k.dtqcb = [a \in DTQ |-> k.dtqcb[a]] /\ RingOk(q, c) /\ c \in Nat
      /\ NoneInVain(k.dtqcb, k.wait_queue, d)
  BY QueueNames DEF DInv
<1>2. q.count \in Nat /\ q.count <= c
  BY <1>1 DEF RingOk, RingType
<1>3. k.wait_queue[Snd(d)] # <<>> => q.count = c /\ winfo[t] \in DATA
  <2>1. k.wait_queue[Snd(d)] # <<>> => t \in TASK /\ Contains(k.wait_queue[Snd(d)], t)
    BY QueueOfTasks, QueueNames
  <2> QED
    BY <2>1, <1>1 DEF NoneInVain
<1>4. q.count > 0 => RingOk(left, c) /\ left.count = q.count - 1
  BY <1>1, DequeueTakesOldest DEF DequeueData
<1>5. CASE q.count = 0
  <2> DEFINE e == [k EXCEPT !.delivered = <<<<runtsk, winfo[t]>>>>]
  <2>1. k.wait_queue[Snd(d)] # <<>> /\ q.count = c
    BY <1>3, <1>5
  <2>2. SameK(k, e) /\ e.dtqcb = k.dtqcb /\ e.delivered = <<<<runtsk, winfo[t]>>>>
    BY ONLY <1>1, Zenon DEF SameK, DFields, KFields
  <2>3. n = WaitRelease(e, t)
    BY <1>5 DEF ReceiveData
  <2> HIDE DEF e, n, q
  <2>4. e.dtqcb = [k.dtqcb EXCEPT ![d] = q]
    BY <1>1, <2>2 DEF q
  <2>5. /\ DMoved(k, n) /\ n.dtqcb = e.dtqcb /\ n.delivered = e.delivered
        /\ n.wait_queue = [k.wait_queue EXCEPT ![Snd(d)] = Tail(@)]
    <3>1. RingOk(q, c) /\ q.count = c /\ k.wait_queue[Snd(d)] # <<>> /\ SameK(k, e)
      BY <1>1, <2>1, <2>2
    <3> QED
      BY <2>3, <2>4, <3>1, LetInKeeps
  <2> QED
    BY <1>5, <2>1, <2>2, <2>5 DEF Received, n, q
<1>6. CASE q.count # 0 /\ k.wait_queue[Snd(d)] = <<>>
  <2> DEFINE e == [k EXCEPT !.delivered = <<<<runtsk, FirstData(q)>>>>, !.dtqcb[d] = left]
  <2>1. /\ SameK(k, e) /\ e.dtqcb = [k.dtqcb EXCEPT ![d] = left]
        /\ e.delivered = <<<<runtsk, FirstData(q)>>>>
    BY ONLY <1>1, Zenon DEF SameK, DFields, KFields
  <2>2. n = e
    BY <1>6, Zenon DEF ReceiveData
  <2>3. k.wait_queue[Rcv(d)] = <<>>
    BY <1>1, <1>6 DEF NoneInVain
  <2> HIDE DEF e, n, left
  <2>4. DMoved(k, e)
    BY <1>2, <1>4, <1>6, <2>1, <2>3, BufferKeeps
  <2> QED
    BY <1>6, <2>1, <2>2, <2>4 DEF Received, SameK, n, left
<1>7. CASE q.count # 0 /\ k.wait_queue[Snd(d)] # <<>>
  <2> DEFINE b == EnqueueData(left, c, winfo[t])
             e == [k EXCEPT !.delivered = <<<<runtsk, FirstData(q)>>>>, !.dtqcb[d] = b]
  <2>1. /\ SameK(k, e) /\ e.dtqcb = [k.dtqcb EXCEPT ![d] = b]
        /\ e.delivered = <<<<runtsk, FirstData(q)>>>>
    BY ONLY <1>1, Zenon DEF SameK, DFields, KFields
  <2>2. n = WaitRelease(e, t)
    BY <1>7, Zenon DEF ReceiveData
  <2>3. RingOk(b, c) /\ b.count = c
    <3>1. RingOk(left, c) /\ left.count = c - 1 /\ winfo[t] \in DATA /\ left.count < c
      BY <1>1, <1>2, <1>3, <1>4, <1>7
    <3>2. b.count = left.count + 1
      BY DEF EnqueueData
    <3> HIDE DEF left
    <3> QED
      BY <1>1, <3>1, <3>2, EnqueueAppends
  <2> HIDE DEF e, n, b
  <2>4. /\ DMoved(k, n) /\ n.dtqcb = e.dtqcb /\ n.delivered = e.delivered
        /\ n.wait_queue = [k.wait_queue EXCEPT ![Snd(d)] = Tail(@)]
    BY <1>7, <2>1, <2>2, <2>3, LetInKeeps
  <2> QED
    BY <1>7, <2>1, <2>4 DEF Received, n, b
<1> QED
  BY <1>5, <1>6, <1>7

\* psnd_dtq_ndata sends two data one after the other.
LEMMA SendNdataIsTwoSends ==
    ASSUME NEW k, NEW d, NEW x, NEW y
    PROVE  SendNdata(k, d, <<x, y>>) = SendData(SendData(k, d, x), d, y)
<1> DEFINE s == <<x, y>>
           Loop(f) == f = [n \in 0 .. Len(s) |-> IF n = 0 THEN k ELSE SendData(f[n - 1], d, s[n])]
           a == SendData(k, d, x)
           b == SendData(a, d, y)
           g == [n \in 0 .. 2 |-> IF n = 0 THEN k ELSE IF n = 1 THEN a ELSE b]
           R == CHOOSE f : Loop(f)
<1>1. Len(s) = 2 /\ s[1] = x /\ s[2] = y
  OBVIOUS
<1>2. Loop(g)
  <2> HIDE DEF s, a, b
  <2>1. g[0] = k /\ g[1] = a /\ g[2] = b
    OBVIOUS
  <2> HIDE DEF g
  <2>2. ASSUME NEW n \in 0 .. 2
        PROVE  g[n] = IF n = 0 THEN k ELSE SendData(g[n - 1], d, s[n])
    <3>1. n = 0 \/ n = 1 \/ n = 2
      OBVIOUS
    <3>2. CASE n = 1
      BY <3>2, <2>1, <1>1 DEF a
    <3>3. CASE n = 2
      BY <3>3, <2>1, <1>1 DEF b
    <3> QED
      BY <3>1, <3>2, <3>3, <2>1
  <2>3. g = [n \in 0 .. 2 |-> g[n]]
    BY DEF g
  <2> QED
    BY <2>2, <2>3, <1>1
<1>3. Loop(R)
  BY <1>2
<1>4. SendNdata(k, d, s) = R[Len(s)]
  BY DEF SendNdata
<1> HIDE DEF R, s
<1>5. R[0] = k /\ R[1] = SendData(R[0], d, s[1]) /\ R[2] = SendData(R[1], d, s[2])
  <2>1. R = [n \in 0 .. 2 |-> IF n = 0 THEN k ELSE SendData(R[n - 1], d, s[n])]
    BY <1>1, <1>3
  <2>2. 1 - 1 = 0 /\ 2 - 1 = 1 /\ 0 \in 0 .. 2 /\ 1 \in 0 .. 2 /\ 2 \in 0 .. 2
    OBVIOUS
  <2>3. \A n \in 0 .. 2 : R[n] = IF n = 0 THEN k ELSE SendData(R[n - 1], d, s[n])
    BY <2>1
  <2> HIDE DEF Loop
  <2> QED
    BY <2>2, <2>3
<1> QED
  BY <1>1, <1>4, <1>5 DEF s

\* Everybody who waits in w is released.
QueueCleared(k, n, w) ==
    /\ DMoved(k, n)
    /\ n.dtqcb = k.dtqcb /\ n.delivered = k.delivered
    /\ n.wait_queue = [k.wait_queue EXCEPT ![w] = <<>>]

\* init_wait_queue on a queue of a data queue
LEMMA QueueClearedKeeps ==
    ASSUME NEW k, KInv(k, {}), DInv(k), NEW w \in WQUEUE
    PROVE  QueueCleared(k, InitWaitQueue(k, w), w)
<1> DEFINE n == InitWaitQueue(k, w)
<1>1. QueueReleased(k, n, {}, w)
  BY InitWaitQueueKeeps
<1>2. DFields \subseteq DOMAIN k
  BY DEF DInv
<1> HIDE DEF n
<1>3. /\ KInv(n, {}) /\ Advances(k, n) /\ DOMAIN n = DOMAIN k
      /\ n.dtqcb = k.dtqcb /\ n.delivered = k.delivered
  <2>1. "dtqcb" \in DOMAIN k \ KFields /\ "delivered" \in DOMAIN k \ KFields
    BY <1>2 DEF DFields, KFields
  <2> QED
    BY <2>1, <1>1 DEF QueueReleased, Advances
<1>4. n.wait_queue = [k.wait_queue EXCEPT ![w] = <<>>]
  <2>1. n.wait_queue \in [WQUEUE -> Seq(TASK)] /\ k.wait_queue \in [WQUEUE -> Seq(TASK)]
    BY <1>3 DEF KInv, QueuesHold
  <2>2. n.wait_queue[w] = <<>> /\ \A v \in WQUEUE \ {w} : n.wait_queue[v] = k.wait_queue[v]
    BY <1>1 DEF QueueReleased
  <2> QED
    BY <2>1, <2>2
<1>5. ASSUME NEW d \in DTQ
      PROVE  NoneInVain(n.dtqcb, n.wait_queue, d)
  <2>1. NoneInVain(k.dtqcb, k.wait_queue, d) /\ Snd(d) \in WQUEUE /\ Rcv(d) \in WQUEUE
    BY QueueNames DEF DInv
  <2>2. \A v \in WQUEUE : n.wait_queue[v] = k.wait_queue[v] \/ n.wait_queue[v] = <<>>
    BY <1>1 DEF QueueReleased
  <2> QED
    BY <2>1, <2>2, <1>3 DEF NoneInVain
<1>6. DInv(n)
  BY <1>2, <1>3, <1>5 DEF DInv
<1> QED
  BY <1>3, <1>4, <1>6 DEF QueueCleared, DMoved, n

\* ini_dtq and del_dtq release everybody, and dispatch once.
LEMMA ClearedKeeps ==
    ASSUME DtqInv, NEW d \in DTQ
    PROVE  /\ DMoved(DState, Cleared(d))
           /\ Cleared(d).dtqcb = dtqcb /\ Cleared(d).delivered = <<>>
           /\ Cleared(d).wait_queue = [wait_queue EXCEPT ![Snd(d)] = <<>>, ![Rcv(d)] = <<>>]
<1> DEFINE a == DState
           b == InitWaitQueue(a, Snd(d))
           c == InitWaitQueue(b, Rcv(d))
<1>1. KInv(a, {}) /\ DInv(a) /\ Snd(d) \in WQUEUE /\ Rcv(d) \in WQUEUE
  BY DStateInv, QueueNames
<1>2. a.dtqcb = dtqcb /\ a.delivered = <<>> /\ a.wait_queue = wait_queue
  BY DStateFields
<1>3. Cleared(d) = c
  BY DEF Cleared
<1>4. QueueCleared(a, b, Snd(d))
  BY <1>1, QueueClearedKeeps
<1> HIDE DEF a, b
<1>5. QueueCleared(b, c, Rcv(d))
  BY <1>1, <1>4, QueueClearedKeeps DEF QueueCleared, DMoved
<1> HIDE DEF c
<1>6. DMoved(a, c)
  BY <1>4, <1>5, AdvancesTransitive DEF QueueCleared, DMoved
<1> QED
  BY <1>2, <1>3, <1>4, <1>5, <1>6 DEF QueueCleared, a

-----------------------------------------------------------------------------
\* Each step of a data queue

\* What a record means to DInv is in its fields.
LEMMA SameDFields ==
    ASSUME NEW k, DInv(k), NEW n, DFields \subseteq DOMAIN n,
           n.dtqcb = k.dtqcb, n.wait_queue = k.wait_queue
    PROVE  DInv(n)
  BY DEF DInv

\* No function puts a task in an empty queue.
LEMMA EmptyStaysEmpty ==
    ASSUME NEW k, NEW n, KInv(n, {}), Advances(k, n), NEW w \in WQUEUE, k.wait_queue[w] = <<>>
    PROVE  n.wait_queue[w] = <<>>
<1>1. n.wait_queue[w] # <<>> => \E t \in TASK : Contains(n.wait_queue[w], t)
  BY QueueOfTasks
<1>2. \A t : ~Contains(<<>>, t)
  BY DEF Contains
<1> QED
  BY <1>1, <1>2 DEF Advances

\* The data of the senders that go on waiting are kept.
LEMMA WinfoKept ==
    ASSUME NEW old \in [TASK -> DATA \cup {NoData}], WinfoScope(old),
           \A d \in DTQ, t \in TASK : Contains(wait_queue'[Snd(d)], t) => old[t] \in DATA
    PROVE  /\ winfo' \in [TASK -> DATA \cup {NoData}]
           /\ \A d \in DTQ, t \in TASK :
                 Contains(wait_queue'[Snd(d)], t) => winfo'[t] = old[t] /\ winfo'[t] \in DATA
<1>1. ASSUME NEW t \in TASK
      PROVE  winfo'[t] \in DATA \cup {NoData}
  BY DEF WinfoScope
<1>2. winfo' = [t \in TASK |-> winfo'[t]]
  BY DEF WinfoScope
<1>3. winfo' \in [TASK -> DATA \cup {NoData}]
  BY <1>1, <1>2
<1> QED
  BY <1>3 DEF WinfoScope

\* A call that moves data and tasks keeps the invariant.
LEMMA DCommitKeeps ==
    ASSUME DtqInv, NEW k, DMoved(DState, k), DCommit(k), UNCHANGED restVars,
           dtqexist' \in SUBSET DTQ,
           \A d \in DTQ \ dtqexist' : d \notin dtqexist
               \/ (k.wait_queue[Snd(d)] = <<>> /\ k.wait_queue[Rcv(d)] = <<>>)
    PROVE  DtqInv'
<1>1. /\ KInv(DState, {}) /\ KInv(k, {}) /\ DInv(k) /\ Advances(DState, k) /\ Commit(k)
      /\ dtqcb' = k.dtqcb /\ wait_queue' = k.wait_queue /\ WinfoScope(winfo)
  BY DStateInv DEF DMoved, DCommit, Commit
<1>2. IInv' /\ WaitInv'
  BY <1>1, DStateFields, AdvanceKeeps DEF DtqInv
<1>3. DInv(DState')
  <2>1. DFields \subseteq DOMAIN DState' /\ DState'.dtqcb = dtqcb' /\ DState'.wait_queue = wait_queue'
    BY DEF DState, DFields, KFields
  <2> QED
    BY <2>1, <1>1, SameDFields
<1>4. ASSUME NEW d \in DTQ \ dtqexist'
      PROVE  wait_queue'[Snd(d)] = <<>> /\ wait_queue'[Rcv(d)] = <<>>
  <2>1. CASE d \notin dtqexist
    <3>1. /\ DState.wait_queue[Snd(d)] = <<>> /\ DState.wait_queue[Rcv(d)] = <<>>
          /\ Snd(d) \in WQUEUE /\ Rcv(d) \in WQUEUE
      BY <2>1, DStateFields, QueueNames DEF DtqInv
    <3> QED
      BY <3>1, <1>1, EmptyStaysEmpty
  <2>2. CASE k.wait_queue[Snd(d)] = <<>> /\ k.wait_queue[Rcv(d)] = <<>>
    BY <2>2, <1>1
  <2> QED
    BY <2>1, <2>2
<1>5. /\ winfo' \in [TASK -> DATA \cup {NoData}]
      /\ \A d \in DTQ, t \in TASK : Contains(wait_queue'[Snd(d)], t) => winfo'[t] \in DATA
  <2>1. \A d \in DTQ, t \in TASK : Contains(wait_queue'[Snd(d)], t) => Contains(wait_queue[Snd(d)], t)
    BY <1>1, DStateFields, QueueNames DEF Advances
  <2>2. winfo \in [TASK -> DATA \cup {NoData}]
    BY DEF DtqInv
  <2> QED
    BY <2>1, <2>2, <1>1, WinfoKept DEF DtqInv
<1> QED
  BY <1>2, <1>3, <1>4, <1>5 DEF DtqInv

\* psnd_dtq, fsnd_dtq, prcv_dtq and the calls that do not have to wait
LEMMA TransferKeeps ==
    ASSUME DtqInv, NEW k, DMoved(DState, k), Transfer(k)
    PROVE  DtqInv'
<1>1. DCommit(k) /\ UNCHANGED restVars /\ dtqexist' = dtqexist /\ dtqexist \in SUBSET DTQ
  BY DEF Transfer, DtqInv
<1> QED
  BY <1>1, DCommitKeeps

\* A call on d that sends one datum without waiting
LEMMA SendKeeps ==
    ASSUME DtqInv, NEW d \in DTQ, NEW x \in DATA, CanSend(DState, d), Transfer(SendData(DState, d, x))
    PROVE  DtqInv'
<1>1. DMoved(DState, SendData(DState, d, x))
  BY DStateInv, SendDataKeeps
<1> QED
  BY <1>1, TransferKeeps

\* A call on d that receives without waiting
LEMMA ReceiveKeeps ==
    ASSUME DtqInv, NEW d \in DTQ, CanReceive(d), Transfer(ReceiveData(DState, d))
    PROVE  DtqInv'
<1>1. Received(DState, ReceiveData(DState, d), d)
  BY DStateInv, DStateFields, ReceiveDataKeeps DEF CanReceive, DtqInv
<1>2. DMoved(DState, ReceiveData(DState, d))
  BY <1>1 DEF Received
<1> QED
  BY <1>2, TransferKeeps

\* When there is room for the rest of the data, the next one can be sent: none
\* of the assert(ret) of psnd_dtq_ndata fails.
LEMMA RoomForTwo ==
    ASSUME NEW k, KInv(k, {}), DInv(k), NEW d \in DTQ, NEW x \in DATA,
           k.dtqcb[d].count + 2 <= Cap[d]
    PROVE  CanSend(k, d) /\ CanSend(SendData(k, d, x), d)
<1> DEFINE q == k.dtqcb[d]
           n == SendData(k, d, x)
<1>1. /\ q.count \in Nat /\ Cap[d] \in Nat /\ q.count + 2 <= Cap[d] /\ NoneInVain(k.dtqcb, k.wait_queue, d)
      /\ k.dtqcb = [c \in DTQ |-> k.dtqcb[c]]
  BY QueueNames DEF DInv, RingOk, RingType
<1>2. CanSend(k, d)
  BY <1>1 DEF CanSend
<1>3. SentTo(k, n, d, x)
  BY <1>2, SendDataKeeps
<1> HIDE DEF n
<1>4. q.count < Cap[d] /\ q.count + 1 < Cap[d]
  BY <1>1
<1>5. CanSend(n, d)
  <2>1. CASE k.wait_queue[Rcv(d)] # <<>>
    <3>1. n.dtqcb = k.dtqcb
      BY <1>3, <2>1 DEF SentTo, HandedTo
    <3> QED
      BY <3>1, <1>4 DEF CanSend
  <2>2. CASE k.wait_queue[Rcv(d)] = <<>>
    <3>1. n.dtqcb[d].count = q.count + 1
      BY <1>1, <1>3, <2>2 DEF SentTo, Stored, EnqueueData
    <3> QED
      BY <3>1, <1>4 DEF CanSend
  <2> QED
    BY <2>1, <2>2
<1> QED
  BY <1>2, <1>5 DEF n

\* What psnd_dtq_ndata has sent is sent by two calls of send_data.
LEMMA NdataMoves ==
    ASSUME DtqInv, NEW d \in DTQ, NEW x \in DATA, NEW y \in DATA, PsndDtqNdata(d, <<x, y>>)
    PROVE  LET a == SendData(DState, d, x)
               n == SendData(a, d, y)
           IN  /\ CanSend(DState, d) /\ CanSend(a, d) /\ d \in dtqexist
               /\ DMoved(DState, a) /\ DMoved(DState, n) /\ Transfer(n)
<1> DEFINE a == SendData(DState, d, x)
           n == SendData(a, d, y)
<1>1. KInv(DState, {}) /\ DInv(DState) /\ DState.dtqcb = dtqcb
  BY DStateInv, DStateFields
<1>2. Len(<<x, y>>) = 2 /\ Transfer(n) /\ d \in dtqexist
  BY SendNdataIsTwoSends DEF PsndDtqNdata
<1>3. CanSend(DState, d) /\ CanSend(a, d)
  <2>1. DState.dtqcb[d].count + 2 <= Cap[d]
    BY <1>1, <1>2 DEF PsndDtqNdata, HasRoom
  <2> QED
    BY <2>1, <1>1, RoomForTwo
<1>4. DMoved(DState, a)
  BY <1>1, <1>3, SendDataKeeps
<1> HIDE DEF a
<1>5. DMoved(a, n)
  BY <1>3, <1>4, SendDataKeeps DEF DMoved
<1> HIDE DEF n
<1>6. DMoved(DState, n)
  BY <1>4, <1>5, AdvancesTransitive DEF DMoved
<1> QED
  BY <1>2, <1>3, <1>4, <1>6 DEF a, n

\* psnd_dtq_ndata
LEMMA NdataKeeps ==
    ASSUME DtqInv, NEW d \in DTQ, NEW x \in DATA, NEW y \in DATA, PsndDtqNdata(d, <<x, y>>)
    PROVE  DtqInv'
<1> DEFINE n == SendData(SendData(DState, d, x), d, y)
<1>1. DMoved(DState, n) /\ Transfer(n)
  BY NdataMoves
<1> HIDE DEF n
<1> QED
  BY <1>1, TransferKeeps

\* fsnd_dtq
LEMMA FsndKeeps ==
    ASSUME DtqInv, NEW d \in DTQ, NEW x \in DATA, FsndDtq(d, x)
    PROVE  DtqInv'
<1>1. DMoved(DState, ForceSendData(DState, d, x))
  BY DStateInv, ForceSendDataKeeps DEF FsndDtq
<1> QED
  BY <1>1, TransferKeeps DEF FsndDtq

\* acre_dtq and ini_dtq leave an empty buffer in the old memory.
LEMMA EmptiedRing ==
    ASSUME NEW n \in Nat, NEW q, RingOk(q, n)
    PROVE  /\ RingOk(Emptied(q), n) /\ Emptied(q).count = 0
           /\ Contents(Emptied(q), n) = <<>>
<1> DEFINE r == Emptied(q)
<1>1. r.mb = q.mb /\ r.head = 0 /\ r.tail = 0 /\ r.count = 0
  BY DEF Emptied
<1>2. r \in RingType(n)
  <2>1. q.mb \in [0 .. n - 1 -> DATA \cup {NoData}]
    BY DEF RingOk, RingType
  <2> QED
    BY <2>1 DEF Emptied, RingType
<1>3. Place(r, n, 0) = 0
  BY <1>1 DEF Place
<1>4. 1 .. r.count = {}
  BY <1>1
<1> HIDE DEF r
<1>5. RingOk(r, n)
  BY <1>1, <1>2, <1>3, <1>4 DEF RingOk
<1>6. Contents(r, n) = <<>>
  BY <1>4 DEF Contents
<1> QED
  BY <1>1, <1>5, <1>6 DEF r

\* The buffer of d is emptied while nobody waits for d.
LEMMA EmptiedKeeps ==
    ASSUME DtqInv, NEW d \in DTQ, NEW k, DMoved(DState, k), k.dtqcb = dtqcb, k.delivered = <<>>,
           k.wait_queue[Snd(d)] = <<>>, k.wait_queue[Rcv(d)] = <<>>,
           NEW n, n = [k EXCEPT !.dtqcb[d] = Emptied(@)]
    PROVE  /\ DMoved(DState, n) /\ n.dtqcb = [dtqcb EXCEPT ![d] = Emptied(@)]
           /\ n.wait_queue = k.wait_queue /\ n.delivered = <<>>
<1> DEFINE b == Emptied(k.dtqcb[d])
<1>1. KInv(k, {}) /\ DInv(k) /\ Advances(DState, k)
  BY DEF DMoved
<1>2. RingOk(b, Cap[d])
  BY <1>1, QueueNames, EmptiedRing DEF DInv
<1>3. n = [k EXCEPT !.dtqcb[d] = b]
  BY <1>1, Zenon DEF DInv, DFields
<1> HIDE DEF b
<1>4. Stored(k, n, d, b)
  BY <1>1, <1>2, <1>3, StoreKeeps
<1>5. DMoved(DState, n)
  BY <1>4, <1>1, AdvancesTransitive DEF Stored, DMoved
<1> QED
  BY <1>4, <1>5 DEF Stored, b

\* ini_dtq and del_dtq
LEMMA IniDelKeeps ==
    ASSUME DtqInv, NEW d \in DTQ, IniDtq(d) \/ DelDtq(d)
    PROVE  DtqInv'
<1> DEFINE k == Cleared(d)
           n == [k EXCEPT !.dtqcb[d] = Emptied(@)]
<1>1. /\ DMoved(DState, k) /\ k.dtqcb = dtqcb /\ k.delivered = <<>>
      /\ k.wait_queue = [wait_queue EXCEPT ![Snd(d)] = <<>>, ![Rcv(d)] = <<>>]
  BY ClearedKeeps
<1>2. IniDtq(d) => Transfer(n)
  BY DEF IniDtq
<1>3. DelDtq(d) => DCommit(k) /\ dtqexist' = dtqexist \ {d} /\ UNCHANGED restVars
  BY DEF DelDtq
<1> HIDE DEF k
<1>4. k.wait_queue[Snd(d)] = <<>> /\ k.wait_queue[Rcv(d)] = <<>>
  <2>1. wait_queue \in [WQUEUE -> Seq(TASK)]
    BY DEF DtqInv, WaitInv, QueuesHold
  <2> QED
    BY <2>1, <1>1, QueueNames
<1>5. CASE IniDtq(d)
  <2>1. n = [k EXCEPT !.dtqcb[d] = Emptied(@)]
    OBVIOUS
  <2> HIDE DEF n
  <2>2. DMoved(DState, n)
    BY <2>1, <1>1, <1>4, EmptiedKeeps
  <2> QED
    BY <2>2, <1>2, <1>5, TransferKeeps
<1>6. CASE DelDtq(d)
  BY <1>1, <1>3, <1>4, <1>6, DCommitKeeps DEF DtqInv
<1> QED
  BY <1>5, <1>6

\* acre_dtq
LEMMA AcreKeeps ==
    ASSUME DtqInv, NEW d \in DTQ, AcreDtq(d)
    PROVE  DtqInv'
<1>1. /\ d \in DTQ \ dtqexist /\ dtqexist' = dtqexist \cup {d}
      /\ dtqcb' = [dtqcb EXCEPT ![d] = Emptied(dtqcb[d])]
      /\ UNCHANGED vars /\ wait_queue' = wait_queue /\ winfo' = winfo
  BY DEF AcreDtq
<1>2. IInv' /\ WaitInv'
  <2>1. IInv' /\ tstat' = tstat /\ priority' = priority
    BY <1>1, StutterInv DEF DtqInv, vars, tcbVars
  <2> QED
    BY <2>1, <1>1, WaitUnchanged DEF DtqInv, Queued
<1>3. DInv(DState) /\ DState.dtqcb = dtqcb /\ DState.wait_queue = wait_queue
  BY DStateFields DEF DtqInv
<1>4. /\ dtqcb = [c \in DTQ |-> dtqcb[c]] /\ \A c \in DTQ : RingOk(dtqcb[c], Cap[c])
      /\ \A c \in DTQ : NoneInVain(dtqcb, wait_queue, c)
  BY <1>3 DEF DInv
<1>5. RingOk(Emptied(dtqcb[d]), Cap[d])
  BY <1>4, QueueNames, EmptiedRing
<1>6. wait_queue[Snd(d)] = <<>> /\ wait_queue[Rcv(d)] = <<>>
  BY <1>1 DEF DtqInv
<1> DEFINE s == DState'
<1>7. DFields \subseteq DOMAIN s /\ s.dtqcb = dtqcb' /\ s.wait_queue = wait_queue'
  BY DEF DState, DFields, KFields
<1> HIDE DEF s
<1>8. \A c \in DTQ : RingOk(s.dtqcb[c], Cap[c]) /\ NoneInVain(s.dtqcb, s.wait_queue, c)
  BY <1>1, <1>4, <1>5, <1>6, <1>7 DEF NoneInVain
<1>9. s.dtqcb = [c \in DTQ |-> s.dtqcb[c]]
  BY <1>1, <1>4, <1>7
<1>10. DInv(s)
  BY <1>7, <1>8, <1>9 DEF DInv
<1>11. /\ dtqexist' \in SUBSET DTQ /\ winfo' \in [TASK -> DATA \cup {NoData}]
       /\ \A c \in DTQ \ dtqexist' : wait_queue'[Snd(c)] = <<>> /\ wait_queue'[Rcv(c)] = <<>>
       /\ \A c \in DTQ, t \in TASK : Contains(wait_queue'[Snd(c)], t) => winfo'[t] \in DATA
  BY <1>1 DEF DtqInv
<1> QED
  BY <1>2, <1>10, <1>11 DEF DtqInv, s

-----------------------------------------------------------------------------
\* Steps that transfer nothing

\* A step that leaves the buffers alone, and after which everybody who waits for a
\* data queue has a reason to
LEMMA NoTransferKeeps ==
    ASSUME DtqInv, IInv', WaitInv', dtqcb' = dtqcb, dtqexist' = dtqexist,
           \A d \in DTQ : NoneInVain(dtqcb, wait_queue', d),
           \A d \in DTQ \ dtqexist : wait_queue'[Snd(d)] = <<>> /\ wait_queue'[Rcv(d)] = <<>>,
           winfo' \in [TASK -> DATA \cup {NoData}],
           \A d \in DTQ, t \in TASK : Contains(wait_queue'[Snd(d)], t) => winfo'[t] \in DATA
    PROVE  DtqInv'
<1>1. DInv(DState) /\ DState.dtqcb = dtqcb
  BY DStateFields DEF DtqInv
<1> DEFINE s == DState'
<1>2. DFields \subseteq DOMAIN s /\ s.dtqcb = dtqcb' /\ s.wait_queue = wait_queue'
  BY DEF DState, DFields, KFields
<1> HIDE DEF s
<1>3. DInv(s)
  BY <1>1, <1>2 DEF DInv
<1> QED
  BY <1>3 DEF DtqInv, s

\* What DtqInv says of the variables
LEMMA DtqFacts ==
    ASSUME DtqInv
    PROVE  /\ \A d \in DTQ : /\ NoneInVain(dtqcb, wait_queue, d) /\ RingOk(dtqcb[d], Cap[d])
                             /\ dtqcb[d].count \in Nat /\ dtqcb[d].count <= Cap[d]
           /\ wait_queue \in [WQUEUE -> Seq(TASK)]
           /\ dtqcb = [d \in DTQ |-> dtqcb[d]]
<1>1. DInv(DState) /\ DState.dtqcb = dtqcb /\ DState.wait_queue = wait_queue
  BY DStateFields DEF DtqInv
<1> QED
  BY <1>1 DEF DInv, RingOk, RingType, DtqInv, WaitInv, QueuesHold

\* The running task waits in the queue w of d; the other queues do not change.
LEMMA QueuedIn ==
    ASSUME DtqInv, NEW w \in WQUEUE, NEW timed \in BOOLEAN, WobjMakeWait(w, timed)
    PROVE  /\ wait_queue' = [wait_queue EXCEPT ![w] = QueueInsert(w, @, runtsk, priority)]
           /\ \A v \in WQUEUE \ {w} : wait_queue'[v] = wait_queue[v]
  BY DEF WobjMakeWait

\* snd_dtq and tsnd_dtq when there is no room
LEMMA SndWaits ==
    ASSUME DtqInv, NEW d \in DTQ, NEW x \in DATA, NEW timed \in BOOLEAN,
           SndDtq(d, x, timed), ~CanSend(DState, d)
    PROVE  DtqInv'
<1> DEFINE w == Snd(d)
<1>1. /\ DispatchState /\ d \in dtqexist /\ WobjMakeWait(w, timed)
      /\ WinfoScope([winfo EXCEPT ![runtsk] = x])
      /\ dtqexist' = dtqexist /\ dtqcb' = dtqcb /\ UNCHANGED restVars
  BY DEF SndDtq, NoTransfer
<1>2. /\ IInv' /\ WaitInv' /\ runtsk \in TASK
      /\ \A v \in WQUEUE, u \in TASK : Contains(wait_queue'[v], u)
                                 <=> Contains(wait_queue[v], u) \/ (v = w /\ u = runtsk)
  <2>1. w \in WQUEUE /\ IInv /\ WaitInv
    BY QueueNames DEF DtqInv
  <2> QED
    BY <2>1, <1>1, WobjMakeWaitKeeps DEF RunnableTasks
<1>3. dtqcb[d].count = Cap[d] /\ wait_queue[Rcv(d)] = <<>>
  BY DStateFields, DtqFacts, QueueNames DEF CanSend
<1>4. \A v \in WQUEUE \ {w} : wait_queue'[v] = wait_queue[v]
  BY <1>1, QueueNames, QueuedIn
<1>5. ASSUME NEW c \in DTQ
      PROVE  NoneInVain(dtqcb, wait_queue', c)
  <2>1. NoneInVain(dtqcb, wait_queue, c) /\ wait_queue'[Rcv(c)] = wait_queue[Rcv(c)]
    BY <1>4, DtqFacts, QueueNames
  <2>2. c # d => wait_queue'[Snd(c)] = wait_queue[Snd(c)]
    BY <1>4, QueueNames
  <2> QED
    BY <2>1, <2>2, <1>3 DEF NoneInVain
<1>6. \A c \in DTQ \ dtqexist : wait_queue'[Snd(c)] = <<>> /\ wait_queue'[Rcv(c)] = <<>>
  BY <1>1, <1>4, QueueNames DEF DtqInv
<1> DEFINE old == [winfo EXCEPT ![runtsk] = x]
<1>7. old \in [TASK -> DATA \cup {NoData}] /\ old[runtsk] = x
      /\ \A t \in TASK \ {runtsk} : old[t] = winfo[t]
  BY <1>2 DEF DtqInv
<1>8. \A c \in DTQ, t \in TASK : Contains(wait_queue'[Snd(c)], t) => old[t] \in DATA
  BY <1>2, <1>7, QueueNames DEF DtqInv
<1> HIDE DEF old
<1>9. WinfoScope(old)
  BY <1>1 DEF old
<1>10. /\ winfo' \in [TASK -> DATA \cup {NoData}]
       /\ \A c \in DTQ, t \in TASK : Contains(wait_queue'[Snd(c)], t) => winfo'[t] \in DATA
  BY <1>7, <1>8, <1>9, WinfoKept
<1> QED
  BY <1>1, <1>2, <1>5, <1>6, <1>10, NoTransferKeeps

\* rcv_dtq and trcv_dtq when there is no datum
LEMMA RcvWaits ==
    ASSUME DtqInv, NEW d \in DTQ, NEW timed \in BOOLEAN, RcvDtq(d, timed), ~CanReceive(d)
    PROVE  DtqInv'
<1> DEFINE w == Rcv(d)
<1>1. /\ DispatchState /\ d \in dtqexist /\ WobjMakeWait(w, timed) /\ winfo' = winfo
      /\ dtqexist' = dtqexist /\ dtqcb' = dtqcb /\ UNCHANGED restVars
  BY DEF RcvDtq, NoTransfer
<1>2. IInv' /\ WaitInv'
  <2>1. w \in WQUEUE /\ IInv /\ WaitInv
    BY QueueNames DEF DtqInv
  <2> QED
    BY <2>1, <1>1, WobjMakeWaitKeeps
<1>3. dtqcb[d].count = 0 /\ wait_queue[Snd(d)] = <<>>
  BY DtqFacts DEF CanReceive
<1>4. \A v \in WQUEUE \ {w} : wait_queue'[v] = wait_queue[v]
  BY <1>1, QueueNames, QueuedIn
<1>5. ASSUME NEW c \in DTQ
      PROVE  NoneInVain(dtqcb, wait_queue', c)
  <2>1. NoneInVain(dtqcb, wait_queue, c) /\ wait_queue'[Snd(c)] = wait_queue[Snd(c)]
    BY <1>4, DtqFacts, QueueNames
  <2>2. c # d => wait_queue'[Rcv(c)] = wait_queue[Rcv(c)]
    BY <1>4, QueueNames
  <2> QED
    BY <2>1, <2>2, <1>3 DEF NoneInVain
<1>6. \A c \in DTQ \ dtqexist : wait_queue'[Snd(c)] = <<>> /\ wait_queue'[Rcv(c)] = <<>>
  BY <1>1, <1>4, QueueNames DEF DtqInv
<1>7. /\ winfo' \in [TASK -> DATA \cup {NoData}]
      /\ \A c \in DTQ, t \in TASK : Contains(wait_queue'[Snd(c)], t) => winfo'[t] \in DATA
  BY <1>1, <1>4, QueueNames DEF DtqInv
<1> QED
  BY <1>1, <1>2, <1>5, <1>6, <1>7, NoTransferKeeps

\* A waiting task is released, ended or given another priority.
LEMMA WaitingTaskServiceKeeps ==
    ASSUME DtqInv, NEW t \in TASK, WaitingTaskService(t)
    PROVE  DtqInv'
<1>1. /\ WaitingTaskStep(t) /\ WinfoScope(winfo) /\ dtqexist' = dtqexist /\ dtqcb' = dtqcb
  BY DEF WaitingTaskService, NoTransfer
<1>2. /\ IInv' /\ WaitInv'
      /\ \A w \in WQUEUE, u \in TASK : Contains(wait_queue'[w], u) => Contains(wait_queue[w], u)
  BY <1>1, WaitingTaskStepKeeps DEF DtqInv
<1>3. ASSUME NEW w \in WQUEUE, wait_queue[w] = <<>>
      PROVE  wait_queue'[w] = <<>>
  <2>1. wait_queue'[w] \in Seq(TASK)
    BY <1>2 DEF WaitInv, QueuesHold
  <2>2. \A u \in TASK : ~Contains(wait_queue'[w], u)
    BY <1>2, <1>3 DEF Contains
  <2> QED
    BY <2>1, <2>2 DEF Contains
<1>4. ASSUME NEW c \in DTQ
      PROVE  NoneInVain(dtqcb, wait_queue', c)
  <2>1. NoneInVain(dtqcb, wait_queue, c) /\ Snd(c) \in WQUEUE /\ Rcv(c) \in WQUEUE
    BY DtqFacts, QueueNames
  <2> QED
    BY <2>1, <1>3 DEF NoneInVain
<1>5. \A c \in DTQ \ dtqexist : wait_queue'[Snd(c)] = <<>> /\ wait_queue'[Rcv(c)] = <<>>
  BY <1>3, QueueNames DEF DtqInv
<1>6. /\ winfo' \in [TASK -> DATA \cup {NoData}]
      /\ \A c \in DTQ, u \in TASK : Contains(wait_queue'[Snd(c)], u) => winfo'[u] \in DATA
  <2>1. winfo \in [TASK -> DATA \cup {NoData}]
    BY DEF DtqInv
  <2>2. \A c \in DTQ, u \in TASK : Contains(wait_queue'[Snd(c)], u) => winfo[u] \in DATA
    BY <1>2, QueueNames DEF DtqInv
  <2> QED
    BY <2>1, <2>2, <1>1, WinfoKept
<1> QED
  BY <1>1, <1>2, <1>4, <1>5, <1>6, NoTransferKeeps

\* The running task ends, or the scheduler's other operations run.
LEMMA SchedulerKeepsDtq ==
    ASSUME DtqInv, ExtTsk \/ SchedulerStep, NoTransfer, UNCHANGED <<winfo, wait_queue>>
    PROVE  DtqInv'
<1>1. dtqexist' = dtqexist /\ dtqcb' = dtqcb /\ winfo' = winfo /\ wait_queue' = wait_queue
  BY DEF NoTransfer
<1>2. IInv' /\ WaitInv'
  BY <1>1, ExtTskQueuesKeeps, SchedulerStepKeeps DEF DtqInv
<1> QED
  BY <1>1, <1>2, DtqFacts, NoTransferKeeps DEF DtqInv

-----------------------------------------------------------------------------
\* The invariant

\* At first the buffers are empty and nobody waits.
LEMMA DtqInitInv == DtqInit => DtqInv
<1> SUFFICES ASSUME DtqInit
             PROVE  DtqInv
  OBVIOUS
<1>1. /\ Init /\ dtqexist = DTQ \ DynDtq /\ dtqcb = [d \in DTQ |-> EmptyRing(Cap[d])]
      /\ winfo = [t \in TASK |-> NoData] /\ wait_queue = [w \in WQUEUE |-> <<>>]
  BY DEF DtqInit
<1>2. IInv /\ WaitInv
  BY <1>1, InitWaitInv
<1>3. \A d \in DTQ : wait_queue[Snd(d)] = <<>> /\ wait_queue[Rcv(d)] = <<>>
  BY <1>1, QueueNames
<1>4. ASSUME NEW d \in DTQ
      PROVE  RingOk(dtqcb[d], Cap[d])
  <2> DEFINE q == dtqcb[d]
             n == Cap[d]
  <2>1. n \in Nat /\ q = EmptyRing(n)
    BY <1>1, QueueNames
  <2>2. q.mb = [i \in 0 .. n - 1 |-> NoData] /\ q.head = 0 /\ q.tail = 0 /\ q.count = 0
    BY <2>1 DEF EmptyRing
  <2>3. q \in RingType(n)
    BY <2>1 DEF EmptyRing, RingType
  <2>4. Place(q, n, 0) = 0
    BY <2>1, <2>2 DEF Place
  <2>5. 1 .. q.count = {}
    BY <2>2
  <2> HIDE DEF q, n
  <2>6. RingOk(q, n)
    BY <2>1, <2>2, <2>3, <2>4, <2>5 DEF RingOk
  <2> QED
    BY <2>6 DEF q, n
<1>5. DInv(DState)
  <2> DEFINE s == DState
  <2>1. DFields \subseteq DOMAIN s /\ s.dtqcb = dtqcb /\ s.wait_queue = wait_queue
    BY DStateFields
  <2> HIDE DEF s
  <2>2. \A d \in DTQ : RingOk(s.dtqcb[d], Cap[d]) /\ NoneInVain(s.dtqcb, s.wait_queue, d)
    BY <1>3, <1>4, <2>1 DEF NoneInVain
  <2>3. s.dtqcb = [d \in DTQ |-> s.dtqcb[d]]
    BY <1>1, <2>1
  <2>4. DInv(s)
    BY <2>1, <2>2, <2>3 DEF DInv
  <2> QED
    BY <2>4 DEF s
<1>6. \A d \in DTQ, t \in TASK : ~Contains(wait_queue[Snd(d)], t)
  BY <1>3 DEF Contains
<1> QED
  BY <1>1, <1>2, <1>3, <1>5, <1>6 DEF DtqInv

\* Every service call on a data queue keeps the invariant.
LEMMA DtqServiceInv ==
    ASSUME DtqInv, NEW d \in DTQ, DtqService(d)
    PROVE  DtqInv'
<1>1. CASE \E x \in DATA : PsndDtq(d, x) \/ FsndDtq(d, x)
  BY <1>1, SendKeeps, FsndKeeps DEF PsndDtq
<1>2. CASE \E x, y \in DATA : PsndDtqNdata(d, <<x, y>>)
  BY <1>2, NdataKeeps
<1>3. ASSUME NEW x \in DATA, NEW timed \in BOOLEAN, SndDtq(d, x, timed)
      PROVE  DtqInv'
  <2>1. CASE CanSend(DState, d)
    BY <1>3, <2>1, SendKeeps DEF SndDtq
  <2> QED
    BY <1>3, <2>1, SndWaits
<1>4. CASE PrcvDtq(d)
  BY <1>4, ReceiveKeeps DEF PrcvDtq
<1>5. CASE IniDtq(d) \/ DelDtq(d)
  BY <1>5, IniDelKeeps
<1>6. CASE AcreDtq(d)
  BY <1>6, AcreKeeps
<1>7. ASSUME NEW timed \in BOOLEAN, RcvDtq(d, timed)
      PROVE  DtqInv'
  <2>1. CASE CanReceive(d)
    BY <1>7, <2>1, ReceiveKeeps DEF RcvDtq
  <2> QED
    BY <1>7, <2>1, RcvWaits
<1> QED
  BY <1>1, <1>2, <1>3, <1>4, <1>5, <1>6, <1>7 DEF DtqService

\* A stuttering step changes nothing.
LEMMA DtqStutter ==
    ASSUME DtqInv, UNCHANGED allVars
    PROVE  DtqInv'
<1>1. UNCHANGED vars /\ UNCHANGED dtqVars
  BY DEF allVars
<1>2. /\ dtqexist' = dtqexist /\ dtqcb' = dtqcb /\ winfo' = winfo /\ wait_queue' = wait_queue
      /\ tstat' = tstat /\ priority' = priority
  BY <1>1 DEF dtqVars, vars, tcbVars
<1>3. IInv' /\ WaitInv'
  BY <1>1, <1>2, StutterInv, WaitUnchanged DEF DtqInv, Queued
<1> QED
  BY <1>2, <1>3, DtqFacts, NoTransferKeeps DEF DtqInv

\* The invariant holds of every behaviour.
THEOREM DtqInvariance == DtqSpec => []DtqInv
<1>1. DtqInv /\ [DtqNext]_allVars => DtqInv'
  BY DtqServiceInv, WaitingTaskServiceKeeps, SchedulerKeepsDtq, DtqStutter DEF DtqNext
<1> QED
  BY DtqInitInv, <1>1, PTL DEF DtqSpec

\* No sender waits while there is room or a receiver, and no receiver while there is
\* a datum, after any sequence of calls, releases and deletions.
THEOREM NoVainWait == DtqSpec => []NobodyWaitsInVain
<1>1. DtqInv => NobodyWaitsInVain
  BY DtqFacts DEF DtqInv, NoneInVain, NobodyWaitsInVain
<1> QED
  BY <1>1, DtqInvariance, PTL

\* While a call serves several tasks the buffers, the wait queues and the ready
\* queue stay right, no dispatch is lost, and no send of psnd_dtq_ndata fails.
THEOREM DtqCorrect == DtqSpec => []DtqConsistent
<1>1. DtqInv => DtqConsistent
  <2> SUFFICES ASSUME DtqInv
               PROVE  DtqConsistent
    OBVIOUS
  <2>1. TypeOK /\ WaitsConsistent
    BY WaitsAreConsistent DEF DtqInv
  <2>2. DtqTypeOK
    BY <2>1, DtqFacts DEF DtqInv, DtqTypeOK
  <2>3. NdataAccepted
    <3> SUFFICES ASSUME NEW d \in dtqexist, NEW x \in DATA, HasRoom(d, 2)
                 PROVE  CanSend(DState, d) /\ CanSend(SendData(DState, d, x), d)
      BY DEF NdataAccepted
    <3>1. d \in DTQ /\ DState.dtqcb = dtqcb /\ KInv(DState, {}) /\ DInv(DState)
      BY DStateInv, DStateFields DEF DtqInv
    <3>2. DState.dtqcb[d].count + 2 <= Cap[d]
      BY <3>1 DEF HasRoom
    <3> QED
      BY <3>1, <3>2, RoomForTwo
  <2> QED
    BY <2>1, <2>2, <2>3 DEF DtqConsistent
<1> QED
  BY <1>1, DtqInvariance, PTL

-----------------------------------------------------------------------------
(***************************************************************************)
(* The data queue implements the first-in first-out channel.               *)
(*                                                                         *)
(* First the sequences: the stream of a data queue is the contents of the  *)
(* buffer followed by the data of the waiting senders, so what happens to  *)
(* the one or the other is to be seen in the whole.                        *)
(***************************************************************************)

\* The place j in a sequence that begins with a is the place k in the rest.
After(a, k, j) == j = Len(a) + k

\* What is inserted in the second part of a sequence
LEMMA InsertedInSecond ==
    ASSUME NEW A, NEW a \in Seq(A), NEW b \in Seq(A), NEW k \in 1 .. Len(b) + 1, NEW x \in A,
           NEW j \in Nat, After(a, k, j)
    PROVE  j \in 1 .. Len(a \o b) + 1 /\ a \o InsertAt(b, k, x) = InsertAt(a \o b, j, x)
<1> USE DEF After
<1> DEFINE ab == a \o b
<1>1. /\ ab \in Seq(A) /\ Len(ab) = Len(a) + Len(b)
      /\ \A i \in 1 .. Len(a) : ab[i] = a[i]
      /\ \A i \in 1 .. Len(b) : ab[i + Len(a)] = b[i]
  BY ConcatFacts
<1>2. Len(a) \in Nat /\ Len(b) \in Nat
  OBVIOUS
<1> HIDE DEF ab
<1>3. \A i \in Len(a) + 1 .. Len(a) + Len(b) : ab[i] = b[i - Len(a)]
  <2> TAKE i \in Len(a) + 1 .. Len(a) + Len(b)
  <2>1. i - Len(a) \in 1 .. Len(b) /\ (i - Len(a)) + Len(a) = i
    BY <1>2
  <2> QED
    BY <2>1, <1>1
<1>4. /\ j \in 1 .. Len(ab) + 1
      /\ a \o InsertAt(b, k, x) = InsertAt(ab, j, x)
  <2> DEFINE m == InsertAt(b, k, x)
             n == InsertAt(ab, j, x)
  <2>1. /\ m \in Seq(A) /\ Len(m) = Len(b) + 1
        /\ \A i \in 1 .. Len(b) + 1 : m[i] = IF i < k THEN b[i] ELSE IF i = k THEN x ELSE b[i - 1]
    BY InsertAtFacts
  <2>2. j \in 1 .. Len(ab) + 1
    BY <1>1, <1>2
  <2>3. /\ n \in Seq(A) /\ Len(n) = Len(ab) + 1
        /\ \A i \in 1 .. Len(ab) + 1 :
              n[i] = IF i < j THEN ab[i] ELSE IF i = j THEN x ELSE ab[i - 1]
    <3>1. ab \in Seq(A)
      BY <1>1
    <3> QED
      BY ONLY <2>2, <3>1, x \in A, InsertAtFacts
  <2> HIDE DEF m, n
  <2>4. /\ a \o m \in Seq(A) /\ Len(a \o m) = Len(a) + Len(m)
        /\ \A i \in 1 .. Len(a) : (a \o m)[i] = a[i]
        /\ \A i \in 1 .. Len(m) : (a \o m)[i + Len(a)] = m[i]
    <3>1. a \in Seq(A) /\ m \in Seq(A)
      BY <2>1
    <3> QED
      BY ONLY <3>1, ConcatFacts
  <2>5. Len(a \o m) = Len(n) /\ Len(n) = Len(a) + Len(b) + 1
    BY <1>1, <1>2, <2>1, <2>3, <2>4
  <2>6. ASSUME NEW i \in 1 .. Len(a) + Len(b) + 1
        PROVE  (a \o m)[i] = n[i]
    <3>1. CASE i <= Len(a)
      BY <3>1, <1>1, <1>2, <2>3, <2>4
    <3>2. CASE i > Len(a)
      <4> DEFINE g == i - Len(a)
      <4>1. g \in 1 .. Len(b) + 1 /\ g + Len(a) = i /\ (g < k <=> i < j) /\ (g = k <=> i = j)
        BY <3>2, <1>2
      <4>2. (a \o m)[i] = m[g]
        BY <4>1, <2>1, <2>4
      <4>3. i < j => n[i] = b[g]
        BY <3>2, <4>1, <1>1, <1>2, <1>3, <2>3
      <4>4. i > j => n[i] = b[g - 1]
        <5>1. i > j => i - 1 \in Len(a) + 1 .. Len(a) + Len(b) /\ (i - 1) - Len(a) = g - 1
          BY <1>2
        <5>2. i > j => n[i] = ab[i - 1]
          BY <1>1, <1>2, <2>3
        <5> QED
          BY <5>1, <5>2, <1>3
      <4>5. i = j => n[i] = x
        BY <1>1, <1>2, <2>3
      <4>6. m[g] = IF g < k THEN b[g] ELSE IF g = k THEN x ELSE b[g - 1]
        BY <4>1, <2>1
      <4>7. g \in Int /\ k \in Int /\ Len(a) \in Int /\ i \in Int
        BY <1>2
      <4> HIDE DEF g
      <4> QED
        BY <4>1, <4>2, <4>3, <4>4, <4>5, <4>6, <4>7
    <3>3. i <= Len(a) \/ i > Len(a)
      BY <1>2
    <3> QED
      BY <3>1, <3>2, <3>3, Zenon
  <2>7. a \o m = n
    BY <2>3, <2>4, <2>5, <2>6, SameSequence
  <2> QED
    BY <2>2, <2>7 DEF m, n
<1> QED
  BY <1>4 DEF ab

\* What is taken out of the second part of a sequence
LEMMA RemovedFromSecond ==
    ASSUME NEW A, NEW a \in Seq(A), NEW b \in Seq(A), NEW k \in 1 .. Len(b),
           NEW j \in Nat, After(a, k, j)
    PROVE  /\ j \in 1 .. Len(a \o b) /\ (a \o b)[j] = b[k]
           /\ a \o RemoveAt(b, k) = RemoveAt(a \o b, j)
<1> USE DEF After
<1> DEFINE ab == a \o b
<1>1. /\ ab \in Seq(A) /\ Len(ab) = Len(a) + Len(b)
      /\ \A i \in 1 .. Len(a) : ab[i] = a[i]
      /\ \A i \in 1 .. Len(b) : ab[i + Len(a)] = b[i]
  BY ConcatFacts
<1>2. Len(a) \in Nat /\ Len(b) \in Nat
  OBVIOUS
<1> HIDE DEF ab
<1>3. \A i \in Len(a) + 1 .. Len(a) + Len(b) : ab[i] = b[i - Len(a)]
  <2> TAKE i \in Len(a) + 1 .. Len(a) + Len(b)
  <2>1. i - Len(a) \in 1 .. Len(b) /\ (i - Len(a)) + Len(a) = i
    BY <1>2
  <2> QED
    BY <2>1, <1>1
<1>4. /\ j \in 1 .. Len(ab) /\ ab[j] = b[k]
      /\ a \o RemoveAt(b, k) = RemoveAt(ab, j)
             /\ a \o RemoveAt(b, k) = RemoveAt(ab, j)
  <2> DEFINE m == RemoveAt(b, k)
             n == RemoveAt(ab, j)
  <2>1. /\ m \in Seq(A) /\ Len(m) = Len(b) - 1
        /\ \A i \in 1 .. Len(b) - 1 : m[i] = IF i < k THEN b[i] ELSE b[i + 1]
    BY RemoveAtFacts
  <2>2. j \in 1 .. Len(ab) /\ ab[j] = b[k]
    BY <1>1, <1>2
  <2>3. /\ n \in Seq(A) /\ Len(n) = Len(ab) - 1
        /\ \A i \in 1 .. Len(ab) - 1 : n[i] = IF i < j THEN ab[i] ELSE ab[i + 1]
    BY <2>2, <1>1, RemoveAtFacts
  <2> HIDE DEF m, n
  <2>4. /\ a \o m \in Seq(A) /\ Len(a \o m) = Len(a) + Len(m)
        /\ \A i \in 1 .. Len(a) : (a \o m)[i] = a[i]
        /\ \A i \in 1 .. Len(m) : (a \o m)[i + Len(a)] = m[i]
    <3>1. a \in Seq(A) /\ m \in Seq(A)
      BY <2>1
    <3> QED
      BY ONLY <3>1, ConcatFacts
  <2>5. Len(a \o m) = Len(n) /\ Len(n) = Len(a) + Len(b) - 1
    BY <1>1, <1>2, <2>1, <2>3, <2>4
  <2>6. ASSUME NEW i \in 1 .. Len(a) + Len(b) - 1
        PROVE  (a \o m)[i] = n[i]
    <3>1. CASE i <= Len(a)
      BY <3>1, <1>1, <1>2, <2>3, <2>4
    <3>2. CASE i > Len(a)
      <4> DEFINE g == i - Len(a)
      <4>1. g \in 1 .. Len(b) - 1 /\ g + Len(a) = i /\ (g < k <=> i < j)
        BY <3>2, <1>2
      <4>2. (a \o m)[i] = m[g]
        BY <4>1, <2>1, <2>4
      <4>3. i < j => n[i] = b[g]
        BY <3>2, <4>1, <1>1, <1>2, <1>3, <2>3
      <4>4. i >= j => n[i] = b[g + 1]
        <5>1. i + 1 \in Len(a) + 1 .. Len(a) + Len(b) /\ (i + 1) - Len(a) = g + 1
          BY <3>2, <1>2
        <5>2. i >= j => n[i] = ab[i + 1]
          BY <1>1, <1>2, <2>3
        <5> QED
          BY <5>1, <5>2, <1>3
      <4>5. m[g] = IF g < k THEN b[g] ELSE b[g + 1]
        BY <4>1, <2>1
      <4>6. g \in Int /\ k \in Int /\ Len(a) \in Int /\ i \in Int
        BY <1>2
      <4> HIDE DEF g
      <4> QED
        BY <4>1, <4>2, <4>3, <4>4, <4>5, <4>6
    <3>3. i <= Len(a) \/ i > Len(a)
      BY <1>2
    <3> QED
      BY <3>1, <3>2, <3>3, Zenon
  <2>7. a \o m = n
    BY <2>3, <2>4, <2>5, <2>6, SameSequence
  <2> QED
    BY <2>2, <2>7 DEF m, n
<1> QED
  BY <1>4 DEF ab

\* The first entry of a sequence in two parts
LEMMA FirstPart ==
    ASSUME NEW A, NEW a \in Seq(A), NEW b \in Seq(A)
    PROVE  /\ a = <<>> => a \o b = b
           /\ b = <<>> => a \o b = a
           /\ a # <<>> => /\ a \o b # <<>> /\ Head(a \o b) = Head(a)
                          /\ Tail(a \o b) = Tail(a) \o b
           /\ a # <<>> /\ b # <<>> => Append(Tail(a), Head(b)) \o Tail(b) = Tail(a \o b)
<1>1. /\ a \o b \in Seq(A) /\ Len(a \o b) = Len(a) + Len(b)
      /\ \A i \in 1 .. Len(a) : (a \o b)[i] = a[i]
      /\ \A i \in 1 .. Len(b) : (a \o b)[i + Len(a)] = b[i]
  BY ConcatFacts
<1>2. a = <<>> => a \o b = b
  OBVIOUS
<1>3. b = <<>> => a \o b = a
  OBVIOUS
<1>4. ASSUME a # <<>>
      PROVE  /\ a \o b # <<>> /\ Head(a \o b) = Head(a)
             /\ Tail(a \o b) \in Seq(A) /\ Len(Tail(a \o b)) = Len(a) + Len(b) - 1
             /\ \A i \in 1 .. Len(a) + Len(b) - 1 : Tail(a \o b)[i] = (a \o b)[i + 1]
             /\ Tail(a) \in Seq(A) /\ Len(Tail(a)) = Len(a) - 1
             /\ \A i \in 1 .. Len(a) - 1 : Tail(a)[i] = a[i + 1]
  <2> DEFINE ab == a \o b
  <2>1. Len(a) \in Nat /\ Len(b) \in Nat /\ Len(a) >= 1 /\ Head(a) = a[1]
    BY <1>4
  <2>2. ab \in Seq(A) /\ Len(ab) = Len(a) + Len(b) /\ ab[1] = a[1]
    BY <1>1, <2>1
  <2>3. /\ Tail(a) \in Seq(A) /\ Len(Tail(a)) = Len(a) - 1
        /\ \A i \in 1 .. Len(a) - 1 : Tail(a)[i] = a[i + 1]
    BY <1>4
  <2> HIDE DEF ab
  <2>4. ab # <<>> /\ Head(ab) = ab[1]
    BY <2>1, <2>2
  <2>5. /\ Tail(ab) \in Seq(A) /\ Len(Tail(ab)) = Len(ab) - 1
        /\ \A i \in 1 .. Len(ab) - 1 : Tail(ab)[i] = ab[i + 1]
    BY <2>2, <2>4
  <2> QED
    BY <2>1, <2>2, <2>3, <2>4, <2>5 DEF ab
<1>5. ASSUME a # <<>>
      PROVE  Tail(a \o b) = Tail(a) \o b
  <2> DEFINE ab == a \o b
             t == Tail(ab)
             s == Tail(a)
             sb == s \o b
  <2>1. /\ Len(a) \in Nat /\ Len(b) \in Nat /\ Len(a) >= 1
        /\ t \in Seq(A) /\ Len(t) = Len(a) + Len(b) - 1 /\ s \in Seq(A) /\ Len(s) = Len(a) - 1
        /\ \A i \in 1 .. Len(a) + Len(b) - 1 : t[i] = ab[i + 1]
        /\ \A i \in 1 .. Len(a) - 1 : s[i] = a[i + 1]
    BY <1>4, <1>5
  <2>2. s \in Seq(A)
    BY <2>1
  <2> HIDE DEF s, t
  <2>3. /\ sb \in Seq(A) /\ Len(sb) = Len(s) + Len(b)
        /\ \A i \in 1 .. Len(s) : sb[i] = s[i]
        /\ \A i \in 1 .. Len(b) : sb[i + Len(s)] = b[i]
    BY ONLY <2>2, b \in Seq(A), ConcatFacts
  <2>4. /\ \A i \in 1 .. Len(a) : ab[i] = a[i]
        /\ \A i \in 1 .. Len(b) : ab[i + Len(a)] = b[i]
    BY <1>1
  <2> HIDE DEF ab, sb
  <2>5. ASSUME NEW i \in 1 .. Len(a) + Len(b) - 1
        PROVE  t[i] = sb[i]
    <3>1. CASE i <= Len(a) - 1
      <4>1. i \in 1 .. Len(s) /\ i \in 1 .. Len(a) - 1 /\ i + 1 \in 1 .. Len(a)
        BY <3>1, <2>1
      <4>2. sb[i] = s[i] /\ s[i] = a[i + 1] /\ ab[i + 1] = a[i + 1] /\ t[i] = ab[i + 1]
        BY <4>1, <2>1, <2>3, <2>4
      <4> QED
        BY <4>2
    <3>2. CASE i > Len(a) - 1
      <4> DEFINE j == i - Len(s)
      <4>1. j \in 1 .. Len(b) /\ j + Len(s) = i /\ j + Len(a) = i + 1
        BY <3>2, <2>1
      <4>2. sb[j + Len(s)] = b[j] /\ ab[j + Len(a)] = b[j]
        BY <4>1, <2>3, <2>4
      <4> QED
        BY <4>1, <4>2, <2>1
    <3> QED
      BY <3>1, <3>2, <2>1
  <2>6. Len(t) = Len(sb)
    BY <2>1, <2>3
  <2>7. t = sb
    BY <2>1, <2>3, <2>5, <2>6, SameSequence
  <2> QED
    BY <2>7 DEF t, sb, ab, s
<1>6. ASSUME a # <<>>, b # <<>>
      PROVE  Append(Tail(a), Head(b)) \o Tail(b) = Tail(a \o b)
  <2> DEFINE s == Tail(a)
             h == Head(b)
             r == Tail(b)
  <2>1. s \in Seq(A) /\ h \in A /\ r \in Seq(A) /\ b = <<h>> \o r
    BY <1>4, <1>6
  <2>2. Tail(a \o b) = s \o b
    BY <1>5, <1>6
  <2> HIDE DEF s, h, r
  <2>3. Append(s, h) = s \o <<h>> /\ <<h>> \in Seq(A)
    BY <2>1
  <2>4. (s \o <<h>>) \o r = s \o (<<h>> \o r)
    BY <2>1, <2>3, ConcatAssociative
  <2> QED
    BY <2>1, <2>2, <2>3, <2>4 DEF s, h, r
<1> QED
  BY <1>2, <1>3, <1>4, <1>5, <1>6

\* A datum forced in at the end of the first part, at the cost of the first
LEMMA ForcedIn ==
    ASSUME NEW A, NEW a \in Seq(A), NEW b \in Seq(A), a # <<>>, NEW x \in A,
           NEW j \in Nat, j = Len(a) + 1
    PROVE  Append(Tail(a), x) \o b = Tail(InsertAt(a \o b, j, x))
<1>1. PICK k \in 1 .. Len(b) + 1 : k = 1
  OBVIOUS
<1> DEFINE xb == InsertAt(b, k, x)
<1>2. j = Len(a) + k /\ a \o xb = InsertAt(a \o b, j, x)
  <2>1. j = Len(a) + k
    BY <1>1
  <2>2. j \in 1 .. Len(a \o b) + 1 /\ a \o InsertAt(b, k, x) = InsertAt(a \o b, j, x)
    <3>1. After(a, k, j) /\ a \in Seq(A) /\ b \in Seq(A) /\ k \in 1 .. Len(b) + 1 /\ x \in A
      BY <2>1 DEF After
    <3> QED
      BY ONLY <3>1, j \in Nat, InsertedInSecond
  <2> QED
    BY <2>1, <2>2
<1>3. xb \in Seq(A) /\ xb # <<>> /\ Head(xb) = x /\ Tail(xb) = b
  <2>1. /\ xb \in Seq(A) /\ Len(xb) = Len(b) + 1
        /\ \A i \in 1 .. Len(b) + 1 : xb[i] = IF i < k THEN b[i] ELSE IF i = k THEN x ELSE b[i - 1]
    BY InsertAtFacts
  <2> HIDE DEF xb
  <2>2. Len(b) \in Nat /\ xb # <<>> /\ Head(xb) = xb[1] /\ xb[1] = x
    BY <1>1, <2>1
  <2>3. /\ Tail(xb) \in Seq(A) /\ Len(Tail(xb)) = Len(b)
        /\ \A i \in 1 .. Len(b) : Tail(xb)[i] = xb[i + 1]
    BY <2>1, <2>2
  <2>4. \A i \in 1 .. Len(b) : Tail(xb)[i] = b[i]
    BY <1>1, <2>1, <2>2, <2>3
  <2> DEFINE c == Tail(xb)
  <2>5. c \in Seq(A) /\ Len(c) = Len(b) /\ \A i \in 1 .. Len(c) : c[i] = b[i]
    BY <2>3, <2>4
  <2> HIDE DEF c
  <2>6. c = b
    BY <2>5, SameSequence
  <2> QED
    BY <2>1, <2>2, <2>6 DEF c
<1> HIDE DEF xb
<1>4. Append(Tail(a), Head(xb)) \o Tail(xb) = Tail(a \o xb)
  BY <1>3, FirstPart
<1> QED
  BY <1>1, <1>2, <1>3, <1>4

-----------------------------------------------------------------------------
\* The data that the tasks of a queue offer, f holding the datum of each
Data(q, f) == [i \in DOMAIN q |-> f[q[i]]]

\* n is the sequence s over A with x as its k-th entry.
Inserts(s, k, x, n, A) ==
    /\ n \in Seq(A) /\ Len(n) = Len(s) + 1
    /\ \A i \in 1 .. Len(s) + 1 : n[i] = IF i < k THEN s[i] ELSE IF i = k THEN x ELSE s[i - 1]

\* InsertAtFacts in one word
LEMMA InsertAtInserts ==
    ASSUME NEW A, NEW s \in Seq(A), NEW k \in 1 .. Len(s) + 1, NEW x \in A
    PROVE  Inserts(s, k, x, InsertAt(s, k, x), A)
  BY InsertAtFacts DEF Inserts

\* Offered data move as their tasks do.
LEMMA DataMoves ==
    ASSUME NEW A, NEW f \in [TASK -> A], NEW q \in Seq(TASK)
    PROVE  /\ Data(q, f) \in Seq(A) /\ Len(Data(q, f)) = Len(q)
           /\ \A i \in 1 .. Len(q) : Data(q, f)[i] = f[q[i]]
           /\ q = <<>> => Data(q, f) = <<>>
           /\ q # <<>> => /\ Data(q, f) # <<>> /\ Head(Data(q, f)) = f[Head(q)]
                          /\ Data(Tail(q), f) = Tail(Data(q, f))
           /\ \A k \in 1 .. Len(q) + 1, t \in TASK :
                 Data(InsertAt(q, k, t), f) = InsertAt(Data(q, f), k, f[t])
           /\ \A k \in 1 .. Len(q) : Data(RemoveAt(q, k), f) = RemoveAt(Data(q, f), k)
<1>1. ASSUME NEW s \in Seq(TASK)
      PROVE  /\ Data(s, f) \in Seq(A) /\ Len(Data(s, f)) = Len(s)
             /\ \A i \in 1 .. Len(s) : Data(s, f)[i] = f[s[i]]
  BY DEF Data
<1> DEFINE c == Data(q, f)
<1>2. c \in Seq(A) /\ Len(c) = Len(q) /\ \A i \in 1 .. Len(q) : c[i] = f[q[i]]
  BY <1>1
<1> HIDE DEF c
<1>3. q = <<>> => c = <<>>
  BY <1>2
<1>4. ASSUME q # <<>>
      PROVE  c # <<>> /\ Head(c) = f[Head(q)] /\ Data(Tail(q), f) = Tail(c)
  <2>1. /\ Len(q) \in Nat /\ Len(q) >= 1 /\ Head(q) = q[1] /\ Tail(q) \in Seq(TASK)
        /\ Len(Tail(q)) = Len(q) - 1 /\ \A i \in 1 .. Len(q) - 1 : Tail(q)[i] = q[i + 1]
    BY <1>4
  <2>2. c # <<>> /\ Head(c) = c[1] /\ c[1] = f[q[1]]
    BY <1>2, <2>1
  <2>3. Tail(c) \in Seq(A) /\ Len(Tail(c)) = Len(q) - 1 /\ \A i \in 1 .. Len(q) - 1 : Tail(c)[i] = c[i + 1]
    BY <1>2, <2>2
  <2> DEFINE r == Data(Tail(q), f)
             s == Tail(c)
  <2>4. /\ r \in Seq(A) /\ Len(r) = Len(q) - 1
        /\ \A i \in 1 .. Len(q) - 1 : r[i] = f[Tail(q)[i]]
    BY <1>1, <2>1
  <2>5. \A i \in 1 .. Len(q) - 1 : r[i] = s[i]
    <3> TAKE i \in 1 .. Len(q) - 1
    <3>1. i + 1 \in 1 .. Len(q)
      BY <2>1
    <3> QED
      BY <3>1, <1>2, <2>1, <2>3, <2>4
  <2> HIDE DEF r, s
  <2>6. r = s
    BY <2>3, <2>4, <2>5, SameSequence DEF s
  <2> QED
    BY <2>1, <2>2, <2>6 DEF r, s
<1>5. ASSUME NEW k \in 1 .. Len(q) + 1, NEW t \in TASK
      PROVE  Data(InsertAt(q, k, t), f) = InsertAt(c, k, f[t])
  <2> DEFINE m == InsertAt(q, k, t)
             n == InsertAt(c, k, f[t])
             r == Data(m, f)
  <2>1. /\ m \in Seq(TASK) /\ Len(m) = Len(q) + 1
        /\ \A i \in 1 .. Len(q) + 1 : m[i] = IF i < k THEN q[i] ELSE IF i = k THEN t ELSE q[i - 1]
    <3>1. Inserts(q, k, t, m, TASK)
      BY InsertAtInserts
    <3> QED
      BY <3>1 DEF Inserts
  <2>2. /\ n \in Seq(A) /\ Len(n) = Len(c) + 1
        /\ \A i \in 1 .. Len(c) + 1 : n[i] = IF i < k THEN c[i] ELSE IF i = k THEN f[t] ELSE c[i - 1]
    <3>1. f[t] \in A /\ k \in 1 .. Len(c) + 1 /\ c \in Seq(A)
      BY <1>2
    <3>2. Inserts(c, k, f[t], n, A)
      BY <3>1, InsertAtInserts
    <3> QED
      BY <3>2 DEF Inserts
  <2> HIDE DEF m, n
  <2>3. r \in Seq(A) /\ Len(r) = Len(q) + 1 /\ \A i \in 1 .. Len(q) + 1 : r[i] = f[m[i]]
    BY <1>1, <2>1
  <2> HIDE DEF r
  <2>4. \A i \in 1 .. Len(q) + 1 : r[i] = n[i]
    <3> TAKE i \in 1 .. Len(q) + 1
    <3>1. CASE i < k
      <4>1. i \in 1 .. Len(q) /\ i \in 1 .. Len(c) + 1
        BY <3>1, <1>2
      <4>2. r[i] = f[m[i]] /\ m[i] = q[i]
        BY <3>1, <2>1, <2>3
      <4>3. n[i] = c[i] /\ c[i] = f[q[i]]
        BY <3>1, <4>1, <1>2, <2>2
      <4> QED
        BY <4>2, <4>3
    <3>2. CASE i = k
      BY <3>2, <1>2, <2>1, <2>2, <2>3
    <3>3. CASE i > k
      <4>1. i - 1 \in 1 .. Len(q) /\ ~(i < k) /\ i # k
        BY <3>3
      <4>2. r[i] = f[m[i]] /\ m[i] = q[i - 1]
        BY <4>1, <2>1, <2>3
      <4>3. n[i] = c[i - 1]
        BY <4>1, <1>2, <2>2
      <4>4. c[i - 1] = f[q[i - 1]]
        BY <4>1, <1>2
      <4> QED
        BY <4>2, <4>3, <4>4
    <3> QED
      BY <3>1, <3>2, <3>3
  <2>5. r = n
    BY <1>2, <2>2, <2>3, <2>4, SameSequence
  <2> QED
    BY <2>5 DEF r, m, n
<1>6. ASSUME NEW k \in 1 .. Len(q)
      PROVE  Data(RemoveAt(q, k), f) = RemoveAt(c, k)
  <2> DEFINE m == RemoveAt(q, k)
             n == RemoveAt(c, k)
             r == Data(m, f)
  <2>1. /\ m \in Seq(TASK) /\ Len(m) = Len(q) - 1
        /\ \A i \in 1 .. Len(q) - 1 : m[i] = IF i < k THEN q[i] ELSE q[i + 1]
    BY RemoveAtFacts
  <2>2. /\ n \in Seq(A) /\ Len(n) = Len(c) - 1
        /\ \A i \in 1 .. Len(c) - 1 : n[i] = IF i < k THEN c[i] ELSE c[i + 1]
    <3>1. k \in 1 .. Len(c)
      BY <1>2
    <3> QED
      BY <3>1, <1>2, RemoveAtFacts
  <2> HIDE DEF m, n
  <2>3. r \in Seq(A) /\ Len(r) = Len(q) - 1 /\ \A i \in 1 .. Len(q) - 1 : r[i] = f[m[i]]
    BY <1>1, <2>1
  <2> HIDE DEF r
  <2>4. \A i \in 1 .. Len(q) - 1 : r[i] = n[i]
    <3> TAKE i \in 1 .. Len(q) - 1
    <3>1. i \in 1 .. Len(q) /\ i + 1 \in 1 .. Len(q) /\ Len(q) \in Nat
      OBVIOUS
    <3> QED
      BY <3>1, <1>2, <2>1, <2>2, <2>3
  <2>5. r = n
    BY <1>2, <2>2, <2>3, <2>4, SameSequence
  <2> QED
    BY <2>5 DEF r, m, n
<1> QED
  BY <1>2, <1>3, <1>4, <1>5, <1>6 DEF c

\* The same data are offered when the tasks of the queue offer the same.
LEMMA SameData ==
    ASSUME NEW q \in Seq(TASK), NEW f, NEW g, \A t \in TASK : Contains(q, t) => f[t] = g[t]
    PROVE  Data(q, f) = Data(q, g)
<1>1. ASSUME NEW i \in DOMAIN q
      PROVE  f[q[i]] = g[q[i]]
  <2>1. q[i] \in TASK /\ Contains(q, q[i])
    BY DEF Contains
  <2> QED
    BY <2>1
<1> QED
  BY <1>1 DEF Data

-----------------------------------------------------------------------------
\* The refinement mapping

Words == DATA \cup {NoData}

\* The contents of a buffer of any size
LEMMA ContentsAreWords ==
    ASSUME NEW n, NEW q, RingOk(q, n)
    PROVE  Contents(q, n) \in Seq(Words) /\ Len(Contents(q, n)) = q.count
<1>1. q.count \in Nat
  BY DEF RingOk, RingType
<1>2. ASSUME NEW i \in 1 .. q.count
      PROVE  q.mb[Place(q, n, i - 1)] \in Words
  <2>1. Contents(q, n)[i] = q.mb[Place(q, n, i - 1)]
    BY DEF Contents
  <2> QED
    BY <2>1 DEF RingOk, Words
<1> QED
  BY <1>1, <1>2 DEF Contents

\* The stream of a data queue in its two parts
LEMMA StreamFacts ==
    ASSUME DtqInv, NEW d \in DTQ
    PROVE  LET c == Contents(dtqcb[d], Cap[d])
               o == Data(wait_queue[Snd(d)], winfo)
           IN  /\ c \in Seq(Words) /\ Len(c) = dtqcb[d].count
               /\ o \in Seq(Words) /\ Len(o) = Len(wait_queue[Snd(d)])
               /\ Stream = [e \in DTQ |-> Stream[e]]
               /\ d \in dtqexist => Stream[d] = c \o o
               /\ d \notin dtqexist => Stream[d] = <<>>
               /\ Receivers = [e \in DTQ |-> Receivers[e]]
               /\ Receivers[d] = wait_queue[Rcv(d)] /\ Receivers[d] \in Seq(TASK)
<1>1. RingOk(dtqcb[d], Cap[d]) /\ dtqcb[d].count \in Nat
  BY DtqFacts
<1>2. Contents(dtqcb[d], Cap[d]) \in Seq(Words) /\ Len(Contents(dtqcb[d], Cap[d])) = dtqcb[d].count
  BY <1>1, ContentsAreWords
<1>3. /\ Snd(d) \in WQUEUE /\ Rcv(d) \in WQUEUE
      /\ wait_queue[Snd(d)] \in Seq(TASK) /\ wait_queue[Rcv(d)] \in Seq(TASK)
  BY QueueNames, DtqFacts
<1>4. winfo \in [TASK -> Words]
  BY DEF DtqInv, Words
<1> DEFINE o == Data(wait_queue[Snd(d)], winfo)
<1>5. o \in Seq(Words) /\ Len(o) = Len(wait_queue[Snd(d)])
  BY <1>3, <1>4, DataMoves
<1>6. Offered(d) = o
  BY DEF Offered, Data
<1> HIDE DEF o
<1>7. /\ Stream = [e \in DTQ |-> Stream[e]]
      /\ d \in dtqexist => Stream[d] = Contents(dtqcb[d], Cap[d]) \o o
      /\ d \notin dtqexist => Stream[d] = <<>>
  BY <1>6 DEF Stream
<1>8. Receivers = [e \in DTQ |-> Receivers[e]] /\ Receivers[d] = wait_queue[Rcv(d)]
  BY DEF Receivers
<1> QED
  BY <1>2, <1>3, <1>5, <1>7, <1>8 DEF o

\* Nothing happens to the data queues but d; old are the data offered.
OnlyTo(d, old) ==
    /\ \A e \in DTQ, t \in TASK : Contains(wait_queue'[Snd(e)], t) => winfo'[t] = old[t]
    /\ \A e \in DTQ \ {d} :
          /\ \A t \in TASK : Contains(wait_queue[Snd(e)], t) => old[t] = winfo[t]
          /\ dtqcb'[e] = dtqcb[e] /\ (e \in dtqexist' <=> e \in dtqexist)
          /\ wait_queue'[Snd(e)] = wait_queue[Snd(e)] /\ wait_queue'[Rcv(e)] = wait_queue[Rcv(e)]

\* Such a step changes one stream.
LEMMA OneStream ==
    ASSUME DtqInv, DtqInv', NEW d \in DTQ, NEW old, OnlyTo(d, old)
    PROVE  /\ Receivers' = [Receivers EXCEPT ![d] = wait_queue'[Rcv(d)]]
           /\ Stream' = [Stream EXCEPT ![d] =
                            IF d \in dtqexist'
                            THEN Contents(dtqcb'[d], Cap[d]) \o Data(wait_queue'[Snd(d)], old)
                            ELSE <<>>]
<1> DEFINE here == IF d \in dtqexist'
                   THEN Contents(dtqcb'[d], Cap[d]) \o Data(wait_queue'[Snd(d)], old)
                   ELSE <<>>
<1>1. ASSUME NEW e \in DTQ
      PROVE  /\ wait_queue[Snd(e)] \in Seq(TASK) /\ wait_queue'[Snd(e)] \in Seq(TASK)
             /\ Data(wait_queue'[Snd(e)], winfo') = Data(wait_queue'[Snd(e)], old)
  <2>1. wait_queue[Snd(e)] \in Seq(TASK) /\ wait_queue'[Snd(e)] \in Seq(TASK)
    BY QueueNames DEF DtqInv, WaitInv, QueuesHold
  <2>2. \A t \in TASK : Contains(wait_queue'[Snd(e)], t) => winfo'[t] = old[t]
    BY DEF OnlyTo
  <2> QED
    BY <2>1, <2>2, SameData
<1>2. Stream' = [e \in DTQ |-> IF e \in dtqexist'
                               THEN Contents(dtqcb'[e], Cap[e]) \o Data(wait_queue'[Snd(e)], winfo')
                               ELSE <<>>]
  BY DEF Stream, Offered, Data
<1>3. ASSUME NEW e \in DTQ, e # d
      PROVE  Stream'[e] = Stream[e] /\ Receivers'[e] = Receivers[e]
  <2>1. /\ wait_queue'[Snd(e)] = wait_queue[Snd(e)] /\ wait_queue'[Rcv(e)] = wait_queue[Rcv(e)]
        /\ dtqcb'[e] = dtqcb[e] /\ (e \in dtqexist' <=> e \in dtqexist)
        /\ \A t \in TASK : Contains(wait_queue[Snd(e)], t) => old[t] = winfo[t]
    BY <1>3 DEF OnlyTo
  <2>2. Data(wait_queue[Snd(e)], old) = Data(wait_queue[Snd(e)], winfo)
    BY <1>1, <2>1, SameData
  <2> DEFINE old_d == Data(wait_queue[Snd(e)], winfo)
             new_d == Data(wait_queue'[Snd(e)], winfo')
  <2>3. new_d = old_d
    BY <1>1, <2>1, <2>2
  <2>4. /\ Stream[e] = IF e \in dtqexist THEN Contents(dtqcb[e], Cap[e]) \o old_d ELSE <<>>
        /\ Stream'[e] = IF e \in dtqexist' THEN Contents(dtqcb'[e], Cap[e]) \o new_d ELSE <<>>
    BY <1>2 DEF Stream, Offered, Data
  <2>5. Receivers'[e] = Receivers[e]
    BY <2>1 DEF Receivers
  <2> HIDE DEF old_d, new_d
  <2> QED
    BY <2>1, <2>3, <2>4, <2>5
<1>4. Stream'[d] = here /\ Receivers'[d] = wait_queue'[Rcv(d)]
  BY <1>1, <1>2 DEF Receivers
<1>5. /\ Stream = [e \in DTQ |-> Stream[e]] /\ Stream' = [e \in DTQ |-> Stream'[e]]
      /\ Receivers = [e \in DTQ |-> Receivers[e]] /\ Receivers' = [e \in DTQ |-> Receivers'[e]]
  BY DEF Stream, Receivers
<1> HIDE DEF here
<1>6. Stream' = [Stream EXCEPT ![d] = here] /\ Receivers' = [Receivers EXCEPT ![d] = wait_queue'[Rcv(d)]]
  BY <1>3, <1>4, <1>5
<1> QED
  BY <1>6 DEF here

-----------------------------------------------------------------------------
\* The calls that do not wait

\* In the record k of a call on d, its stream is s and r wait to receive.
Shows(k, d, s, r) ==
    /\ \A e \in DTQ \ {d} :
          /\ k.dtqcb[e] = dtqcb[e]
          /\ k.wait_queue[Snd(e)] = wait_queue[Snd(e)] /\ k.wait_queue[Rcv(e)] = wait_queue[Rcv(e)]
    /\ Contents(k.dtqcb[d], Cap[d]) \o Data(k.wait_queue[Snd(d)], winfo) = s
    /\ k.wait_queue[Rcv(d)] = r

\* The record a call starts with
LEMMA DStateShows ==
    ASSUME DtqInv, NEW d \in dtqexist
    PROVE  Shows(DState, d, Stream[d], Receivers[d])
<1>1. d \in DTQ
  BY DEF DtqInv
<1> QED
  BY <1>1, DStateFields, StreamFacts DEF Shows

\* The two parts of the stream in a record
LEMMA ShownParts ==
    ASSUME DtqInv, NEW k, KInv(k, {}), DInv(k), NEW d \in DTQ
    PROVE  LET c == Contents(k.dtqcb[d], Cap[d])
               q == k.wait_queue[Snd(d)]
           IN  /\ c \in Seq(Words) /\ Len(c) = k.dtqcb[d].count
               /\ q \in Seq(TASK) /\ winfo \in [TASK -> Words]
               /\ Data(q, winfo) \in Seq(Words) /\ Len(Data(q, winfo)) = Len(q)
               /\ q = <<>> => Data(q, winfo) = <<>>
               /\ k.dtqcb[d].count \in Nat /\ Cap[d] \in Nat
               /\ RingOk(k.dtqcb[d], Cap[d]) /\ NoneInVain(k.dtqcb, k.wait_queue, d)
               /\ k.dtqcb = [e \in DTQ |-> k.dtqcb[e]]
               /\ k.wait_queue \in [WQUEUE -> Seq(TASK)]
<1>1. RingOk(k.dtqcb[d], Cap[d]) /\ NoneInVain(k.dtqcb, k.wait_queue, d) /\ k.dtqcb = [e \in DTQ |-> k.dtqcb[e]]
  BY DEF DInv
<1>2. k.wait_queue[Snd(d)] \in Seq(TASK) /\ winfo \in [TASK -> Words] /\ k.wait_queue \in [WQUEUE -> Seq(TASK)]
  BY QueueNames, QueueOfTasks DEF DtqInv, Words
<1>3. k.dtqcb[d].count \in Nat /\ Cap[d] \in Nat
  BY <1>1, QueueNames DEF RingOk, RingType
<1> QED
  BY <1>1, <1>2, <1>3, ContentsAreWords, DataMoves

\* What a call that does not wait makes of the streams
LEMMA TransferShows ==
    ASSUME DtqInv, NEW d \in dtqexist, NEW k, DMoved(DState, k), Transfer(k),
           NEW s, NEW r, Shows(k, d, s, r)
    PROVE  /\ Stream' = [Stream EXCEPT ![d] = s] /\ Receivers' = [Receivers EXCEPT ![d] = r]
           /\ delivered' = k.delivered /\ dtqexist' = dtqexist
<1>1. DtqInv' /\ d \in DTQ
  BY TransferKeeps DEF DtqInv
<1>2. /\ dtqcb' = k.dtqcb /\ delivered' = k.delivered /\ wait_queue' = k.wait_queue
      /\ WinfoScope(winfo) /\ dtqexist' = dtqexist
  BY DEF Transfer, DCommit, Commit
<1>3. OnlyTo(d, winfo)
  <2>1. ASSUME NEW e \in DTQ, NEW t \in TASK, Contains(wait_queue'[Snd(e)], t)
        PROVE  winfo'[t] = winfo[t]
    BY <1>2, <2>1 DEF WinfoScope
  <2>2. \A e \in DTQ \ {d} :
          /\ dtqcb'[e] = dtqcb[e] /\ (e \in dtqexist' <=> e \in dtqexist)
          /\ wait_queue'[Snd(e)] = wait_queue[Snd(e)] /\ wait_queue'[Rcv(e)] = wait_queue[Rcv(e)]
    BY <1>2 DEF Shows
  <2> QED
    BY <2>1, <2>2 DEF OnlyTo
<1>4. /\ Receivers' = [Receivers EXCEPT ![d] = wait_queue'[Rcv(d)]]
      /\ Stream' = [Stream EXCEPT ![d] =
                       IF d \in dtqexist'
                       THEN Contents(dtqcb'[d], Cap[d]) \o Data(wait_queue'[Snd(d)], winfo)
                       ELSE <<>>]
  BY <1>1, <1>3, OneStream
<1> QED
  BY <1>2, <1>4 DEF Shows

\* A datum is sent: to the first receiver, or to the end of the stream, which then
\* is in the buffer alone.
LEMMA SendShows ==
    ASSUME DtqInv, NEW k, KInv(k, {}), DInv(k), NEW d \in DTQ, NEW x \in DATA, CanSend(k, d),
           NEW s, NEW r, Shows(k, d, s, r)
    PROVE  LET n == SendData(k, d, x)
           IN  /\ r # <<>> => /\ Shows(n, d, s, Tail(r))
                              /\ n.delivered = Append(k.delivered, <<Head(r), x>>)
               /\ r = <<>> => /\ Shows(n, d, Append(s, x), r) /\ n.delivered = k.delivered
                              /\ s \in Seq(Words) /\ Len(s) < Cap[d]
<1> DEFINE n == SendData(k, d, x)
           c == Contents(k.dtqcb[d], Cap[d])
           o == Data(k.wait_queue[Snd(d)], winfo)
<1>1. SentTo(k, n, d, x)
  BY SendDataKeeps
<1> HIDE DEF n
<1>2. r = k.wait_queue[Rcv(d)] /\ s = c \o o
  BY DEF Shows
<1>3. CASE r # <<>>
  <2>1. HandedTo(k, n, d, x)
    BY <1>1, <1>2, <1>3 DEF SentTo
  <2>2. /\ n.dtqcb = k.dtqcb /\ n.wait_queue = [k.wait_queue EXCEPT ![Rcv(d)] = Tail(@)]
        /\ n.delivered = Append(k.delivered, <<Head(r), x>>)
    BY <1>2, <2>1 DEF HandedTo
  <2>3. /\ n.wait_queue[Rcv(d)] = Tail(r)
        /\ \A w \in WQUEUE \ {Rcv(d)} : n.wait_queue[w] = k.wait_queue[w]
    BY <1>2, <2>2, QueueNames, ShownParts
  <2>4. Shows(n, d, s, Tail(r))
    BY <1>2, <2>2, <2>3, QueueNames DEF Shows
  <2> QED
    BY <1>3, <2>2, <2>4 DEF n
<1>4. CASE r = <<>>
  <2> DEFINE b == EnqueueData(k.dtqcb[d], Cap[d], x)
  <2>1. Stored(k, n, d, b)
    BY <1>1, <1>2, <1>4 DEF SentTo
  <2>2. k.dtqcb[d].count < Cap[d]
    BY <1>2, <1>4 DEF CanSend
  <2>3. k.wait_queue[Snd(d)] = <<>>
    <3>1. NoneInVain(k.dtqcb, k.wait_queue, d) /\ k.dtqcb[d].count \in Nat
      BY ShownParts
    <3> QED
      BY <2>2, <3>1 DEF NoneInVain
  <2>4. c \in Seq(Words) /\ Len(c) = k.dtqcb[d].count /\ o = <<>> /\ s = c
    <3>1. c \in Seq(Words) /\ Len(c) = k.dtqcb[d].count /\ o = <<>>
      BY <2>3, ShownParts
    <3> HIDE DEF c, o
    <3> QED
      BY <3>1, <1>2
  <2>5. Contents(b, Cap[d]) = Append(c, x)
    BY <2>2, ShownParts, EnqueueAppends
  <2>6. /\ n.dtqcb = [k.dtqcb EXCEPT ![d] = b] /\ n.wait_queue = k.wait_queue
        /\ n.delivered = k.delivered
    BY <2>1 DEF Stored
  <2> HIDE DEF b, c
  <2>7. n.dtqcb[d] = b /\ \A e \in DTQ \ {d} : n.dtqcb[e] = k.dtqcb[e]
    BY <2>6, ShownParts
  <2>8. Append(c, x) \o o = Append(c, x)
    BY <2>4 DEF Words
  <2>9. Shows(n, d, Append(s, x), r)
    <3>1. Contents(n.dtqcb[d], Cap[d]) \o Data(n.wait_queue[Snd(d)], winfo) = Append(s, x)
      BY <2>4, <2>5, <2>6, <2>7, <2>8
    <3> QED
      BY <3>1, <1>2, <2>6, <2>7 DEF Shows
  <2> QED
    BY <1>4, <2>2, <2>4, <2>6, <2>9 DEF n
<1> QED
  BY <1>3, <1>4

\* The parts of a queue from which one or two receivers go
LEMMA ReceiverParts ==
    ASSUME NEW A, NEW r \in Seq(A)
    PROVE  /\ SubSeq(r, 1, Len(r)) = r
           /\ r # <<>> => SubSeq(r, 2, Len(r)) = Tail(r)
           /\ r # <<>> /\ Tail(r) # <<>> => SubSeq(r, 3, Len(r)) = Tail(Tail(r))
<1>1. SubSeq(r, 1, Len(r)) = r
  OBVIOUS
<1>2. r # <<>> => SubSeq(r, 2, Len(r)) = Tail(r)
  OBVIOUS
<1>3. r # <<>> /\ Tail(r) # <<>> => SubSeq(r, 3, Len(r)) = Tail(Tail(r))
  OBVIOUS
<1> QED
  BY <1>1, <1>2, <1>3

\* The parts of the datum of a send
LEMMA OneDatum ==
    ASSUME NEW A, NEW x \in A, NEW s \in Seq(A), NEW a, a = <<x>>
    PROVE  /\ a \in Seq(A) /\ Len(a) = 1 /\ a[1] = x
           /\ SubSeq(a, 2, 1) = <<>> /\ SubSeq(a, 1, 1) = a
           /\ s \o <<>> = s /\ s \o a = Append(s, x)
<1>1. a \in Seq(A) /\ Len(a) = 1 /\ a[1] = x
  OBVIOUS
<1>2. SubSeq(a, 2, 1) = <<>> /\ SubSeq(a, 1, 1) = a
  BY ONLY <1>1
<1>3. s \o <<>> = s /\ s \o a = Append(s, x)
  OBVIOUS
<1> QED
  BY <1>1, <1>2, <1>3

\* What the receivers get
LEMMA SendDeliveries ==
    ASSUME NEW A, NEW x \in A, NEW y \in A, NEW r \in Seq(TASK)
    PROVE  /\ [i \in 1 .. 0 |-> <<r[i], <<x>>[i]>>] = <<>>
           /\ [i \in 1 .. 0 |-> <<r[i], <<x, y>>[i]>>] = <<>>
           /\ r # <<>> => /\ [i \in 1 .. 1 |-> <<r[i], <<x>>[i]>>] = <<<<Head(r), x>>>>
                          /\ [i \in 1 .. 1 |-> <<r[i], <<x, y>>[i]>>] = <<<<Head(r), x>>>>
           /\ r # <<>> /\ Tail(r) # <<>> =>
                [i \in 1 .. 2 |-> <<r[i], <<x, y>>[i]>>] = <<<<Head(r), x>>, <<Head(Tail(r)), y>>>>
<1>1. /\ [i \in 1 .. 0 |-> <<r[i], <<x>>[i]>>] = <<>>
      /\ [i \in 1 .. 0 |-> <<r[i], <<x, y>>[i]>>] = <<>>
  OBVIOUS
<1>2. r # <<>> => [i \in 1 .. 1 |-> <<r[i], <<x>>[i]>>] = <<<<Head(r), x>>>>
  OBVIOUS
<1>3. r # <<>> => [i \in 1 .. 1 |-> <<r[i], <<x, y>>[i]>>] = <<<<Head(r), x>>>>
  OBVIOUS
<1>4. r # <<>> /\ Tail(r) # <<>> =>
        [i \in 1 .. 2 |-> <<r[i], <<x, y>>[i]>>] = <<<<Head(r), x>>, <<Head(Tail(r)), y>>>>
  OBVIOUS
<1> QED
  BY <1>1, <1>2, <1>3, <1>4

\* A send of the channel
LEMMA IsSend ==
    ASSUME NEW d \in DTQ, NEW s, NEW k,
           k = (IF Len(s) < Len(Receivers[d]) THEN Len(s) ELSE Len(Receivers[d])),
           NEW e, e = [i \in 1 .. k |-> <<Receivers[d][i], s[i]>>], delivered' = e,
           NEW z, z = Stream[d] \o SubSeq(s, k + 1, Len(s)), Stream' = [Stream EXCEPT ![d] = z],
           Len(Stream'[d]) <= Cap[d] \/ k = Len(s),
           NEW r, r = SubSeq(Receivers[d], k + 1, Len(Receivers[d])),
           Receivers' = [Receivers EXCEPT ![d] = r]
    PROVE  Channel!Send(d, s)
  BY DEF Channel!Send

\* One datum has been sent: to the first receiver, or into the buffer.
SentOne(k, d, x) ==
    /\ DMoved(DState, k)
    /\ IF Receivers[d] # <<>>
       THEN Shows(k, d, Stream[d], Tail(Receivers[d])) /\ k.delivered = <<<<Head(Receivers[d]), x>>>>
       ELSE Shows(k, d, Append(Stream[d], x), <<>>) /\ k.delivered = <<>> /\ Len(Stream[d]) < Cap[d]

\* What DtqInv says of the stream and the receivers of a data queue
LEMMA ChannelTypes ==
    ASSUME DtqInv, NEW d \in DTQ
    PROVE  /\ Stream[d] \in Seq(Words) /\ Receivers[d] \in Seq(TASK) /\ Cap[d] \in Nat
           /\ Stream = [e \in DTQ |-> Stream[e]] /\ Receivers = [e \in DTQ |-> Receivers[e]]
<1> DEFINE c == Contents(dtqcb[d], Cap[d])
           o == Data(wait_queue[Snd(d)], winfo)
<1>1. /\ c \in Seq(Words) /\ o \in Seq(Words) /\ Receivers[d] \in Seq(TASK) /\ Cap[d] \in Nat
      /\ Stream[d] = c \o o \/ Stream[d] = <<>>
      /\ Stream = [e \in DTQ |-> Stream[e]] /\ Receivers = [e \in DTQ |-> Receivers[e]]
  BY StreamFacts, QueueNames
<1> HIDE DEF c, o
<1>2. c \o o \in Seq(Words) /\ <<>> \in Seq(Words)
  BY <1>1
<1> QED
  BY <1>1, <1>2

\* send_data seen from the channel
LEMMA SendDataIsSentOne ==
    ASSUME DtqInv, NEW d \in dtqexist, NEW x \in DATA, CanSend(DState, d)
    PROVE  SentOne(SendData(DState, d, x), d, x)
<1> DEFINE n == SendData(DState, d, x)
           s == Stream[d]
           r == Receivers[d]
<1>1. d \in DTQ /\ KInv(DState, {}) /\ DInv(DState) /\ DState.delivered = <<>>
  BY DStateInv, DStateFields DEF DtqInv
<1>2. DMoved(DState, n)
  BY <1>1, SendDataKeeps
<1>3. Shows(DState, d, s, r)
  BY DStateShows
<1> HIDE DEF s, r
<1>4. /\ r # <<>> => /\ Shows(n, d, s, Tail(r))
                     /\ n.delivered = Append(DState.delivered, <<Head(r), x>>)
      /\ r = <<>> => Shows(n, d, Append(s, x), r) /\ n.delivered = DState.delivered /\ Len(s) < Cap[d]
  <2>1. /\ d \in DTQ /\ KInv(DState, {}) /\ DInv(DState) /\ Shows(DState, d, s, r)
        /\ CanSend(DState, d)
    BY <1>1, <1>3
  <2> QED
    BY ONLY DtqInv, <2>1, x \in DATA, SendShows
<1> HIDE DEF n
<1>5. Append(<<>>, <<Head(r), x>>) = <<<<Head(r), x>>>>
  OBVIOUS
<1>6. IF r # <<>> THEN Shows(n, d, s, Tail(r)) /\ n.delivered = <<<<Head(r), x>>>>
      ELSE Shows(n, d, Append(s, x), <<>>) /\ n.delivered = <<>> /\ Len(s) < Cap[d]
  BY <1>1, <1>4, <1>5
<1> QED
  BY <1>2, <1>6 DEF SentOne, n, s, r

\* It is a send of the channel.
LEMMA SentOneIsSend ==
    ASSUME DtqInv, NEW d \in dtqexist, NEW x \in DATA, NEW k, SentOne(k, d, x), Transfer(k)
    PROVE  Channel!Send(d, <<x>>) /\ dtqexist' = dtqexist
<1> DEFINE s == Stream[d]
           r == Receivers[d]
           b == <<x>>
<1>1. d \in DTQ /\ DMoved(DState, k)
  BY DEF DtqInv, SentOne
<1>2. /\ s \in Seq(Words) /\ r \in Seq(TASK) /\ Cap[d] \in Nat /\ x \in Words
      /\ Stream = [e \in DTQ |-> Stream[e]] /\ Receivers = [e \in DTQ |-> Receivers[e]]
  BY <1>1, ChannelTypes DEF Words
<1>3. /\ b \in Seq(Words) /\ Len(b) = 1 /\ b[1] = x
      /\ SubSeq(b, 2, 1) = <<>> /\ SubSeq(b, 1, 1) = b
      /\ s \o <<>> = s /\ s \o b = Append(s, x)
  <2>1. b = <<x>>
    OBVIOUS
  <2> HIDE DEF s, r, b
  <2> QED
    BY ONLY <1>2, <2>1, OneDatum
<1>4. SubSeq(r, 1, Len(r)) = r /\ (r # <<>> => SubSeq(r, 2, Len(r)) = Tail(r))
  BY <1>2, ReceiverParts
<1>5. /\ [i \in 1 .. 0 |-> <<r[i], b[i]>>] = <<>>
      /\ r # <<>> => [i \in 1 .. 1 |-> <<r[i], b[i]>>] = <<<<Head(r), x>>>>
  BY <1>2, SendDeliveries
<1> HIDE DEF s, r, b
<1>6. CASE r # <<>>
  <2>1. Shows(k, d, s, Tail(r)) /\ k.delivered = <<<<Head(r), x>>>>
    BY <1>6 DEF SentOne, s, r
  <2>2. /\ Stream' = [Stream EXCEPT ![d] = s] /\ Receivers' = [Receivers EXCEPT ![d] = Tail(r)]
        /\ delivered' = <<<<Head(r), x>>>> /\ dtqexist' = dtqexist
    BY <1>1, <2>1, TransferShows
  <2>3. PICK j \in Nat : j = 1
    OBVIOUS
  <2>4. Len(r) \in Nat /\ Len(r) >= 1
    BY <1>2, <1>6
  <2>5. /\ j = (IF Len(b) < Len(r) THEN Len(b) ELSE Len(r)) /\ j = Len(b)
        /\ s = s \o SubSeq(b, j + 1, Len(b)) /\ Tail(r) = SubSeq(r, j + 1, Len(r))
    <3>1. j = (IF Len(b) < Len(r) THEN Len(b) ELSE Len(r)) /\ j = Len(b) /\ j + 1 = 2
      BY <2>3, <2>4, <1>3
    <3> QED
      BY <3>1, <1>3, <1>4, <1>6
  <2>6. delivered' = [i \in 1 .. j |-> <<r[i], b[i]>>]
    BY <2>2, <2>3, <1>5, <1>6
  <2>7. Channel!Send(d, b)
    BY <1>1, <2>2, <2>5, <2>6, IsSend DEF s, r
  <2> QED
    BY <2>2, <2>7 DEF b
<1>7. CASE r = <<>>
  <2> DEFINE z == Append(s, x)
  <2>1. Shows(k, d, z, r) /\ k.delivered = <<>> /\ Len(s) < Cap[d]
    BY <1>7 DEF SentOne, s, r
  <2> HIDE DEF z
  <2>2. /\ Stream' = [Stream EXCEPT ![d] = z] /\ Receivers' = [Receivers EXCEPT ![d] = r]
        /\ delivered' = <<>> /\ dtqexist' = dtqexist
    BY <1>1, <2>1, TransferShows
  <2>3. PICK j \in Nat : j = 0
    OBVIOUS
  <2>4. Len(r) = 0
    BY <1>7
  <2>5. /\ j = (IF Len(b) < Len(r) THEN Len(b) ELSE Len(r))
        /\ z = s \o SubSeq(b, j + 1, Len(b)) /\ r = SubSeq(r, j + 1, Len(r))
    BY <2>3, <2>4, <1>3, <1>4 DEF z
  <2>6. delivered' = [i \in 1 .. j |-> <<r[i], b[i]>>]
    BY <2>2, <2>3, <1>5
  <2>7. Len(Stream'[d]) <= Cap[d]
    <3>1. Len(z) = Len(s) + 1 /\ Len(s) \in Nat
      BY <1>2 DEF z
    <3>2. Stream'[d] = z
      BY <1>1, <1>2, <2>2
    <3> QED
      BY <3>1, <3>2, <2>1, <1>2
  <2>8. Channel!Send(d, b)
    BY <1>1, <2>2, <2>5, <2>6, <2>7, IsSend DEF s, r
  <2> QED
    BY <2>2, <2>8 DEF b
<1> QED
  BY <1>6, <1>7

\* The two sends of psnd_dtq_ndata are one send of the channel.
LEMMA NdataIsSend ==
    ASSUME DtqInv, NEW d \in DTQ, NEW x \in DATA, NEW y \in DATA, PsndDtqNdata(d, <<x, y>>)
    PROVE  d \in dtqexist /\ Channel!Send(d, <<x, y>>) /\ dtqexist' = dtqexist
<1> DEFINE s == Stream[d]
           r == Receivers[d]
           b == <<x, y>>
           a == SendData(DState, d, x)
           n == SendData(a, d, y)
<1>1. /\ CanSend(DState, d) /\ CanSend(a, d) /\ d \in dtqexist
      /\ DMoved(DState, a) /\ DMoved(DState, n) /\ Transfer(n)
  BY NdataMoves
<1>2. SentOne(a, d, x)
  BY <1>1, SendDataIsSentOne
<1>3. /\ s \in Seq(Words) /\ r \in Seq(TASK) /\ Cap[d] \in Nat /\ x \in Words /\ y \in Words
      /\ Stream = [e \in DTQ |-> Stream[e]] /\ Receivers = [e \in DTQ |-> Receivers[e]]
  BY ChannelTypes DEF Words
<1>4. /\ b \in Seq(Words) /\ Len(b) = 2
      /\ SubSeq(b, 3, 2) = <<>> /\ SubSeq(b, 2, 2) = <<y>> /\ SubSeq(b, 1, 2) = b
      /\ s \o <<>> = s /\ s \o <<y>> = Append(s, y) /\ s \o b = Append(Append(s, x), y)
  <2> DEFINE h == <<y>>
             m == SubSeq(b, 2, 2)
             n0 == SubSeq(b, 3, 2)
             e == Append(s, x)
             f == Append(e, y)
             g == s \o b
  <2>1. b \in Seq(Words) /\ Len(b) = 2 /\ b[1] = x /\ b[2] = y
    BY <1>3
  <2>2. s \in Seq(Words) /\ x \in Words /\ y \in Words
    BY <1>3
  <2> HIDE DEF s, r, b
  <2>3. m \in Seq(Words) /\ Len(m) = 1 /\ m[1] = b[2] /\ n0 \in Seq(Words) /\ Len(n0) = 0
    BY ONLY <2>1
  <2>4. h \in Seq(Words) /\ Len(h) = 1 /\ h[1] = y
    BY ONLY <2>2
  <2>5. s \o <<>> = s /\ s \o h = Append(s, y)
    BY ONLY <2>2
  <2> HIDE DEF h, m, n0
  <2>6. m = h /\ n0 = <<>>
    BY ONLY <2>1, <2>3, <2>4
  <2>7. SubSeq(b, 1, 2) = b
    BY ONLY <2>1
  <2>8. g = f
    <3>1. /\ e \in Seq(Words) /\ Len(e) = Len(s) + 1 /\ e[Len(s) + 1] = x
          /\ \A i \in 1 .. Len(s) : e[i] = s[i]
      BY ONLY <2>2
    <3>2. /\ g \in Seq(Words) /\ Len(g) = Len(s) + 2
          /\ \A i \in 1 .. Len(s) : g[i] = s[i]
          /\ g[Len(s) + 1] = x /\ g[Len(s) + 2] = y
      <4>1. /\ g \in Seq(Words) /\ Len(g) = Len(s) + Len(b)
            /\ \A i \in 1 .. Len(s) : g[i] = s[i]
            /\ \A i \in 1 .. Len(b) : g[i + Len(s)] = b[i]
        <5>1. s \in Seq(Words) /\ b \in Seq(Words)
          BY <2>1, <2>2
        <5> QED
          BY ONLY <5>1, ConcatFacts
      <4> HIDE DEF g
      <4>2. Len(s) \in Nat /\ 1 \in 1 .. Len(b) /\ 2 \in 1 .. Len(b)
        BY <2>1, <2>2
      <4>3. g[1 + Len(s)] = x /\ g[2 + Len(s)] = y
        BY <4>1, <4>2, <2>1
      <4> QED
        BY <4>1, <4>2, <4>3, <2>1
    <3> HIDE DEF e, g
    <3>3. /\ f \in Seq(Words) /\ Len(f) = Len(e) + 1 /\ f[Len(e) + 1] = y
          /\ \A i \in 1 .. Len(e) : f[i] = e[i]
      BY ONLY <3>1, <2>2
    <3> HIDE DEF f
    <3>4. Len(s) \in Nat
      BY <2>2
    <3>5. ASSUME NEW i \in 1 .. Len(s) + 2
          PROVE  g[i] = f[i]
      <4>1. i \in 1 .. Len(s) \/ i = Len(s) + 1 \/ i = Len(s) + 2
        BY <3>4
      <4> QED
        BY <4>1, <3>1, <3>2, <3>3, <3>4
    <3>6. Len(g) = Len(f)
      BY <3>1, <3>2, <3>3, <3>4
    <3> QED
      BY <3>2, <3>3, <3>5, <3>6, SameSequence
  <2> QED
    BY <2>1, <2>5, <2>6, <2>7, <2>8 DEF h, m, n0, e, f, g
<1>5. /\ SubSeq(r, 1, Len(r)) = r
      /\ r # <<>> => SubSeq(r, 2, Len(r)) = Tail(r)
      /\ r # <<>> /\ Tail(r) # <<>> => SubSeq(r, 3, Len(r)) = Tail(Tail(r))
  BY <1>3, ReceiverParts
<1>6. /\ [i \in 1 .. 0 |-> <<r[i], b[i]>>] = <<>>
      /\ r # <<>> => [i \in 1 .. 1 |-> <<r[i], b[i]>>] = <<<<Head(r), x>>>>
      /\ r # <<>> /\ Tail(r) # <<>> =>
            [i \in 1 .. 2 |-> <<r[i], b[i]>>] = <<<<Head(r), x>>, <<Head(Tail(r)), y>>>>
  BY <1>3, SendDeliveries
<1>7. IF r # <<>>
      THEN Shows(a, d, s, Tail(r)) /\ a.delivered = <<<<Head(r), x>>>>
      ELSE Shows(a, d, Append(s, x), <<>>) /\ a.delivered = <<>> /\ Len(s) < Cap[d]
  BY <1>2 DEF SentOne
<1>8. KInv(a, {}) /\ DInv(a)
  BY <1>1 DEF DMoved
<1> HIDE DEF s, r, b, a
<1>9. ASSUME NEW u, NEW v, Shows(a, d, u, v)
      PROVE  /\ v # <<>> => /\ Shows(n, d, u, Tail(v))
                            /\ n.delivered = Append(a.delivered, <<Head(v), y>>)
             /\ v = <<>> => /\ Shows(n, d, Append(u, y), v) /\ n.delivered = a.delivered
                            /\ u \in Seq(Words) /\ Len(u) < Cap[d]
  BY <1>1, <1>8, <1>9, SendShows
<1> HIDE DEF n
<1>10. ASSUME NEW z, NEW v, NEW e, Shows(n, d, z, v), n.delivered = e,
              NEW j \in Nat, j = (IF Len(b) < Len(r) THEN Len(b) ELSE Len(r)),
              e = [i \in 1 .. j |-> <<r[i], b[i]>>], z = s \o SubSeq(b, j + 1, Len(b)),
              Len(z) <= Cap[d] \/ j = Len(b), v = SubSeq(r, j + 1, Len(r))
       PROVE  Channel!Send(d, b) /\ dtqexist' = dtqexist
  <2>1. /\ Stream' = [Stream EXCEPT ![d] = z] /\ Receivers' = [Receivers EXCEPT ![d] = v]
        /\ delivered' = e /\ dtqexist' = dtqexist
    <3>1. d \in dtqexist /\ DMoved(DState, n) /\ Transfer(n) /\ Shows(n, d, z, v) /\ n.delivered = e
      BY <1>1, <1>10
    <3> QED
      BY ONLY DtqInv, <3>1, TransferShows
  <2>2. Stream'[d] = z
    BY <1>3, <2>1
  <2>3. Channel!Send(d, b)
    BY <1>10, <2>1, <2>2, IsSend DEF s, r
  <2> QED
    BY <2>1, <2>3
<1>11. Len(r) \in Nat /\ (r = <<>> <=> Len(r) = 0)
  BY <1>3
<1>12. CASE r = <<>>
  <2> DEFINE z == Append(Append(s, x), y)
  <2>1. Shows(n, d, z, r) /\ n.delivered = <<>> /\ Len(Append(s, x)) < Cap[d] /\ Append(s, x) \in Seq(Words)
    BY <1>7, <1>9, <1>12
  <2>2. PICK j \in Nat : j = 0
    OBVIOUS
  <2>3. /\ j = (IF Len(b) < Len(r) THEN Len(b) ELSE Len(r)) /\ z = s \o SubSeq(b, j + 1, Len(b))
        /\ r = SubSeq(r, j + 1, Len(r)) /\ n.delivered = [i \in 1 .. j |-> <<r[i], b[i]>>]
    BY <2>1, <2>2, <1>4, <1>5, <1>6, <1>11, <1>12
  <2>4. Len(z) <= Cap[d]
    BY <2>1, <1>3
  <2> HIDE DEF z
  <2>5. Channel!Send(d, b) /\ dtqexist' = dtqexist
    BY <2>1, <2>3, <2>4, <1>10
  <2> QED
    BY <2>5, <1>1 DEF b
<1>13. CASE r # <<>> /\ Tail(r) = <<>>
  <2> DEFINE z == Append(s, y)
             e == <<<<Head(r), x>>>>
  <2>1. Shows(n, d, z, Tail(r)) /\ n.delivered = e /\ Len(s) < Cap[d]
    BY <1>7, <1>9, <1>13
  <2>2. PICK j \in Nat : j = 1
    OBVIOUS
  <2>3. Len(r) = 1
    <3>1. Len(Tail(r)) = Len(r) - 1
      <4>1. r \in Seq(TASK) /\ r # <<>>
        BY <1>3, <1>13
      <4> QED
        BY ONLY <4>1
    <3>2. \A q : q = <<>> => Len(q) = 0
      OBVIOUS
    <3>3. Len(Tail(r)) = 0
      BY ONLY <1>13, <3>2, Zenon
    <3> QED
      BY ONLY <3>1, <3>3, <1>11
  <2>4. j = (IF Len(b) < Len(r) THEN Len(b) ELSE Len(r)) /\ j + 1 = 2
    BY <2>2, <2>3, <1>4
  <2>5. /\ z = s \o SubSeq(b, j + 1, Len(b)) /\ Tail(r) = SubSeq(r, j + 1, Len(r))
        /\ e = [i \in 1 .. j |-> <<r[i], b[i]>>]
    BY <2>2, <2>4, <1>4, <1>5, <1>6, <1>13
  <2>6. Len(z) <= Cap[d]
    BY <2>1, <1>3
  <2> HIDE DEF z, e
  <2>7. Channel!Send(d, b) /\ dtqexist' = dtqexist
    BY <2>1, <2>4, <2>5, <2>6, <1>10
  <2> QED
    BY <2>7, <1>1 DEF b
<1>14. CASE r # <<>> /\ Tail(r) # <<>>
  <2> DEFINE e == <<<<Head(r), x>>, <<Head(Tail(r)), y>>>>
  <2>1. Shows(n, d, s, Tail(Tail(r))) /\ n.delivered = e
    <3>1. /\ Shows(n, d, s, Tail(Tail(r))) /\ a.delivered = <<<<Head(r), x>>>>
          /\ n.delivered = Append(a.delivered, <<Head(Tail(r)), y>>)
      BY <1>7, <1>9, <1>14
    <3>2. ASSUME NEW p, NEW q
          PROVE  Append(<<p>>, q) = <<p, q>>
      <4> DEFINE m == Append(<<p>>, q)
                 h == <<p, q>>
      <4>1. /\ m \in Seq({p, q}) /\ Len(m) = 2 /\ m[1] = p /\ m[2] = q
            /\ h \in Seq({p, q}) /\ Len(h) = 2 /\ h[1] = p /\ h[2] = q
        OBVIOUS
      <4> HIDE DEF m, h
      <4>2. m = h
        BY <4>1
      <4> QED
        BY <4>2 DEF m, h
    <3> QED
      BY <3>1, <3>2
  <2>2. PICK j \in Nat : j = 2
    OBVIOUS
  <2>3. Len(r) >= 2
    BY <1>3, <1>14
  <2>4. j = (IF Len(b) < Len(r) THEN Len(b) ELSE Len(r)) /\ j = Len(b) /\ j + 1 = 3
    BY <2>2, <2>3, <1>4, <1>11
  <2>5. /\ s = s \o SubSeq(b, j + 1, Len(b)) /\ Tail(Tail(r)) = SubSeq(r, j + 1, Len(r))
        /\ e = [i \in 1 .. j |-> <<r[i], b[i]>>]
    BY <2>2, <2>4, <1>4, <1>5, <1>6, <1>14
  <2> HIDE DEF e
  <2>6. Channel!Send(d, b) /\ dtqexist' = dtqexist
    BY <2>1, <2>4, <2>5, <1>10
  <2> QED
    BY <2>6, <1>1 DEF b
<1> QED
  BY <1>1, <1>12, <1>13, <1>14

\* force_send_data into a full buffer overwrites the oldest datum, and the waiting
\* senders stay behind the new one; else it is send_data.
LEMMA FsndIsSendOrOverwrite ==
    ASSUME DtqInv, NEW d \in DTQ, NEW x \in DATA, FsndDtq(d, x)
    PROVE  /\ d \in dtqexist /\ dtqexist' = dtqexist
           /\ Channel!Send(d, <<x>>) \/ Channel!Overwrite(d, x)
<1> DEFINE n == ForceSendData(DState, d, x)
           c == Contents(dtqcb[d], Cap[d])
           o == Data(wait_queue[Snd(d)], winfo)
           b == ForceEnqueueData(dtqcb[d], Cap[d], x)
           r == Receivers[d]
<1>1. /\ d \in dtqexist /\ Cap[d] > 0 /\ Transfer(n)
      /\ KInv(DState, {}) /\ DInv(DState) /\ DState.dtqcb = dtqcb /\ DState.wait_queue = wait_queue
      /\ DState.delivered = <<>>
  BY DStateInv, DStateFields DEF FsndDtq
<1>2. CASE CanSend(DState, d)
  <2>1. n = SendData(DState, d, x)
    BY <1>2 DEF ForceSendData, SendData, CanSend, ForceEnqueueData
  <2>2. SentOne(n, d, x)
    BY <1>1, <1>2, <2>1, SendDataIsSentOne
  <2> HIDE DEF n
  <2> QED
    BY <1>1, <2>2, SentOneIsSend
<1>3. CASE ~CanSend(DState, d)
  <2>1. /\ RingOk(dtqcb[d], Cap[d]) /\ dtqcb[d].count \in Nat /\ dtqcb[d].count <= Cap[d]
        /\ Cap[d] \in Nat
    BY DtqFacts, QueueNames
  <2>2. dtqcb[d].count = Cap[d] /\ wait_queue[Rcv(d)] = <<>> /\ Cap[d] \in Nat \ {0}
    BY <1>1, <1>3, <2>1 DEF CanSend
  <2>3. Stored(DState, n, d, b)
    BY <1>1, <2>2, ForceSendDataKeeps
  <2>4. Contents(b, Cap[d]) = Append(Tail(c), x)
    BY <2>1, <2>2, ForceEnqueueDropsOldest
  <2>5. /\ n.dtqcb = [dtqcb EXCEPT ![d] = b] /\ n.wait_queue = wait_queue /\ n.delivered = <<>>
        /\ DMoved(DState, n)
    BY <1>1, <2>3 DEF Stored
  <2>6. n.dtqcb[d] = b /\ \A e \in DTQ \ {d} : n.dtqcb[e] = dtqcb[e]
    BY <2>5, DtqFacts
  <2>7. /\ c \in Seq(Words) /\ Len(c) = Cap[d] /\ o \in Seq(Words) /\ x \in Words
        /\ Stream[d] = c \o o /\ r = <<>> /\ r = wait_queue[Rcv(d)]
        /\ Stream = [e \in DTQ |-> Stream[e]] /\ Receivers = [e \in DTQ |-> Receivers[e]]
    BY <1>1, <2>2, StreamFacts DEF Words
  <2> HIDE DEF b, n, c, o, r
  <2>8. c # <<>>
    BY <2>2, <2>7
  <2>0. PICK j \in Nat : j = Len(c) + 1
    BY <2>7
  <2>9. Append(Tail(c), x) \o o = Tail(InsertAt(c \o o, j, x))
    <3>1. c \in Seq(Words) /\ o \in Seq(Words) /\ c # <<>> /\ x \in Words /\ j = Len(c) + 1
      BY <2>0, <2>7, <2>8
    <3> QED
      BY ONLY <3>1, ForcedIn
  <2> DEFINE z == Append(Tail(c), x) \o o
  <2>10. Shows(n, d, z, r)
    <3>1. Contents(n.dtqcb[d], Cap[d]) \o Data(n.wait_queue[Snd(d)], winfo) = z
      BY <2>4, <2>5, <2>6 DEF c, o
    <3> HIDE DEF z
    <3> QED
      BY <3>1, <2>5, <2>6, <2>7 DEF Shows
  <2>11. z = Tail(InsertAt(Stream[d], Cap[d] + 1, x))
    BY <2>0, <2>7, <2>9
  <2> HIDE DEF z
  <2>12. /\ Stream' = [Stream EXCEPT ![d] = z] /\ Receivers' = [Receivers EXCEPT ![d] = r]
         /\ delivered' = <<>> /\ dtqexist' = dtqexist
    BY <1>1, <2>5, <2>10, TransferShows
  <2>13. Receivers' = Receivers
    BY <2>7, <2>12 DEF r
  <2>14. Len(Stream[d]) >= Cap[d]
    <3>1. c \in Seq(Words) /\ o \in Seq(Words)
      BY <2>7
    <3>2. Len(c \o o) = Len(c) + Len(o) /\ Len(c) \in Nat /\ Len(o) \in Nat
      BY ONLY <3>1, ConcatFacts
    <3> QED
      BY <3>2, <2>7
  <2>15. Channel!Overwrite(d, x)
    BY <1>1, <2>11, <2>12, <2>13, <2>14
       DEF Channel!Overwrite, Channel!Nothing, Channel!InsertAt, InsertAt
  <2> QED
    BY <1>1, <2>12, <2>15
<1> QED
  BY <1>2, <1>3

\* receive_data takes the oldest datum of the stream, be it in the buffer or on the
\* stack of a sender; the datum of the sender let in keeps its place.
LEMMA ReceiveIsTake ==
    ASSUME DtqInv, NEW d \in dtqexist, CanReceive(d), Transfer(ReceiveData(DState, d))
    PROVE  Channel!Take(d, runtsk) /\ dtqexist' = dtqexist
<1> DEFINE n == ReceiveData(DState, d)
           p == dtqcb[d]
           left == DequeueData(p, Cap[d])
           c == Contents(p, Cap[d])
           q == wait_queue[Snd(d)]
           o == Data(q, winfo)
           t == Head(q)
           r == Receivers[d]
<1>1. /\ d \in DTQ /\ KInv(DState, {}) /\ DInv(DState) /\ DState.dtqcb = dtqcb
      /\ DState.wait_queue = wait_queue /\ DState.delivered = <<>>
  BY DStateInv, DStateFields DEF DtqInv
<1>2. Received(DState, n, d)
  BY <1>1, ReceiveDataKeeps DEF CanReceive, DtqInv
<1>3. /\ DMoved(DState, n)
      /\ IF p.count = 0
         THEN n.dtqcb = dtqcb /\ n.delivered = <<<<runtsk, winfo[t]>>>> /\ q # <<>>
         ELSE /\ n.dtqcb = [dtqcb EXCEPT ![d] = IF q = <<>> THEN left
                                                ELSE EnqueueData(left, Cap[d], winfo[t])]
              /\ n.delivered = <<<<runtsk, FirstData(p)>>>>
      /\ n.wait_queue = IF q = <<>> THEN wait_queue ELSE [wait_queue EXCEPT ![Snd(d)] = Tail(q)]
  BY <1>1, <1>2 DEF Received
<1>4. /\ c \in Seq(Words) /\ Len(c) = p.count /\ o \in Seq(Words)
      /\ Stream[d] = c \o o /\ r = wait_queue[Rcv(d)]
      /\ Stream = [e \in DTQ |-> Stream[e]] /\ Receivers = [e \in DTQ |-> Receivers[e]]
  BY <1>1, StreamFacts
<1>5. /\ RingOk(p, Cap[d]) /\ p.count \in Nat /\ Cap[d] \in Nat /\ q \in Seq(TASK)
      /\ winfo \in [TASK -> Words] /\ NoneInVain(dtqcb, wait_queue, d)
      /\ wait_queue \in [WQUEUE -> Seq(TASK)] /\ dtqcb = [e \in DTQ |-> dtqcb[e]]
      /\ Snd(d) \in WQUEUE
  BY <1>1, DtqFacts, QueueNames DEF DtqInv, Words
<1>6. /\ q = <<>> => o = <<>>
      /\ q # <<>> => o # <<>> /\ Head(o) = winfo[t] /\ Data(Tail(q), winfo) = Tail(o)
  BY <1>5, DataMoves
<1>7. q # <<>> => winfo[t] \in DATA /\ p.count = Cap[d]
  <2>1. q # <<>> => t \in TASK /\ Contains(q, t)
    BY <1>1, <1>5, QueueOfTasks
  <2> QED
    BY <1>1, <1>5, <2>1 DEF DtqInv, NoneInVain
<1>8. p.count > 0 => /\ RingOk(left, Cap[d]) /\ left.count = p.count - 1
                     /\ c # <<>> /\ FirstData(p) = Head(c) /\ Contents(left, Cap[d]) = Tail(c)
  BY <1>5, DequeueTakesOldest DEF DequeueData
<1>9. q # <<>> /\ p.count > 0 =>
        Contents(EnqueueData(left, Cap[d], winfo[t]), Cap[d]) = Append(Tail(c), Head(o))
  <2> HIDE DEF c, o, q, p, left, t
  <2>1. SUFFICES ASSUME q # <<>>, p.count > 0
                 PROVE  Contents(EnqueueData(left, Cap[d], winfo[t]), Cap[d]) = Append(Tail(c), Head(o))
    OBVIOUS
  <2>2. RingOk(left, Cap[d]) /\ left.count < Cap[d] /\ winfo[t] \in DATA /\ Cap[d] \in Nat
    BY <1>5, <1>7, <1>8, <2>1
  <2>3. Contents(EnqueueData(left, Cap[d], winfo[t]), Cap[d]) = Append(Contents(left, Cap[d]), winfo[t])
    BY ONLY <2>2, EnqueueAppends
  <2> QED
    BY <2>1, <2>3, <1>6, <1>8
<1> HIDE DEF n, p, left, c, q, o, t, r
<1>10. /\ c = <<>> => c \o o = o
       /\ c # <<>> => c \o o # <<>> /\ Head(c \o o) = Head(c) /\ Tail(c \o o) = Tail(c) \o o
       /\ c # <<>> /\ o # <<>> => Append(Tail(c), Head(o)) \o Tail(o) = Tail(c \o o)
  <2>1. c \in Seq(Words) /\ o \in Seq(Words)
    BY <1>4
  <2> QED
    BY ONLY <2>1, FirstPart
<1> DEFINE z == c \o o
           h == Head(z)
           s == Tail(z)
<1>11. z # <<>> /\ n.delivered = <<<<runtsk, h>>>>
  <2>1. CASE p.count = 0
    <3>1. c = <<>>
      BY <2>1, <1>4
    <3> QED
      BY <2>1, <3>1, <1>3, <1>6, <1>10
  <2>2. CASE p.count > 0
    BY <2>2, <1>3, <1>8, <1>10
  <2> QED
    BY <2>1, <2>2, <1>5
<1>12. Contents(n.dtqcb[d], Cap[d]) \o Data(n.wait_queue[Snd(d)], winfo) = s
  <2>1. CASE p.count = 0
    <3>1. c = <<>> /\ q # <<>> /\ n.dtqcb = dtqcb
      BY <2>1, <1>3, <1>4
    <3>2. n.wait_queue[Snd(d)] = Tail(q)
      BY <3>1, <1>3, <1>5
    <3>3. Contents(n.dtqcb[d], Cap[d]) = c
      BY <3>1 DEF c, p
    <3>4. c \o Tail(o) = Tail(o)
      <4>1. Tail(o) \in Seq(Words)
        BY <1>4, <1>6, <3>1
      <4> QED
        BY ONLY <4>1, <3>1
    <3> QED
      BY <3>1, <3>2, <3>3, <3>4, <1>6, <1>10
  <2>2. CASE p.count > 0 /\ q = <<>>
    <3>1. n.dtqcb[d] = left /\ n.wait_queue[Snd(d)] = q
      BY <2>2, <1>1, <1>3, <1>5 DEF q
    <3> QED
      BY <2>2, <3>1, <1>8, <1>10 DEF o
  <2>3. CASE p.count > 0 /\ q # <<>>
    <3>1. n.dtqcb[d] = EnqueueData(left, Cap[d], winfo[t]) /\ n.wait_queue[Snd(d)] = Tail(q)
      BY <2>3, <1>1, <1>3, <1>5
    <3> QED
      BY <2>3, <3>1, <1>6, <1>8, <1>9, <1>10
  <2>4. p.count = 0 \/ p.count > 0
    BY <1>5
  <2> QED
    BY ONLY <2>1, <2>2, <2>3, <2>4, Zenon
<1> HIDE DEF s, h, z
<1>13. Shows(n, d, s, r)
  <2>1. ASSUME NEW e \in DTQ \ {d}
        PROVE  /\ n.dtqcb[e] = dtqcb[e] /\ n.wait_queue[Snd(e)] = wait_queue[Snd(e)]
               /\ n.wait_queue[Rcv(e)] = wait_queue[Rcv(e)]
    <3>1. Snd(e) \in WQUEUE \ {Snd(d)} /\ Rcv(e) \in WQUEUE \ {Snd(d)}
      BY <1>1, QueueNames
    <3> QED
      BY <3>1, <1>3, <1>5
  <2>2. n.wait_queue[Rcv(d)] = r
    <3>1. Rcv(d) \in WQUEUE \ {Snd(d)}
      BY <1>1, QueueNames
    <3> QED
      BY <3>1, <1>3, <1>4, <1>5
  <2> QED
    BY <2>1, <2>2, <1>12 DEF Shows
<1>14. Transfer(n)
  BY DEF n
<1>15. /\ Stream' = [Stream EXCEPT ![d] = s] /\ Receivers' = [Receivers EXCEPT ![d] = r]
       /\ delivered' = <<<<runtsk, h>>>> /\ dtqexist' = dtqexist
  BY <1>3, <1>11, <1>13, <1>14, TransferShows
<1>16. Receivers' = Receivers
  BY <1>1, <1>4, <1>15 DEF r
<1>17. Stream[d] # <<>> /\ h = Head(Stream[d]) /\ s = Tail(Stream[d])
  BY <1>4, <1>11 DEF h, s, z
<1> QED
  BY <1>15, <1>16, <1>17 DEF Channel!Take

-----------------------------------------------------------------------------
\* The calls that wait

\* A sender that waits offers its datum behind those in the full buffer.
LEMMA SndIsOffer ==
    ASSUME DtqInv, NEW d \in DTQ, NEW x \in DATA, NEW timed \in BOOLEAN,
           SndDtq(d, x, timed), ~CanSend(DState, d)
    PROVE  /\ d \in dtqexist /\ dtqexist' = dtqexist
           /\ \E i \in 1 .. Len(Stream[d]) + 1 : Channel!Offer(d, i, x)
<1> DEFINE w == Snd(d)
           q == wait_queue[w]
           c == Contents(dtqcb[d], Cap[d])
           o == Data(q, winfo)
           old == [winfo EXCEPT ![runtsk] = x]
<1>1. /\ nest = 0 /\ d \in dtqexist /\ WobjMakeWait(w, timed)
      /\ WinfoScope(old) /\ dtqexist' = dtqexist /\ dtqcb' = dtqcb /\ delivered' = <<>>
  BY DEF SndDtq, NoTransfer, DispatchState, TskCtxUnl
<1>2. DtqInv'
  BY SndWaits
<1>3. /\ w \in WQUEUE /\ runtsk \in TASK /\ \A v \in WQUEUE : ~Contains(wait_queue[v], runtsk)
      /\ q \in Seq(TASK) /\ winfo \in [TASK -> Words] /\ x \in Words
  BY <1>1, QueueNames, DtqFacts, RunningWaitsNowhere DEF DtqInv, Words
<1>4. /\ wait_queue' = [wait_queue EXCEPT ![w] = QueueInsert(w, q, runtsk, priority)]
      /\ \A v \in WQUEUE \ {w} : wait_queue'[v] = wait_queue[v]
      /\ wait_queue \in [WQUEUE -> Seq(TASK)]
  BY <1>1, <1>3, QueuedIn, DtqFacts
<1>5. PICK k \in 1 .. Len(q) + 1 : QueueInsert(w, q, runtsk, priority) = InsertAt(q, k, runtsk)
  BY <1>3, QueueInsertPlace
<1>6. wait_queue'[w] = InsertAt(q, k, runtsk)
  BY <1>3, <1>4, <1>5
<1>7. /\ old \in [TASK -> Words] /\ old[runtsk] = x
      /\ \A t \in TASK : t # runtsk => old[t] = winfo[t]
  BY <1>3
<1>8. /\ c \in Seq(Words) /\ Len(c) = dtqcb[d].count /\ o \in Seq(Words) /\ Len(o) = Len(q)
      /\ Stream[d] = c \o o /\ Receivers[d] = wait_queue[Rcv(d)]
      /\ Receivers = [e \in DTQ |-> Receivers[e]]
  BY <1>1, StreamFacts
<1>9. dtqcb[d].count = Cap[d] /\ Cap[d] \in Nat
  BY DStateFields, DtqFacts, QueueNames DEF CanSend
<1> HIDE DEF c, o, old, q
<1>10. Data(q, old) = o
  <2>1. \A t \in TASK : Contains(q, t) => old[t] = winfo[t]
    BY <1>3, <1>7 DEF q
  <2> QED
    BY <2>1, <1>3, SameData DEF o
<1>11. Data(InsertAt(q, k, runtsk), old) = InsertAt(o, k, x)
  <2>1. Data(InsertAt(q, k, runtsk), old) = InsertAt(Data(q, old), k, old[runtsk])
    BY <1>3, <1>7, DataMoves
  <2> QED
    BY <2>1, <1>7, <1>10
<1>12. OnlyTo(d, old)
  <2>1. ASSUME NEW e \in DTQ, NEW t \in TASK, Contains(wait_queue'[Snd(e)], t)
        PROVE  winfo'[t] = old[t]
    BY <1>1, <2>1 DEF WinfoScope
  <2>2. ASSUME NEW e \in DTQ \ {d}
        PROVE  /\ \A t \in TASK : Contains(wait_queue[Snd(e)], t) => old[t] = winfo[t]
               /\ dtqcb'[e] = dtqcb[e] /\ (e \in dtqexist' <=> e \in dtqexist)
               /\ wait_queue'[Snd(e)] = wait_queue[Snd(e)] /\ wait_queue'[Rcv(e)] = wait_queue[Rcv(e)]
    <3>1. Snd(e) \in WQUEUE \ {w} /\ Rcv(e) \in WQUEUE \ {w}
      BY QueueNames
    <3> QED
      BY <3>1, <1>1, <1>3, <1>4, <1>7
  <2> QED
    BY <2>1, <2>2 DEF OnlyTo
<1> DEFINE z == c \o InsertAt(o, k, x)
<1>13. /\ Receivers' = [Receivers EXCEPT ![d] = wait_queue'[Rcv(d)]]
       /\ Stream' = [Stream EXCEPT ![d] = z]
  <2>1. /\ Receivers' = [Receivers EXCEPT ![d] = wait_queue'[Rcv(d)]]
        /\ Stream' = [Stream EXCEPT ![d] =
                         IF d \in dtqexist'
                         THEN Contents(dtqcb'[d], Cap[d]) \o Data(wait_queue'[Snd(d)], old)
                         ELSE <<>>]
    BY <1>2, <1>12, OneStream
  <2> QED
    BY <2>1, <1>1, <1>6, <1>11 DEF c
<1>14. PICK i \in 1 .. Len(Stream[d]) + 1 : z = InsertAt(Stream[d], i, x) /\ i > Cap[d]
  <2>1. c \in Seq(Words) /\ o \in Seq(Words) /\ x \in Words /\ k \in 1 .. Len(o) + 1
    BY <1>3, <1>8
  <2>2. PICK i \in Nat : i = Len(c) + k
    BY <2>1
  <2>3. i \in 1 .. Len(c \o o) + 1 /\ z = InsertAt(c \o o, i, x)
    <3>1. After(c, k, i)
      BY <2>2 DEF After
    <3> QED
      BY ONLY <2>1, <3>1, i \in Nat, InsertedInSecond DEF z
  <2>4. i > Cap[d]
    BY <2>2, <1>8, <1>9
  <2> QED
    BY <2>3, <2>4, <1>8
<1> HIDE DEF z
<1>15. Receivers' = Receivers
  <2>1. Rcv(d) \in WQUEUE \ {w}
    BY QueueNames
  <2> QED
    BY <2>1, <1>4, <1>8, <1>13
<1>16. Len(Stream[d]) >= Cap[d]
  <2>1. c \in Seq(Words) /\ o \in Seq(Words)
    BY <1>8
  <2>2. Len(c \o o) = Len(c) + Len(o) /\ Len(o) \in Nat
    BY ONLY <2>1, ConcatFacts
  <2> QED
    BY <2>2, <1>8, <1>9
<1>17. Channel!Offer(d, i, x)
  BY <1>1, <1>13, <1>14, <1>15, <1>16
     DEF Channel!Offer, Channel!Nothing, Channel!InsertAt, InsertAt
<1> QED
  BY <1>1, <1>17

\* A receiver that waits does so behind the others, for an empty channel.
LEMMA RcvIsAwait ==
    ASSUME DtqInv, NEW d \in DTQ, NEW timed \in BOOLEAN, RcvDtq(d, timed), ~CanReceive(d)
    PROVE  /\ d \in dtqexist /\ dtqexist' = dtqexist /\ runtsk \in TASK
           /\ Channel!Await(d, runtsk)
<1> DEFINE w == Rcv(d)
<1>1. /\ nest = 0 /\ d \in dtqexist /\ WobjMakeWait(w, timed) /\ winfo' = winfo
      /\ dtqexist' = dtqexist /\ dtqcb' = dtqcb /\ delivered' = <<>>
  BY DEF RcvDtq, NoTransfer, DispatchState, TskCtxUnl
<1>2. DtqInv'
  BY RcvWaits
<1>3. w \in WQUEUE /\ w \notin TaTpri /\ runtsk \in TASK
  BY <1>1, QueueNames, RunningWaitsNowhere DEF DtqInv
<1>4. /\ wait_queue' = [wait_queue EXCEPT ![w] = Append(wait_queue[w], runtsk)]
      /\ \A v \in WQUEUE \ {w} : wait_queue'[v] = wait_queue[v]
      /\ wait_queue \in [WQUEUE -> Seq(TASK)]
  BY <1>1, <1>3, QueuedIn, DtqFacts DEF QueueInsert
<1>5. OnlyTo(d, winfo)
  <2>1. ASSUME NEW e \in DTQ \ {d}
        PROVE  wait_queue'[Snd(e)] = wait_queue[Snd(e)] /\ wait_queue'[Rcv(e)] = wait_queue[Rcv(e)]
    <3>1. Snd(e) \in WQUEUE \ {w} /\ Rcv(e) \in WQUEUE \ {w}
      BY QueueNames
    <3> QED
      BY <3>1, <1>4
  <2> QED
    BY <2>1, <1>1 DEF OnlyTo
<1>6. /\ Receivers' = [Receivers EXCEPT ![d] = wait_queue'[w]]
      /\ Stream' = [Stream EXCEPT ![d] =
                       IF d \in dtqexist'
                       THEN Contents(dtqcb'[d], Cap[d]) \o Data(wait_queue'[Snd(d)], winfo)
                       ELSE <<>>]
  BY <1>2, <1>5, OneStream
<1>7. /\ Stream = [e \in DTQ |-> Stream[e]] /\ Receivers[d] = wait_queue[w]
      /\ Stream[d] = Contents(dtqcb[d], Cap[d]) \o Data(wait_queue[Snd(d)], winfo)
  BY <1>1, StreamFacts
<1>8. Stream' = Stream
  <2>1. Snd(d) \in WQUEUE \ {w}
    BY QueueNames
  <2> QED
    BY <2>1, <1>1, <1>4, <1>6, <1>7
<1>9. Stream[d] = <<>>
  <2> DEFINE c == Contents(dtqcb[d], Cap[d])
             o == Data(wait_queue[Snd(d)], winfo)
  <2>1. dtqcb[d].count = 0 /\ wait_queue[Snd(d)] = <<>>
    BY DtqFacts DEF CanReceive
  <2>2. c \in Seq(Words) /\ Len(c) = 0 /\ o \in Seq(Words) /\ Len(o) = Len(<<>>)
    BY <2>1, StreamFacts
  <2> HIDE DEF c, o
  <2>3. c = <<>> /\ o = <<>>
    BY <2>2
  <2>4. c \o o = <<>>
    BY ONLY <2>3
  <2> QED
    BY <2>4, <1>7 DEF c, o
<1>10. wait_queue'[w] = Append(Receivers[d], runtsk)
  BY <1>3, <1>4, <1>7
<1>11. Channel!Await(d, runtsk)
  BY <1>1, <1>6, <1>8, <1>9, <1>10 DEF Channel!Await, Channel!Nothing
<1> QED
  BY <1>1, <1>3, <1>11

\* A data queue that is emptied, or deleted, shows an empty stream.
LEMMA EmptiedIsClear ==
    ASSUME DtqInv, DtqInv', NEW d \in DTQ, delivered' = <<>>, WinfoScope(winfo),
           wait_queue' = [wait_queue EXCEPT ![Snd(d)] = <<>>, ![Rcv(d)] = <<>>],
           \A e \in DTQ \ {d} : dtqcb'[e] = dtqcb[e] /\ (e \in dtqexist' <=> e \in dtqexist),
           d \in dtqexist' => dtqcb'[d].count = 0
    PROVE  Channel!Clear(d)
<1>1. /\ wait_queue'[Snd(d)] = <<>> /\ wait_queue'[Rcv(d)] = <<>>
      /\ \A e \in DTQ \ {d} : /\ wait_queue'[Snd(e)] = wait_queue[Snd(e)]
                              /\ wait_queue'[Rcv(e)] = wait_queue[Rcv(e)]
  BY DtqFacts, QueueNames
<1>2. OnlyTo(d, winfo)
  <2>1. ASSUME NEW e \in DTQ, NEW t \in TASK, Contains(wait_queue'[Snd(e)], t)
        PROVE  winfo'[t] = winfo[t]
    BY <2>1 DEF WinfoScope
  <2> QED
    BY <1>1, <2>1 DEF OnlyTo
<1> DEFINE c == Contents(dtqcb'[d], Cap[d])
           o == Data(wait_queue'[Snd(d)], winfo)
<1>3. /\ Receivers' = [Receivers EXCEPT ![d] = wait_queue'[Rcv(d)]]
      /\ Stream' = [Stream EXCEPT ![d] = IF d \in dtqexist' THEN c \o o ELSE <<>>]
  BY <1>2, OneStream
<1>4. d \in dtqexist' => c = <<>>
  <2> DEFINE p == dtqcb'[d]
  <2>1. d \in dtqexist' => 1 .. p.count = {}
    OBVIOUS
  <2> HIDE DEF p
  <2>2. d \in dtqexist' => Contents(p, Cap[d]) = <<>>
    BY <2>1 DEF Contents
  <2> QED
    BY <2>2 DEF p
<1>5. o = <<>>
  <2> DEFINE q == wait_queue'[Snd(d)]
  <2>1. winfo \in [TASK -> Words]
    BY DEF DtqInv, Words
  <2>2. q = <<>>
    BY <1>1
  <2> HIDE DEF q
  <2>3. q \in Seq(TASK)
    BY <2>2
  <2>4. Data(q, winfo) = <<>>
    BY <2>1, <2>2, <2>3, DataMoves
  <2> QED
    BY <2>4 DEF q
<1> HIDE DEF c, o
<1>6. d \in dtqexist' => c \o o = <<>>
  <2>1. \A a, b : a = <<>> /\ b = <<>> => a \o b = <<>>
    OBVIOUS
  <2> QED
    BY <2>1, <1>4, <1>5
<1>7. Stream' = [Stream EXCEPT ![d] = <<>>]
  BY <1>3, <1>6
<1> QED
  BY <1>1, <1>3, <1>7 DEF Channel!Clear, Channel!Nothing

\* ini_dtq clears the channel, and del_dtq deletes it.
LEMMA IniDelIsClear ==
    ASSUME DtqInv, NEW d \in DTQ, IniDtq(d) \/ DelDtq(d)
    PROVE  /\ d \in dtqexist /\ Channel!Clear(d)
           /\ dtqexist' = dtqexist \/ dtqexist' = dtqexist \ {d}
<1> DEFINE k == Cleared(d)
           n == [k EXCEPT !.dtqcb[d] = Emptied(@)]
           w == [wait_queue EXCEPT ![Snd(d)] = <<>>, ![Rcv(d)] = <<>>]
<1>1. DMoved(DState, k) /\ k.dtqcb = dtqcb /\ k.delivered = <<>> /\ k.wait_queue = w
  BY ClearedKeeps
<1>2. IniDtq(d) => Transfer(n) /\ d \in dtqexist
  BY DEF IniDtq
<1>3. DelDtq(d) => DCommit(k) /\ dtqexist' = dtqexist \ {d} /\ d \in dtqexist
  BY DEF DelDtq
<1>4. DtqInv'
  BY IniDelKeeps
<1> HIDE DEF k
<1>5. k.wait_queue[Snd(d)] = <<>> /\ k.wait_queue[Rcv(d)] = <<>>
  BY <1>1, DtqFacts, QueueNames
<1>6. CASE IniDtq(d)
  <2>1. n = [k EXCEPT !.dtqcb[d] = Emptied(@)]
    OBVIOUS
  <2> HIDE DEF n
  <2>2. /\ n.dtqcb = [dtqcb EXCEPT ![d] = Emptied(@)] /\ n.delivered = <<>>
        /\ n.wait_queue = k.wait_queue
    BY <2>1, <1>1, <1>5, EmptiedKeeps
  <2>3. /\ dtqcb' = n.dtqcb /\ delivered' = n.delivered /\ wait_queue' = n.wait_queue
        /\ WinfoScope(winfo) /\ dtqexist' = dtqexist
    BY <1>2, <1>6 DEF Transfer, DCommit, Commit
  <2>4. /\ dtqcb'[d] = Emptied(dtqcb[d]) /\ \A e \in DTQ \ {d} : dtqcb'[e] = dtqcb[e]
    BY <2>2, <2>3, DtqFacts
  <2>5. dtqcb'[d].count = 0
    BY <2>4, QueueNames, DtqFacts, EmptiedRing
  <2>6. Channel!Clear(d)
    BY <2>2, <2>3, <2>4, <2>5, <1>1, <1>4, EmptiedIsClear
  <2> QED
    BY <2>3, <2>6, <1>2, <1>6
<1>7. CASE DelDtq(d)
  <2>1. /\ dtqcb' = dtqcb /\ delivered' = <<>> /\ wait_queue' = w
        /\ WinfoScope(winfo) /\ dtqexist' = dtqexist \ {d}
    BY <1>1, <1>3, <1>7 DEF DCommit, Commit
  <2>2. Channel!Clear(d)
    BY <2>1, <1>4, EmptiedIsClear
  <2> QED
    BY <2>1, <2>2, <1>3, <1>7
<1> QED
  BY <1>6, <1>7

\* acre_dtq creates an empty channel.
LEMMA AcreIsCreate ==
    ASSUME DtqInv, NEW d \in DTQ, AcreDtq(d)
    PROVE  Channel!Create(d)
<1>1. /\ d \in DTQ \ dtqexist /\ dtqexist' = dtqexist \cup {d} /\ delivered' = <<>>
      /\ dtqcb' = [dtqcb EXCEPT ![d] = Emptied(dtqcb[d])]
      /\ wait_queue' = wait_queue /\ winfo' = winfo
  BY DEF AcreDtq
<1>2. Receivers' = Receivers
  BY <1>1 DEF Receivers
<1>3. Stream'[d] = <<>>
  <2>1. dtqcb'[d] = Emptied(dtqcb[d])
    BY <1>1, DtqFacts
  <2>2. Contents(dtqcb'[d], Cap[d]) = <<>>
    BY <2>1, QueueNames, DtqFacts, EmptiedRing
  <2>3. Data(wait_queue[Snd(d)], winfo) = <<>>
    BY <1>1 DEF DtqInv, Data
  <2>4. Stream'[d] = Contents(dtqcb'[d], Cap[d]) \o Data(wait_queue[Snd(d)], winfo)
    BY <1>1 DEF Stream, Offered, Data
  <2>5. \A a, b : a = <<>> /\ b = <<>> => a \o b = <<>>
    OBVIOUS
  <2> QED
    BY <2>2, <2>3, <2>4, <2>5
<1>4. \A e \in DTQ \ {d} : Stream'[e] = Stream[e]
  <2>1. \A e \in DTQ \ {d} : dtqcb'[e] = dtqcb[e] /\ (e \in dtqexist' <=> e \in dtqexist)
    BY <1>1, DtqFacts
  <2> QED
    BY <2>1, <1>1 DEF Stream, Offered
<1>5. Stream[d] = <<>> /\ Stream = [e \in DTQ |-> Stream[e]] /\ Stream' = [e \in DTQ |-> Stream'[e]]
  BY <1>1 DEF Stream
<1>6. Stream' = Stream
  BY <1>3, <1>4, <1>5
<1> QED
  BY <1>1, <1>2, <1>6 DEF Channel!Create, Channel!Nothing

-----------------------------------------------------------------------------
\* Steps of a task that waits

\* A step in which the queues of d alone change, and nothing is sent or received
LEMMA OnlyQueuesOf ==
    ASSUME DtqInv, DtqInv', NEW d \in dtqexist, NEW w \in {Snd(d), Rcv(d)}, WinfoScope(winfo),
           NoTransfer, \A v \in WQUEUE \ {w} : wait_queue'[v] = wait_queue[v]
    PROVE  /\ d \in DTQ
           /\ Receivers' = [Receivers EXCEPT ![d] = wait_queue'[Rcv(d)]]
           /\ Stream' = [Stream EXCEPT ![d] = Contents(dtqcb[d], Cap[d]) \o Data(wait_queue'[Snd(d)], winfo)]
<1>1. d \in DTQ /\ dtqcb' = dtqcb /\ dtqexist' = dtqexist
  BY DEF DtqInv, NoTransfer
<1>2. OnlyTo(d, winfo)
  <2>1. ASSUME NEW e \in DTQ, NEW t \in TASK, Contains(wait_queue'[Snd(e)], t)
        PROVE  winfo'[t] = winfo[t]
    BY <2>1 DEF WinfoScope
  <2>2. ASSUME NEW e \in DTQ \ {d}
        PROVE  wait_queue'[Snd(e)] = wait_queue[Snd(e)] /\ wait_queue'[Rcv(e)] = wait_queue[Rcv(e)]
    <3>1. Snd(e) \in WQUEUE \ {w} /\ Rcv(e) \in WQUEUE \ {w}
      BY <1>1, QueueNames
    <3> QED
      BY <3>1
  <2> QED
    BY <1>1, <2>1, <2>2 DEF OnlyTo
<1> QED
  BY <1>1, <1>2, OneStream

\* A sender that stops waiting withdraws its datum, and one that moves in the
\* queue takes its datum along: the data in the buffer keep their places.
LEMMA SenderChanges ==
    ASSUME DtqInv, DtqInv', NEW d \in dtqexist, NEW t \in TASK, WinfoScope(winfo), NoTransfer,
           NEW w, w = Snd(d), Contains(wait_queue[w], t),
           \A v \in WQUEUE \ {w} : wait_queue'[v] = wait_queue[v],
           QueueWithout(wait_queue[w], t, wait_queue'[w])
               \/ QueueReordered(wait_queue[w], t, wait_queue'[w])
    PROVE  \E i, j \in 1 .. Len(Stream[d]) : Channel!Withdraw(d, i) \/ Channel!Reorder(d, i, j)
<1> DEFINE c == Contents(dtqcb[d], Cap[d])
           q == wait_queue[w]
           o == Data(q, winfo)
           m == wait_queue'[w]
           s == Stream[d]
<1>1. /\ d \in DTQ /\ w \in WQUEUE /\ Rcv(d) \in WQUEUE \ {w} /\ delivered' = <<>>
      /\ q \in Seq(TASK) /\ winfo \in [TASK -> Words]
  BY QueueNames, DtqFacts DEF DtqInv, NoTransfer, Words
<1>2. /\ c \in Seq(Words) /\ Len(c) = dtqcb[d].count /\ o \in Seq(Words) /\ Len(o) = Len(q)
      /\ s = c \o o /\ Receivers[d] = wait_queue[Rcv(d)] /\ Receivers = [e \in DTQ |-> Receivers[e]]
  BY <1>1, StreamFacts
<1>3. /\ Receivers' = [Receivers EXCEPT ![d] = wait_queue'[Rcv(d)]]
      /\ Stream' = [Stream EXCEPT ![d] = c \o Data(m, winfo)]
  BY OnlyQueuesOf
<1>4. Receivers' = Receivers
  BY <1>1, <1>2, <1>3
<1>5. dtqcb[d].count = Cap[d] /\ Cap[d] \in Nat
  <2>1. q # <<>>
    BY DEF Contains
  <2> QED
    BY <2>1, <1>1, DtqFacts, QueueNames DEF NoneInVain
<1>6. /\ \A i \in 1 .. Len(q) : o[i] = winfo[q[i]]
      /\ \A i \in 1 .. Len(q) : Data(RemoveAt(q, i), winfo) = RemoveAt(o, i)
  <2>1. q \in Seq(TASK) /\ winfo \in [TASK -> Words]
    BY <1>1
  <2> HIDE DEF q
  <2> QED
    BY ONLY <2>1, DataMoves DEF o
<1>10. QueueWithout(q, t, m) \/ QueueReordered(q, t, m)
  OBVIOUS
<1> HIDE DEF c, q, o, m, s
<1>7. ASSUME NEW k \in 1 .. Len(q), q[k] = t
      PROVE  /\ k \in 1 .. Len(o) /\ o[k] = winfo[t]
             /\ Data(RemoveAt(q, k), winfo) = RemoveAt(o, k)
             /\ RemoveAt(q, k) \in Seq(TASK) /\ Len(RemoveAt(q, k)) + 1 = Len(q)
             /\ RemoveAt(o, k) \in Seq(Words) /\ Len(RemoveAt(o, k)) + 1 = Len(q)
             /\ \E i \in 1 .. Len(s) : /\ i > Cap[d] /\ s[i] = winfo[t]
                                       /\ c \o RemoveAt(o, k) = RemoveAt(s, i)
  <2>1. k \in 1 .. Len(o)
    BY <1>2
  <2>2. o[k] = winfo[t] /\ Data(RemoveAt(q, k), winfo) = RemoveAt(o, k)
    BY <1>6, <1>7
  <2>3. /\ RemoveAt(q, k) \in Seq(TASK) /\ Len(RemoveAt(q, k)) + 1 = Len(q)
        /\ RemoveAt(o, k) \in Seq(Words) /\ Len(RemoveAt(o, k)) + 1 = Len(q)
    BY <1>1, <1>2, <2>1, RemoveAtFacts
  <2>4. PICK i \in Nat : i = Len(c) + k
    BY <1>2
  <2>5. c \in Seq(Words) /\ o \in Seq(Words)
    BY <1>2
  <2>6. i \in 1 .. Len(c \o o) /\ (c \o o)[i] = o[k] /\ c \o RemoveAt(o, k) = RemoveAt(c \o o, i)
    <3>1. After(c, k, i)
      BY <2>4 DEF After
    <3> QED
      BY ONLY <2>1, <2>5, <3>1, i \in Nat, RemovedFromSecond
  <2>7. i > Cap[d]
    BY <2>4, <1>2, <1>5
  <2> QED
    BY <2>1, <2>2, <2>3, <2>4, <2>6, <2>7, <1>2
<1>8. CASE QueueWithout(q, t, m)
  <2>1. PICK k \in 1 .. Len(q) : q[k] = t /\ m = RemoveAt(q, k)
    BY <1>8 DEF QueueWithout
  <2>2. PICK i \in 1 .. Len(s) : i > Cap[d] /\ c \o RemoveAt(o, k) = RemoveAt(s, i)
    BY <2>1, <1>7
  <2>3. Stream' = [Stream EXCEPT ![d] = RemoveAt(s, i)]
    BY <2>1, <2>2, <1>3, <1>7
  <2>4. Channel!Withdraw(d, i)
    BY <2>2, <2>3, <1>1, <1>4 DEF Channel!Withdraw, Channel!Nothing, Channel!RemoveAt, RemoveAt, s
  <2> QED
    BY <2>4 DEF s
<1>9. CASE QueueReordered(q, t, m)
  <2>1. PICK k \in 1 .. Len(q), h \in 1 .. Len(q) : q[k] = t /\ m = InsertAt(RemoveAt(q, k), h, t)
    BY <1>9 DEF QueueReordered
  <2> DEFINE qr == RemoveAt(q, k)
             ord == RemoveAt(o, k)
             x == winfo[t]
  <2>2. PICK i \in 1 .. Len(s) : i > Cap[d] /\ s[i] = x /\ c \o ord = RemoveAt(s, i)
    BY <2>1, <1>7
  <2>3. /\ qr \in Seq(TASK) /\ Len(qr) + 1 = Len(q) /\ ord \in Seq(Words) /\ Len(ord) + 1 = Len(q)
        /\ ord = Data(qr, winfo) /\ x \in Words
    BY <2>1, <1>1, <1>7
  <2> HIDE DEF qr, ord, x
  <2>4. Data(InsertAt(qr, h, t), winfo) = InsertAt(ord, h, x)
    <3>1. h \in 1 .. Len(qr) + 1
      BY <2>3
    <3>2. Data(InsertAt(qr, h, t), winfo) = InsertAt(Data(qr, winfo), h, winfo[t])
      BY <3>1, <2>3, <1>1, DataMoves
    <3> QED
      BY <3>2, <2>3 DEF x
  <2>5. PICK j \in Nat : j = Len(c) + h
    BY <1>2
  <2>6. j \in 1 .. Len(c \o ord) + 1 /\ c \o InsertAt(ord, h, x) = InsertAt(c \o ord, j, x)
    <3>1. c \in Seq(Words) /\ ord \in Seq(Words) /\ h \in 1 .. Len(ord) + 1 /\ x \in Words
      BY <2>3, <1>2
    <3>2. After(c, h, j)
      BY <2>5 DEF After
    <3> QED
      BY ONLY <3>1, <3>2, j \in Nat, InsertedInSecond
  <2>7. j \in 1 .. Len(s) /\ j > Cap[d]
    <3>1. c \in Seq(Words) /\ o \in Seq(Words)
      BY <1>2
    <3>2. Len(c \o o) = Len(c) + Len(o)
      BY ONLY <3>1, ConcatFacts
    <3> QED
      BY <3>2, <2>5, <1>2, <1>5
  <2>8. Stream' = [Stream EXCEPT ![d] = InsertAt(RemoveAt(s, i), j, s[i])]
    BY <2>1, <2>2, <2>4, <2>6, <1>3 DEF qr
  <2>9. Channel!Reorder(d, i, j)
    BY <2>2, <2>7, <2>8, <1>1, <1>4
       DEF Channel!Reorder, Channel!Nothing, Channel!RemoveAt, RemoveAt, Channel!InsertAt, InsertAt, s
  <2> QED
    BY <2>7, <2>9 DEF s
<1> QED
  BY <1>8, <1>9, <1>10

\* A receiver that stops waiting gives up; it never moves in the queue.
LEMMA ReceiverChanges ==
    ASSUME DtqInv, DtqInv', NEW d \in dtqexist, NEW t \in TASK, WinfoScope(winfo), NoTransfer,
           NEW w, w = Rcv(d), Contains(wait_queue[w], t),
           \A v \in WQUEUE \ {w} : wait_queue'[v] = wait_queue[v],
           QueueWithout(wait_queue[w], t, wait_queue'[w])
    PROVE  \E i \in 1 .. Len(Receivers[d]) : Channel!GiveUp(d, i)
<1>1. d \in DTQ /\ w \in WQUEUE /\ Snd(d) \in WQUEUE \ {w} /\ delivered' = <<>>
  BY QueueNames DEF DtqInv, NoTransfer
<1>2. /\ Receivers' = [Receivers EXCEPT ![d] = wait_queue'[w]]
      /\ Stream' = [Stream EXCEPT ![d] = Contents(dtqcb[d], Cap[d]) \o Data(wait_queue'[Snd(d)], winfo)]
  BY OnlyQueuesOf
<1>3. /\ Stream = [e \in DTQ |-> Stream[e]] /\ Receivers[d] = wait_queue[w]
      /\ Stream[d] = Contents(dtqcb[d], Cap[d]) \o Data(wait_queue[Snd(d)], winfo)
  BY <1>1, StreamFacts
<1>4. Stream' = Stream
  BY <1>1, <1>2, <1>3
<1>5. PICK k \in 1 .. Len(wait_queue[w]) : wait_queue'[w] = RemoveAt(wait_queue[w], k)
  BY DEF QueueWithout
<1>6. Channel!GiveUp(d, k)
  BY <1>1, <1>2, <1>3, <1>4, <1>5 DEF Channel!GiveUp, Channel!Nothing, Channel!RemoveAt, RemoveAt
<1> QED
  BY <1>3, <1>6

\* A step that leaves buffers and wait queues alone does nothing to the channels.
LEMMA NothingIsPause ==
    ASSUME DtqInv, DtqInv', NoTransfer, wait_queue' = wait_queue,
           winfo' = winfo \/ WinfoScope(winfo)
    PROVE  Channel!Pause
<1>1. dtqexist' = dtqexist /\ dtqcb' = dtqcb /\ delivered' = <<>>
  BY DEF NoTransfer
<1>2. Receivers' = Receivers
  BY DEF Receivers
<1>3. ASSUME NEW e \in DTQ
      PROVE  Data(wait_queue[Snd(e)], winfo') = Data(wait_queue[Snd(e)], winfo)
  <2>1. \A t \in TASK : Contains(wait_queue[Snd(e)], t) => winfo'[t] = winfo[t]
    BY DEF WinfoScope
  <2>2. wait_queue[Snd(e)] \in Seq(TASK)
    BY QueueNames, DtqFacts
  <2> QED
    BY <2>1, <2>2, SameData
<1>4. Stream' = Stream
  BY <1>1, <1>3 DEF Stream, Offered, Data
<1> QED
  BY <1>1, <1>2, <1>4 DEF Channel!Pause, Channel!Nothing

\* A task that waits is released, ended or given another priority.
LEMMA WaitingTaskIsChannelStep ==
    ASSUME DtqInv, NEW t \in TASK, WaitingTaskService(t)
    PROVE  Channel!Pause \/ \E d \in DTQ : Channel!ChannelStep(d)
<1>1. WaitingTaskStep(t) /\ WinfoScope(winfo) /\ NoTransfer /\ dtqexist' = dtqexist
  BY DEF WaitingTaskService, NoTransfer
<1>2. DtqInv' /\ WaitInv /\ (Leaves(t) \/ Moves(t))
  BY <1>1, WaitingTaskServiceKeeps, WaitingTaskStepKeeps DEF DtqInv
<1>3. CASE wait_queue' = wait_queue
  BY <1>1, <1>2, <1>3, NothingIsPause
<1>4. ASSUME wait_queue' # wait_queue, NEW w \in WQUEUE, Contains(wait_queue[w], t)
      PROVE  \E d \in DTQ : Channel!ChannelStep(d)
  <2>1. /\ \A v \in WQUEUE \ {w} : wait_queue'[v] = wait_queue[v]
        /\ \/ QueueWithout(wait_queue[w], t, wait_queue'[w])
           \/ w \in TaTpri /\ QueueReordered(wait_queue[w], t, wait_queue'[w])
           \/ wait_queue'[w] = wait_queue[w]
    BY <1>2, <1>4, OneQueueChanges
  <2>2. wait_queue'[w] # wait_queue[w]
    <3>1. wait_queue = [v \in WQUEUE |-> wait_queue[v]] /\ wait_queue' = [v \in WQUEUE |-> wait_queue'[v]]
      BY <1>2, DtqFacts DEF DtqInv, WaitInv, QueuesHold
    <3> QED
      BY <3>1, <2>1, <1>4
  <2>3. PICK d \in DTQ : w \in {Snd(d), Rcv(d)}
    BY DtqAssumption
  <2>4. d \in dtqexist
    <3>1. wait_queue[w] # <<>>
      BY <1>4 DEF Contains
    <3> QED
      BY <3>1, <2>3 DEF DtqInv
  <2>5. CASE w = Snd(d)
    <3>1. \E i, j \in 1 .. Len(Stream[d]) : Channel!Withdraw(d, i) \/ Channel!Reorder(d, i, j)
      BY <1>1, <1>2, <1>4, <2>1, <2>2, <2>4, <2>5, SenderChanges
    <3> QED
      BY <3>1, <1>1, <2>4 DEF Channel!ChannelStep
  <2>6. CASE w = Rcv(d)
    <3>1. QueueWithout(wait_queue[w], t, wait_queue'[w])
      BY <2>1, <2>2, <2>6, QueueNames
    <3>2. \E i \in 1 .. Len(Receivers[d]) : Channel!GiveUp(d, i)
      BY <1>1, <1>2, <1>4, <2>1, <2>4, <2>6, <3>1, ReceiverChanges
    <3> QED
      BY <3>2, <1>1, <2>4 DEF Channel!ChannelStep
  <2> QED
    BY <2>3, <2>5, <2>6
<1>5. CASE \A w \in WQUEUE : ~Contains(wait_queue[w], t)
  BY <1>2, <1>3, <1>5, NoQueueChanges
<1> QED
  BY <1>3, <1>4, <1>5

-----------------------------------------------------------------------------
\* Every step of the data queues

\* A call that sends, or waits to send
LEMMA SendingIsChannelStep ==
    ASSUME DtqInv, NEW d \in DTQ, NEW x \in DATA, NEW y \in DATA, NEW timed \in BOOLEAN,
           \/ PsndDtq(d, x) \/ FsndDtq(d, x)
           \/ PsndDtqNdata(d, <<x, y>>) \/ SndDtq(d, x, timed)
    PROVE  Channel!ChannelStep(d)
<1>1. ASSUME d \in dtqexist, CanSend(DState, d), Transfer(SendData(DState, d, x))
      PROVE  Channel!ChannelStep(d)
  <2>1. Channel!Send(d, <<x>>) /\ dtqexist' = dtqexist
    BY <1>1, SendDataIsSentOne, SentOneIsSend
  <2> QED
    BY <2>1, <1>1 DEF Channel!ChannelStep
<1>2. CASE PsndDtq(d, x)
  BY <1>1, <1>2 DEF PsndDtq
<1>3. CASE FsndDtq(d, x)
  <2>1. /\ d \in dtqexist /\ dtqexist' = dtqexist
        /\ Channel!Send(d, <<x>>) \/ Channel!Overwrite(d, x)
    BY <1>3, FsndIsSendOrOverwrite
  <2> QED
    BY <2>1 DEF Channel!ChannelStep
<1>4. CASE PsndDtqNdata(d, <<x, y>>)
  <2>1. d \in dtqexist /\ Channel!Send(d, <<x, y>>) /\ dtqexist' = dtqexist
    BY <1>4, NdataIsSend
  <2> QED
    BY <2>1 DEF Channel!ChannelStep
<1>5. CASE SndDtq(d, x, timed)
  <2>1. CASE CanSend(DState, d)
    BY <1>1, <1>5, <2>1 DEF SndDtq
  <2>2. CASE ~CanSend(DState, d)
    <3>1. /\ d \in dtqexist /\ dtqexist' = dtqexist
          /\ \E i \in 1 .. Len(Stream[d]) + 1 : Channel!Offer(d, i, x)
      BY <1>5, <2>2, SndIsOffer
    <3> QED
      BY <3>1 DEF Channel!ChannelStep
  <2> QED
    BY <2>1, <2>2
<1> QED
  BY <1>2, <1>3, <1>4, <1>5

\* A call that receives, or waits to receive
LEMMA ReceivingIsChannelStep ==
    ASSUME DtqInv, NEW d \in DTQ, NEW timed \in BOOLEAN, PrcvDtq(d) \/ RcvDtq(d, timed)
    PROVE  Channel!ChannelStep(d)
<1>1. runtsk \in TASK
  BY RunningWaitsNowhere DEF DtqInv, PrcvDtq, RcvDtq, DispatchState, TskCtxUnl
<1>2. CASE ~CanReceive(d)
  <2>1. RcvDtq(d, timed)
    BY <1>2 DEF PrcvDtq
  <2>2. d \in dtqexist /\ dtqexist' = dtqexist /\ Channel!Await(d, runtsk)
    BY <1>2, <2>1, RcvIsAwait
  <2> QED
    BY <1>1, <2>2 DEF Channel!ChannelStep
<1>3. CASE CanReceive(d)
  <2>1. d \in dtqexist /\ Transfer(ReceiveData(DState, d))
    BY <1>3 DEF PrcvDtq, RcvDtq
  <2>2. Channel!Take(d, runtsk) /\ dtqexist' = dtqexist
    BY <1>3, <2>1, ReceiveIsTake
  <2> QED
    BY <1>1, <2>1, <2>2 DEF Channel!ChannelStep
<1> QED
  BY <1>2, <1>3

\* Every service call on a data queue is a step of its channel.
LEMMA ServiceIsChannelStep ==
    ASSUME DtqInv, NEW d \in DTQ, DtqService(d)
    PROVE  Channel!ChannelStep(d) \/ Channel!Delete(d) \/ Channel!Create(d)
<1>1. CASE \E x \in DATA : PsndDtq(d, x) \/ FsndDtq(d, x)
  BY <1>1, SendingIsChannelStep
<1>2. CASE \E x, y \in DATA : PsndDtqNdata(d, <<x, y>>)
  BY <1>2, SendingIsChannelStep
<1>3. CASE \E x \in DATA, b \in BOOLEAN : SndDtq(d, x, b)
  BY <1>3, SendingIsChannelStep
<1>4. CASE PrcvDtq(d) \/ \E b \in BOOLEAN : RcvDtq(d, b)
  BY <1>4, ReceivingIsChannelStep
<1>5. CASE IniDtq(d) \/ DelDtq(d)
  <2>1. /\ d \in dtqexist /\ Channel!Clear(d)
        /\ dtqexist' = dtqexist \/ dtqexist' = dtqexist \ {d}
    BY <1>5, IniDelIsClear
  <2> QED
    BY <2>1 DEF Channel!ChannelStep, Channel!Delete
<1>6. CASE AcreDtq(d)
  BY <1>6, AcreIsCreate
<1> QED
  BY <1>1, <1>2, <1>3, <1>4, <1>5, <1>6 DEF DtqService

\* Every step is a step of the channels, or none.
LEMMA DtqStepIsChannelStep ==
    ASSUME DtqInv, [DtqNext]_allVars
    PROVE  Channel!ChannelNext \/ UNCHANGED Channel!cvars
<1>1. ASSUME NEW d \in DTQ, DtqService(d)
      PROVE  Channel!ChannelNext
  BY <1>1, ServiceIsChannelStep DEF Channel!ChannelNext
<1>2. ASSUME NEW t \in TASK, WaitingTaskService(t)
      PROVE  Channel!ChannelNext
  BY <1>2, WaitingTaskIsChannelStep DEF Channel!ChannelNext
<1>3. CASE (ExtTsk \/ SchedulerStep) /\ NoTransfer /\ UNCHANGED <<winfo, wait_queue>>
  <2>1. DtqInv' /\ Channel!Pause
    BY <1>3, SchedulerKeepsDtq, NothingIsPause
  <2> QED
    BY <2>1 DEF Channel!ChannelNext
<1>4. CASE UNCHANGED allVars
  BY <1>4 DEF allVars, dtqVars, Channel!cvars, Stream, Receivers, Offered
<1> QED
  BY <1>1, <1>2, <1>3, <1>4 DEF DtqNext

\* The channels start empty.
LEMMA DtqInitIsChannelInit == DtqInit => Channel!ChannelInit
<1> SUFFICES ASSUME DtqInit
             PROVE  Channel!ChannelInit
  OBVIOUS
<1>1. DtqInv
  BY DtqInitInv
<1>2. /\ dtqexist \in SUBSET DTQ /\ delivered = <<>> /\ wait_queue = [w \in WQUEUE |-> <<>>]
      /\ dtqcb = [d \in DTQ |-> EmptyRing(Cap[d])]
  BY <1>1 DEF DtqInit, DtqInv
<1>3. ASSUME NEW d \in DTQ
      PROVE  Stream[d] = <<>> /\ Receivers[d] = <<>>
  <2> DEFINE c == Contents(dtqcb[d], Cap[d])
             o == Data(wait_queue[Snd(d)], winfo)
  <2>1. wait_queue[Snd(d)] = <<>> /\ wait_queue[Rcv(d)] = <<>> /\ dtqcb[d].count = 0
    BY <1>2, QueueNames DEF EmptyRing
  <2>2. /\ c \in Seq(Words) /\ Len(c) = 0 /\ o \in Seq(Words) /\ Len(o) = Len(<<>>)
        /\ d \in dtqexist => Stream[d] = c \o o
        /\ d \notin dtqexist => Stream[d] = <<>>
        /\ Receivers[d] = <<>>
    BY <1>1, <2>1, StreamFacts
  <2> HIDE DEF c, o
  <2>3. c = <<>> /\ o = <<>>
    BY <2>2
  <2>4. c \o o = <<>>
    BY ONLY <2>3
  <2> QED
    BY <2>2, <2>4
<1>4. Stream = [d \in DTQ |-> Stream[d]] /\ Receivers = [d \in DTQ |-> Receivers[d]]
  BY DEF Stream, Receivers
<1> QED
  BY <1>2, <1>3, <1>4 DEF Channel!ChannelInit

\* For any tasks, data and sizes the data queues implement the channels of
\* FifoChannel: whoever receives gets the oldest datum of the stream made of the
\* buffer and the data of the waiting senders, and no datum is lost, doubled or
\* overtaken but where FifoChannel says so.
THEOREM DtqIsFifoChannel == DtqSpec => IsFifoChannel
<1>1. DtqInv /\ [DtqNext]_allVars => [Channel!ChannelNext]_(Channel!cvars)
  BY DtqStepIsChannelStep
<1> QED
  BY DtqInitIsChannelInit, DtqInvariance, <1>1, PTL DEF DtqSpec, IsFifoChannel, Channel!ChannelSpec
=============================================================================
