--------------------------- MODULE RingBufferProofs ---------------------------
(***************************************************************************)
(* The buffer of a data queue behaves as a first-in first-out sequence,    *)
(* for every capacity and wherever its contents lie in the memory.         *)
(***************************************************************************)
EXTENDS RingBuffer, TLAPS

\* The places of the ring: no two data share one, and an index moves from one
\* place to the next.
LEMMA PlaceFacts ==
    ASSUME NEW n \in Nat \ {0}, NEW q, q.head \in 0 .. n - 1
    PROVE  /\ \A i \in 0 .. n : Place(q, n, i) \in 0 .. n - 1
           /\ \A i, j \in 0 .. n - 1 : Place(q, n, i) = Place(q, n, j) => i = j
           /\ \A i \in 0 .. n - 1 : Place(q, n, i + 1) = NextIndex(Place(q, n, i), n)
           /\ Place(q, n, 0) = q.head /\ Place(q, n, n) = q.head
<1>1. \A i \in 0 .. n : Place(q, n, i) \in 0 .. n - 1
  BY DEF Place
<1>2. \A i, j \in 0 .. n - 1 : Place(q, n, i) = Place(q, n, j) => i = j
  BY DEF Place
<1>3. \A i \in 0 .. n - 1 : Place(q, n, i + 1) = NextIndex(Place(q, n, i), n)
  BY DEF Place, NextIndex
<1>4. Place(q, n, 0) = q.head /\ Place(q, n, n) = q.head
  BY DEF Place
<1> QED BY <1>1, <1>2, <1>3, <1>4

\* A ring whose head has moved on by one
LEMMA NextHead ==
    ASSUME NEW n \in Nat \ {0}, NEW q, NEW r, q.head \in 0 .. n - 1,
           r.head = NextIndex(q.head, n)
    PROVE  /\ r.head \in 0 .. n - 1
           /\ \A i \in 0 .. n - 1 : Place(r, n, i) = Place(q, n, i + 1)
  BY DEF Place, NextIndex

\* What RingOk says of the indexes and the contents
LEMMA RingFacts ==
    ASSUME NEW n \in Nat \ {0}, NEW q, RingOk(q, n)
    PROVE  /\ q \in [mb : [0 .. n - 1 -> DATA \cup {NoData}], head : Nat, tail : Nat, count : Nat]
           /\ q.head \in 0 .. n - 1 /\ q.count \in 0 .. n /\ q.tail = Place(q, n, q.count)
           /\ \A i \in 0 .. q.count - 1 : q.mb[Place(q, n, i)] \in DATA
           /\ Contents(q, n) \in Seq(DATA) /\ Len(Contents(q, n)) = q.count
<1>1. /\ q \in [mb : [0 .. n - 1 -> DATA \cup {NoData}], head : Nat, tail : Nat, count : Nat]
      /\ q.head \in 0 .. n - 1 /\ q.count \in 0 .. n /\ q.tail = Place(q, n, q.count)
  BY DEF RingOk, RingType
<1>2. ASSUME NEW i \in 0 .. q.count - 1 PROVE q.mb[Place(q, n, i)] \in DATA
  <2>1. i + 1 \in 1 .. q.count /\ (i + 1) - 1 = i
    BY <1>1
  <2>2. Contents(q, n)[i + 1] = q.mb[Place(q, n, i)]
    BY <2>1 DEF Contents
  <2> QED BY <2>1, <2>2 DEF RingOk
<1>3. ASSUME NEW i \in 1 .. q.count PROVE q.mb[Place(q, n, i - 1)] \in DATA
  <2>1. i - 1 \in 0 .. q.count - 1
    BY <1>1
  <2> QED BY <1>2, <2>1
<1>4. Contents(q, n) \in Seq(DATA) /\ Len(Contents(q, n)) = q.count
  BY <1>1, <1>3 DEF Contents
<1> QED BY <1>1, <1>2, <1>4

\* enqueue_data, called when there is room, appends the datum.
THEOREM EnqueueAppends ==
    ASSUME NEW n \in Nat, NEW q, RingOk(q, n), NEW x \in DATA, q.count < n
    PROVE  /\ RingOk(EnqueueData(q, n, x), n)
           /\ Contents(EnqueueData(q, n, x), n) = Append(Contents(q, n), x)
<1> DEFINE r == EnqueueData(q, n, x)
           at(i) == Place(q, n, i)
<1>0. n \in Nat \ {0}
  BY DEF RingOk, RingType
<1>1. /\ q \in [mb : [0 .. n - 1 -> DATA \cup {NoData}], head : Nat, tail : Nat, count : Nat]
      /\ q.head \in 0 .. n - 1 /\ q.count \in 0 .. n - 1 /\ q.tail = at(q.count)
      /\ \A i \in 0 .. q.count - 1 : q.mb[at(i)] \in DATA
      /\ Contents(q, n) \in Seq(DATA) /\ Len(Contents(q, n)) = q.count
  BY <1>0, RingFacts
<1>2. /\ \A i \in 0 .. n : at(i) \in 0 .. n - 1
      /\ \A i, j \in 0 .. n - 1 : at(i) = at(j) => i = j
      /\ at(q.count + 1) = NextIndex(at(q.count), n)
  <2>1. q.head \in 0 .. n - 1 /\ q.count \in 0 .. n - 1
    BY <1>1
  <2>2. /\ \A i \in 0 .. n : at(i) \in 0 .. n - 1
        /\ \A i, j \in 0 .. n - 1 : at(i) = at(j) => i = j
        /\ \A i \in 0 .. n - 1 : at(i + 1) = NextIndex(at(i), n)
    BY <1>0, <2>1, PlaceFacts, Zenon
  <2> QED BY <2>1, <2>2
<1>3. /\ r.head = q.head /\ r.count = q.count + 1 /\ r.tail = at(q.count + 1)
      /\ r.mb = [q.mb EXCEPT ![q.tail] = x]
      /\ r \in RingType(n)
  <2>1. q \in [mb : [0 .. n - 1 -> DATA \cup {NoData}], head : Nat, tail : Nat, count : Nat]
    BY <1>1
  <2>2. q.tail \in 0 .. n - 1
    BY <1>1, <1>2
  <2>3. NextIndex(q.tail, n) \in Nat
    BY <2>2 DEF NextIndex
  <2>4. r = [mb |-> [q.mb EXCEPT ![q.tail] = x], head |-> q.head,
             tail |-> NextIndex(q.tail, n), count |-> q.count + 1]
    BY <2>1 DEF EnqueueData
  <2>5. [q.mb EXCEPT ![q.tail] = x] \in [0 .. n - 1 -> DATA \cup {NoData}]
    BY <2>1
  <2>6. r \in RingType(n)
    BY <2>1, <2>3, <2>4, <2>5 DEF RingType
  <2> QED BY <1>1, <1>2, <2>4, <2>6
<1>4. \A i \in Nat : Place(r, n, i) = at(i)
  BY <1>3 DEF Place
<1>5. ASSUME NEW i \in 0 .. q.count
      PROVE  r.mb[at(i)] = IF i = q.count THEN x ELSE q.mb[at(i)]
  <2> HIDE DEF r, at
  <2>1. at(i) \in 0 .. n - 1 /\ (at(i) = q.tail => i = q.count)
    BY <1>1, <1>2
  <2>2. DOMAIN q.mb = 0 .. n - 1
    BY <1>1 DEF RingType
  <2> QED BY <1>1, <1>3, <2>1, <2>2
<1>6. Contents(r, n) = [i \in 1 .. q.count + 1 |-> IF i = q.count + 1 THEN x ELSE q.mb[at(i - 1)]]
  BY <1>1, <1>3, <1>4, <1>5 DEF Contents
<1>7. Contents(q, n) = [i \in 1 .. q.count |-> q.mb[at(i - 1)]]
  BY DEF Contents
<1>8. Contents(r, n) = Append(Contents(q, n), x)
  BY <1>1, <1>6, <1>7
<1>9. RingOk(r, n)
  <2>1. \A i \in 1 .. r.count : Contents(r, n)[i] \in DATA
    BY <1>1, <1>3, <1>8
  <2>2. r.tail = Place(r, n, r.count)
    BY <1>1, <1>3, <1>4
  <2> HIDE DEF r, at
  <2> QED BY <1>0, <1>1, <1>3, <2>1, <2>2 DEF RingOk
<1> QED BY <1>8, <1>9

\* dequeue_data takes the oldest datum and leaves the others in their order.
THEOREM DequeueTakesOldest ==
    ASSUME NEW n \in Nat, NEW q, RingOk(q, n), q.count > 0
    PROVE  /\ RingOk(DequeueData(q, n), n)
           /\ Contents(q, n) # <<>> /\ FirstData(q) = Head(Contents(q, n))
           /\ Contents(DequeueData(q, n), n) = Tail(Contents(q, n))
<1> DEFINE r == DequeueData(q, n)
           at(i) == Place(q, n, i)
<1>0. n \in Nat \ {0}
  BY DEF RingOk, RingType
<1>1. /\ q \in [mb : [0 .. n - 1 -> DATA \cup {NoData}], head : Nat, tail : Nat, count : Nat]
      /\ q.head \in 0 .. n - 1 /\ q.count \in 1 .. n /\ q.tail = at(q.count)
      /\ \A i \in 0 .. q.count - 1 : q.mb[at(i)] \in DATA
      /\ Contents(q, n) \in Seq(DATA) /\ Len(Contents(q, n)) = q.count
  BY <1>0, RingFacts
<1>2. NextIndex(q.head, n) \in 0 .. n - 1 /\ at(0) = q.head
  <2>1. q.head \in 0 .. n - 1
    BY <1>1
  <2>2. at(0) = q.head
    BY <1>0, <2>1, PlaceFacts, Zenon
  <2> QED BY <1>0, <2>1, <2>2 DEF NextIndex
<1>3. /\ r.head = NextIndex(q.head, n) /\ r.count = q.count - 1 /\ r.tail = q.tail
      /\ r.mb = q.mb /\ r \in RingType(n)
  BY <1>1, <1>2 DEF DequeueData, RingType
<1>4. \A i \in 0 .. n - 1 : Place(r, n, i) = at(i + 1)
  BY <1>0, <1>1, <1>3, NextHead
<1>5. Contents(q, n) = [i \in 1 .. q.count |-> q.mb[at(i - 1)]]
  BY DEF Contents
<1>6. Contents(q, n) # <<>> /\ Head(Contents(q, n)) = q.mb[q.head]
  BY <1>1, <1>2, <1>5
<1>7. Contents(r, n) = [i \in 1 .. q.count - 1 |-> q.mb[at(i)]]
  <2>1. \A i \in 1 .. q.count - 1 : Place(r, n, i - 1) = at(i)
    BY <1>0, <1>1, <1>4
  <2> QED BY <1>3, <2>1 DEF Contents
<1>8. Contents(r, n) = Tail(Contents(q, n))
  BY <1>1, <1>5, <1>7
<1>9. RingOk(r, n)
  <2>1. \A i \in 1 .. r.count : Contents(r, n)[i] \in DATA
    BY <1>1, <1>3, <1>7
  <2>2. r.tail = Place(r, n, r.count)
    BY <1>0, <1>1, <1>3, <1>4
  <2> QED BY <1>0, <1>1, <1>2, <1>3, <2>1, <2>2 DEF RingOk
<1> QED BY <1>6, <1>8, <1>9 DEF FirstData

\* force_enqueue_data into a full buffer drops the oldest datum only: it does
\* what dequeue_data followed by enqueue_data would do.
THEOREM ForceEnqueueDropsOldest ==
    ASSUME NEW n \in Nat \ {0}, NEW q, RingOk(q, n), NEW x \in DATA, q.count = n
    PROVE  /\ RingOk(ForceEnqueueData(q, n, x), n)
           /\ Contents(ForceEnqueueData(q, n, x), n) = Append(Tail(Contents(q, n)), x)
<1> DEFINE r == DequeueData(q, n)
<1>1. /\ q \in [mb : [0 .. n - 1 -> DATA \cup {NoData}], head : Nat, tail : Nat, count : Nat]
      /\ q.head \in 0 .. n - 1 /\ q.tail = Place(q, n, q.count)
  BY RingFacts
<1>2. q.tail = q.head
  BY <1>1 DEF Place
<1>3. r.mb = q.mb /\ r.head = NextIndex(q.head, n) /\ r.tail = q.tail /\ r.count = q.count - 1
  BY DEF DequeueData
<1>4. ForceEnqueueData(q, n, x) = EnqueueData(r, n, x)
  BY <1>1, <1>2, <1>3 DEF ForceEnqueueData, EnqueueData
<1>5. RingOk(r, n) /\ Contents(r, n) = Tail(Contents(q, n))
  BY DequeueTakesOldest
<1>6. r.count < n
  BY <1>1, <1>3
<1> HIDE DEF r
<1> QED BY <1>4, <1>5, <1>6, EnqueueAppends
=============================================================================
