------------------------------- MODULE RingBuffer -------------------------------
(***************************************************************************)
(* The buffer of a data queue: enqueue_data, force_enqueue_data and        *)
(* dequeue_data of kernel/dataqueue.c as operators on its control block.   *)
(***************************************************************************)
EXTENDS Naturals, Sequences

CONSTANTS DATA, NoData

\* mb is the memory at p_dtqmb, of dtqcnt words; a word keeps its value until
\* another is stored there.
RingType(dtqcnt) ==
    [mb : [0 .. dtqcnt - 1 -> DATA \cup {NoData}], head : Nat, tail : Nat, count : Nat]

EmptyRing(dtqcnt) ==
    [mb |-> [i \in 0 .. dtqcnt - 1 |-> NoData], head |-> 0, tail |-> 0, count |-> 0]

\* acre_dtq and ini_dtq reset the indexes and leave the memory as it is.
Emptied(q) == [mb |-> q.mb, head |-> 0, tail |-> 0, count |-> 0]

NextIndex(i, dtqcnt) == IF i + 1 >= dtqcnt THEN 0 ELSE i + 1

EnqueueData(q, dtqcnt, x) ==
    [mb |-> [q.mb EXCEPT ![q.tail] = x], head |-> q.head,
     tail |-> NextIndex(q.tail, dtqcnt), count |-> q.count + 1]

\* Fault: head does not follow when the oldest datum is overwritten.
ForceEnqueueKeepsHead(q, dtqcnt, x) ==
    [q EXCEPT !.mb[q.tail] = x, !.tail = NextIndex(@, dtqcnt),
              !.count = IF @ < dtqcnt THEN @ + 1 ELSE @]

\* When the buffer is full the datum overwrites the oldest one.
ForceEnqueueData(q, dtqcnt, x) ==
    IF q.count < dtqcnt THEN EnqueueData(q, dtqcnt, x)
    ELSE [mb |-> [q.mb EXCEPT ![q.tail] = x], head |-> NextIndex(q.tail, dtqcnt),
          tail |-> NextIndex(q.tail, dtqcnt), count |-> q.count]

FirstData(q) == q.mb[q.head]

DequeueData(q, dtqcnt) ==
    [mb |-> q.mb, head |-> NextIndex(q.head, dtqcnt), tail |-> q.tail, count |-> q.count - 1]

-----------------------------------------------------------------------------
\* The place of the i-th datum, counted from 0
Place(q, dtqcnt, i) == IF q.head + i >= dtqcnt THEN q.head + i - dtqcnt ELSE q.head + i

\* The data in the buffer, oldest first
Contents(q, dtqcnt) == [i \in 1 .. q.count |-> q.mb[Place(q, dtqcnt, i - 1)]]

\* The indexes lie in the buffer, agree with count, and every word counted has
\* been written.
RingOk(q, dtqcnt) ==
    /\ q \in RingType(dtqcnt)
    /\ q.count <= dtqcnt
    /\ dtqcnt = 0 => q.head = 0 /\ q.tail = 0
    /\ dtqcnt > 0 => q.head < dtqcnt /\ q.tail = Place(q, dtqcnt, q.count)
    /\ \A i \in 1 .. q.count : Contents(q, dtqcnt)[i] \in DATA
=============================================================================
