-------------------------------- MODULE TimeHeap ---------------------------------
(***************************************************************************)
(* Time events (kernel/time_event.c, time_event.h): time-outs, delays and  *)
(* time event handlers wait in a heap for the time tick that is due.       *)
(*                                                                         *)
(* Times are numbers modulo MODULUS and are compared relative to min_time. *)
(* This module has the heap, the clock and the steps of signal_time.       *)
(***************************************************************************)
EXTENDS Integers, Sequences, FiniteSets

CONSTANTS
    EVT,                    \* time event blocks (TMEVTB)
    NoEvt,
    MODULUS,                \* EVTTIM holds 0 .. MODULUS - 1
    TMAX_RELTIM,
    TIC_NUME, TIC_DENO      \* a tick is TIC_NUME / TIC_DENO ms

NoEvtAssumption == NoEvt \notin EVT
TicAssumption == TIC_NUME \in Nat \ {0} /\ TIC_DENO \in Nat \ {0}

\* Half the range of EVTTIM (LONG_MAX) is more than a tick away from all of it.
RangeAssumption ==
    /\ MODULUS \in Nat /\ TMAX_RELTIM \in Nat
    /\ TMAX_RELTIM + 2 * (TIC_NUME \div TIC_DENO + 1) + 1 < MODULUS

TimeAssumption == NoEvtAssumption /\ TicAssumption /\ RangeAssumption

VARIABLES
    tmevt_heap,     \* the nodes up to last_index: [time, evt]
    index,          \* the field index of each TMEVTB; 0 until it is registered
    current_time, min_time, next_time, next_subtime,
    cback           \* the event whose callback runs, within signal_time

heapVars  == <<tmevt_heap, index>>
clockVars == <<current_time, min_time, next_time, next_subtime>>

EVTTIM == 0 .. MODULUS - 1
RELTIM == 0 .. TMAX_RELTIM

Plus(time, d) == (time + d) % MODULUS

\* Fault: times are compared as plain numbers.
SinceMinPlain(time) == time

\* EVTTIM_LT and EVTTIM_LE compare times by this value.
SinceMin(time) == (time - min_time) % MODULUS

LT(time1, time2) == SinceMin(time1) < SinceMin(time2)
LE(time1, time2) == SinceMin(time1) <= SinceMin(time2)

\* Fault: the next tick is taken to be at a full millisecond.
base_timeRoundedDown == next_time

base_time == Plus(next_time, IF next_subtime > 0 THEN 1 ELSE 0)

-----------------------------------------------------------------------------
\* The heap.  A node is empty while its place is sought: the nodes on its way
\* move by one, and their events learn the new index.
Parent(i) == i \div 2

Ancestors(i) == LET up[j \in Nat] == IF j = 0 THEN {} ELSE {j} \cup up[Parent(j)] IN up[i]

\* The way from node i up to node j
Path(i, j) == {k \in Ancestors(i) : k >= j}

\* tmevt_up: the place of an event of the given time, from node i upwards
UpPlace(h, i, time) ==
    LET place[j \in 1 .. i] ==
            IF j = 1 \/ LE(h[Parent(j)].time, time) THEN j ELSE place[Parent(j)]
    IN  place[i]

\* tmevt_down, in a heap whose last node is n
DownPlace(h, n, i, time) ==
    LET child(j) == IF 2 * j + 1 <= n /\ LT(h[2 * j + 1].time, h[2 * j].time)
                    THEN 2 * j + 1 ELSE 2 * j
        place[j \in 1 .. i + n] ==
            IF 2 * j > n \/ LE(time, h[child(j)].time) THEN j ELSE place[child(j)]
    IN  place[i]

InHeap(h, e) == \E i \in DOMAIN h : h[i].evt = e
NodeOf(h, e) == CHOOSE i \in DOMAIN h : h[i].evt = e

\* Every event in the heap knows its node.  The index of an event that is not
\* registered is never read; it is taken as 0.
SetNodes(h) ==
    /\ tmevt_heap' = h
    /\ index' = [e \in EVT |-> IF InHeap(h, e) THEN NodeOf(h, e) ELSE 0]

\* tmevtb_insert: the heap once the event is in it
With(h, e, time) ==
    LET n == Len(h) + 1
        to == UpPlace(h, n, time)
    IN  [i \in 1 .. n |-> IF i = to THEN [time |-> time, evt |-> e]
                          ELSE IF i \in Path(n, to) THEN h[Parent(i)] ELSE h[i]]

\* Fault: the last node only ever moves down.
WithoutDownOnly(h, i) ==
    LET n == Len(h) - 1
        to == DownPlace(h, n, i, h[n + 1].time)
        below(j) == CHOOSE k \in Path(to, i) : Parent(k) = j
    IN  [j \in 1 .. n |-> IF j = to THEN h[n + 1]
                          ELSE IF j \in Path(to, i) THEN h[below(j)] ELSE h[j]]

\* tmevtb_delete and tmevtb_delete_top: the last node goes to the place that
\* becomes free at node i, up if it is earlier than the parent, else down.
Without(h, i) ==
    LET n == Len(h) - 1
        last == h[n + 1]
        up == i > 1 /\ LT(last.time, h[Parent(i)].time)
        to == IF up THEN UpPlace(h, Parent(i), last.time) ELSE DownPlace(h, n, i, last.time)
        below(j) == CHOOSE k \in Path(to, i) : Parent(k) = j
        moved(j) == IF j = to THEN last
                    ELSE IF up /\ j \in Path(i, to) THEN h[Parent(j)]
                    ELSE IF ~up /\ j \in Path(to, i) THEN h[below(j)] ELSE h[j]
    IN  [j \in 1 .. n |-> moved(j)]

Registered(e) == InHeap(tmevt_heap, e)

-----------------------------------------------------------------------------
\* Fault: the events of the tick are called a tick late.
DueLate(h, now) == h # <<>> /\ LT(h[1].time, now)

Due(h, now) == h # <<>> /\ LE(h[1].time, now)

\* Fault: the fraction that is carried into next_time is not taken off.
AdvanceKeepsCarry ==
    LET sub == next_subtime + (TIC_NUME % TIC_DENO)
        carry == IF sub >= TIC_DENO THEN 1 ELSE 0
    IN  /\ current_time' = next_time
        /\ next_time' = Plus(next_time, TIC_NUME \div TIC_DENO + carry)
        /\ next_subtime' = IF sub > TIC_DENO THEN sub - TIC_DENO ELSE sub

\* The next tick is TIC_NUME / TIC_DENO ms away.
Advance ==
    LET sub == next_subtime + (TIC_NUME % TIC_DENO)
        carry == IF sub >= TIC_DENO THEN 1 ELSE 0
    IN  /\ current_time' = next_time
        /\ next_time' = Plus(next_time, TIC_NUME \div TIC_DENO + carry)
        /\ next_subtime' = sub - carry * TIC_DENO

\* tmevt_lefttim
Lefttim(e) ==
    LET time == tmevt_heap[index[e]].time
    IN  IF LE(time, next_time) THEN 0 ELSE (time - base_time) % MODULUS

\* initialize_tmevt
HeapInit ==
    /\ tmevt_heap = <<>> /\ index = [e \in EVT |-> 0]
    /\ current_time = 0 /\ min_time = 0
    /\ next_time = TIC_NUME \div TIC_DENO /\ next_subtime = TIC_NUME % TIC_DENO
    /\ cback = NoEvt

\* No node is due before its parent, also when min_time has moved and the
\* times have wrapped round; every event in the heap knows its node.
HeapConsistent ==
    \A i \in DOMAIN tmevt_heap :
        /\ i > 1 => LE(tmevt_heap[Parent(i)].time, tmevt_heap[i].time)
        /\ index[tmevt_heap[i].evt] = i
=============================================================================
