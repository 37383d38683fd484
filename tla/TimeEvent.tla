-------------------------------- MODULE TimeEvent --------------------------------
(***************************************************************************)
(* The calls of kernel/time_event.h and signal_time, with any callback.    *)
(* A callback runs, or lets interrupts in, with the CPU unlocked: other    *)
(* calls register and remove events between two steps of signal_time.      *)
(***************************************************************************)
EXTENDS TimeHeap

VARIABLES
    reltim,         \* the time each event in the heap was asked for; the event
                    \* whose callback runs keeps it as well
    ticks           \* and the number of ticks supplied since then

askVars   == <<reltim, ticks>>
vars      == <<heapVars, clockVars, cback, askVars>>

-----------------------------------------------------------------------------
\* What was asked for is kept while the event is registered or called.
Asked(asked, counted) ==
    LET kept(e) == InHeap(tmevt_heap', e) \/ cback' = e
    IN  /\ reltim' = [e \in EVT |-> IF kept(e) THEN asked[e] ELSE 0]
        /\ ticks' = [e \in EVT |-> IF kept(e) THEN counted[e] ELSE 0]

\* tmevtb_enqueue
Enqueue(e, time) ==
    /\ ~Registered(e)
    /\ SetNodes(With(tmevt_heap, e, Plus(base_time, time)))
    /\ UNCHANGED <<clockVars, cback>>
    /\ Asked([reltim EXCEPT ![e] = time], [ticks EXCEPT ![e] = 0])

\* tmevtb_dequeue finds the node by the index of the event.
Dequeue(e) ==
    /\ Registered(e)
    /\ SetNodes(Without(tmevt_heap, index[e]))
    /\ UNCHANGED <<clockVars, cback>>
    /\ Asked(reltim, ticks)

\* One turn of the loop of signal_time: the first event is removed and its
\* callback starts, or there is none and min_time catches up.
Turn(now) ==
    IF Due(tmevt_heap, now)
    THEN /\ cback' = tmevt_heap[1].evt
         /\ SetNodes(Without(tmevt_heap, 1))
         /\ UNCHANGED min_time
    ELSE /\ min_time' = now /\ cback' = NoEvt
         /\ UNCHANGED heapVars

\* signal_time, up to its first callback
SignalTime ==
    /\ cback = NoEvt
    /\ Advance
    /\ Turn(current_time')
    /\ Asked(reltim, [e \in EVT |-> ticks[e] + 1])

\* The callback returns to signal_time.
CallbackReturns ==
    /\ cback # NoEvt
    /\ Turn(current_time)
    /\ UNCHANGED <<current_time, next_time, next_subtime>>
    /\ Asked(reltim, ticks)

-----------------------------------------------------------------------------
Init ==
    /\ HeapInit
    /\ reltim = [e \in EVT |-> 0] /\ ticks = [e \in EVT |-> 0]

Next ==
    \/ \E e \in EVT : Dequeue(e) \/ \E time \in RELTIM : Enqueue(e, time)
    \/ SignalTime \/ CallbackReturns

\* A callback comes to its end.
Spec == Init /\ [][Next]_vars /\ WF_vars(CallbackReturns)

-----------------------------------------------------------------------------
(***************************************************************************)
(* Properties                                                              *)
(***************************************************************************)

\* The type of the variables; the fraction next_subtime stays below a millisecond,
\* whatever signal_time carries into next_time.
TypeOK ==
    /\ tmevt_heap \in Seq([time : EVTTIM, evt : EVT]) /\ index \in [EVT -> Nat]
    /\ current_time \in EVTTIM /\ min_time \in EVTTIM /\ next_time \in EVTTIM
    /\ next_subtime \in 0 .. TIC_DENO - 1
    /\ cback \in EVT \cup {NoEvt}
    /\ reltim \in [EVT -> RELTIM] /\ ticks \in [EVT -> Nat]

\* The variables keep their types, and the heap its order.
TimeConsistent == TypeOK /\ HeapConsistent

\* The time an event has waited for when the last tick was supplied: the tick
\* that follows the call is where its time starts.
Waited(e) == (ticks[e] - 1) * TIC_NUME

\* An event is never called before the time it was asked for has passed,
\* counted from the tick that followed the call.
CalledInTime ==
    cback' \notin {NoEvt, cback} => (ticks'[cback'] - 1) * TIC_NUME >= reltim[cback'] * TIC_DENO

NobodyIsEarly == [][CalledInTime]_vars

\* Once the loop of signal_time has ended no event is left whose time, which
\* starts at the next full millisecond, has passed.
NeverLate ==
    \A e \in EVT : Registered(e) /\ cback = NoEvt =>
        Waited(e) < (reltim[e] + 1) * TIC_DENO - 1

\* The time left that ref_alm, ref_cyc and ref_tsk report is off by less than a
\* millisecond from what is missing, at the next tick, of the time asked for.
LeftIsMissing ==
    \A e \in EVT : Registered(e) /\ cback = NoEvt =>
        LET missing == reltim[e] * TIC_DENO - ticks[e] * TIC_NUME
            left == Lefttim(e) * TIC_DENO
        IN  /\ missing - TIC_DENO < left
            /\ left < TIC_DENO + IF missing > 0 THEN missing ELSE 0

\* When signal_time returns no event is left whose time has passed, and the time
\* left is what ref_alm and others report.
NobodyIsLate == NeverLate /\ LeftIsMissing

\* signal_time comes to an end, also when the callbacks register events for the
\* next tick again and again.
SignalTimeEnds == cback # NoEvt ~> cback = NoEvt
=============================================================================
