------------------------------- MODULE CyclicAlarm -------------------------------
(***************************************************************************)
(* Cyclic handlers (kernel/cyclic.c) and alarm handlers (kernel/alarm.c),  *)
(* each with one time event.  A handler runs as the callback of its event, *)
(* with the CPU unlocked: no task runs then, but it and the handlers that  *)
(* interrupt it may start and stop alarm handlers.                         *)
(***************************************************************************)
EXTENDS TimeHeap

CONSTANTS
    CYC, ALM,       \* cyclic handlers and alarm handlers
    DynHdr          \* those made at run time: ids above tmax_scycid, tmax_salmid

HdrAssumption ==
    /\ EVT = CYC \cup ALM /\ CYC \cap ALM = {} /\ IsFiniteSet(EVT)
    /\ DynHdr \subseteq EVT

VARIABLES
    exist,          \* handlers whose cycatr or almatr is not TA_NOEXS
    cyctim, cycphs, \* those of the cyclic handlers that exist
    cycsta, almsta, \* the handlers whose cycsta, almsta is true
    evttim,         \* evttim of a registered cyclic handler, else 0
    ahead           \* how far ahead the next call of a handler is, in 1 / TIC_DENO ms;
                    \* 0 or less when an alarm handler is called

attrVars == <<exist, cyctim, cycphs>>
staVars  == <<cycsta, almsta, evttim>>
hdrVars  == <<heapVars, clockVars, cback, attrVars, staVars, ahead>>

\* Tasks wait until the interrupt handler that called signal_time has returned.
TskCtx == cback = NoEvt

\* The time of a handler is kept while it is registered or runs.
Ahead(a) ==
    ahead' = [h \in EVT |-> IF InHeap(tmevt_heap', h) \/ cback' = h THEN a[h] ELSE 0]

\* What is due d ms after the next tick
FromNextTick(d) == d * TIC_DENO + TIC_NUME

-----------------------------------------------------------------------------
\* The heap without handler h, which need not be registered
Apart(h) == IF Registered(h) THEN Without(tmevt_heap, index[h]) ELSE tmevt_heap

\* tmevtb_enqueue_cyc, d ms after base_time, of a handler that is not in the heap
EnqueueCyc(heap, c, d) ==
    LET time == Plus(base_time, d)
    IN  /\ SetNodes(With(heap, c, time))
        /\ evttim' = [evttim EXCEPT ![c] = time]
        /\ Ahead([ahead EXCEPT ![c] = FromNextTick(d)])

-----------------------------------------------------------------------------
\* Fault: a cycle of no time is accepted.
AcreCycOfNoTime(c, tim, phs, sta) ==
    /\ TskCtx /\ c \in DynHdr \ exist
    /\ UNCHANGED <<clockVars, cback, almsta>>
    /\ exist' = exist \cup {c}
    /\ cyctim' = [cyctim EXCEPT ![c] = tim] /\ cycphs' = [cycphs EXCEPT ![c] = phs]
    /\ IF sta THEN cycsta' = cycsta \cup {c} /\ EnqueueCyc(tmevt_heap, c, phs)
              ELSE UNCHANGED <<heapVars, cycsta, evttim, ahead>>

\* acre_cyc; sta is the attribute TA_STA.  Which free block is taken is left open.
AcreCyc(c, tim, phs, sta) ==
    /\ TskCtx /\ c \in DynHdr \ exist /\ 0 < tim
    /\ UNCHANGED <<clockVars, cback, almsta>>
    /\ exist' = exist \cup {c}
    /\ cyctim' = [cyctim EXCEPT ![c] = tim] /\ cycphs' = [cycphs EXCEPT ![c] = phs]
    /\ IF sta THEN cycsta' = cycsta \cup {c} /\ EnqueueCyc(tmevt_heap, c, phs)
              ELSE UNCHANGED <<heapVars, cycsta, evttim, ahead>>

\* acre_alm
AcreAlm(a) ==
    /\ TskCtx /\ a \in DynHdr \ exist
    /\ exist' = exist \cup {a}
    /\ UNCHANGED <<heapVars, clockVars, cback, cyctim, cycphs, staVars, ahead>>

\* sta_cyc
StaCyc(c) ==
    /\ TskCtx /\ c \in exist
    /\ UNCHANGED <<clockVars, cback, attrVars, almsta>>
    /\ cycsta' = cycsta \cup {c}
    /\ EnqueueCyc(IF c \in cycsta THEN Apart(c) ELSE tmevt_heap, c, cycphs[c])

\* The common part of stp_cyc and del_cyc
StopCyc(c) ==
    /\ UNCHANGED <<clockVars, cback, almsta>>
    /\ cycsta' = cycsta \ {c}
    /\ evttim' = [evttim EXCEPT ![c] = 0]
    /\ IF c \in cycsta THEN SetNodes(Apart(c)) ELSE UNCHANGED heapVars
    /\ Ahead(ahead)

\* stp_cyc
StpCyc(c) == TskCtx /\ c \in exist /\ StopCyc(c) /\ UNCHANGED attrVars

\* del_cyc
DelCyc(c) ==
    /\ TskCtx /\ c \in exist \cap DynHdr
    /\ StopCyc(c)
    /\ exist' = exist \ {c}
    /\ cyctim' = [cyctim EXCEPT ![c] = 0] /\ cycphs' = [cycphs EXCEPT ![c] = 0]

\* sta_alm, ista_alm: by a task, by a handler that runs, or by one that interrupts it
StaAlm(a, almtim) ==
    /\ a \in exist
    /\ UNCHANGED <<clockVars, cback, attrVars, cycsta, evttim>>
    /\ almsta' = almsta \cup {a}
    /\ SetNodes(With(IF a \in almsta THEN Apart(a) ELSE tmevt_heap, a, Plus(base_time, almtim)))
    /\ Ahead([ahead EXCEPT ![a] = FromNextTick(almtim)])

\* The common part of stp_alm, istp_alm and del_alm
StopAlm(a) ==
    /\ UNCHANGED <<clockVars, cback, cyctim, cycphs, cycsta, evttim>>
    /\ almsta' = almsta \ {a}
    /\ IF a \in almsta THEN SetNodes(Apart(a)) ELSE UNCHANGED heapVars
    /\ Ahead([ahead EXCEPT ![a] = 0])

\* stp_alm, istp_alm
StpAlm(a) == a \in exist /\ StopAlm(a) /\ UNCHANGED exist

\* del_alm
DelAlm(a) ==
    /\ TskCtx /\ a \in exist \cap DynHdr
    /\ StopAlm(a) /\ exist' = exist \ {a}

-----------------------------------------------------------------------------
\* Fault: the next call is counted from the tick, not from the time that was due.
CallCychdrFromTick(c, now, since) ==
    LET time == Plus(now, cyctim[c])
    IN  /\ SetNodes(With(Without(tmevt_heap, 1), c, time))
        /\ evttim' = [evttim EXCEPT ![c] = time]
        /\ Ahead([since EXCEPT ![c] = @ + cyctim[c] * TIC_DENO])
        /\ UNCHANGED <<cycsta, almsta>>

\* call_cychdr, once its event has left the heap and until the handler runs; since
\* has the times of all handlers.
CallCychdr(c, now, since) ==
    LET time == Plus(evttim[c], cyctim[c])
    IN  /\ SetNodes(With(Without(tmevt_heap, 1), c, time))
        /\ evttim' = [evttim EXCEPT ![c] = time]
        /\ Ahead([since EXCEPT ![c] = @ + cyctim[c] * TIC_DENO])
        /\ UNCHANGED <<cycsta, almsta>>

\* Fault: almsta stays true while the handler runs.
CallAlmhdrKeepsSta(a, since) ==
    /\ SetNodes(Without(tmevt_heap, 1))
    /\ UNCHANGED staVars
    /\ Ahead(since)

\* call_almhdr, until the handler runs
CallAlmhdr(a, since) ==
    /\ SetNodes(Without(tmevt_heap, 1))
    /\ almsta' = almsta \ {a}
    /\ Ahead(since)
    /\ UNCHANGED <<cycsta, evttim>>

\* A turn of the loop of signal_time that calls a handler
CallFirst(now, since) ==
    /\ Due(tmevt_heap, now)
    /\ cback' = tmevt_heap[1].evt
    /\ IF cback' \in CYC THEN CallCychdr(cback', now, since) ELSE CallAlmhdr(cback', since)
    /\ UNCHANGED min_time

\* The end of the loop
NoMore(now, since) ==
    /\ ~Due(tmevt_heap, now)
    /\ min_time' = now /\ cback' = NoEvt
    /\ UNCHANGED <<heapVars, staVars>>
    /\ Ahead(since)

\* signal_time, up to its first call
Tick ==
    LET since == [h \in EVT |-> ahead[h] - TIC_NUME]
    IN  /\ cback = NoEvt
        /\ Advance
        /\ CallFirst(current_time', since) \/ NoMore(current_time', since)
        /\ UNCHANGED attrVars

\* The handler returns to signal_time.
HandlerReturns ==
    /\ cback # NoEvt
    /\ CallFirst(current_time, ahead) \/ NoMore(current_time, ahead)
    /\ UNCHANGED <<current_time, next_time, next_subtime, attrVars>>

-----------------------------------------------------------------------------
\* The heap with the handlers of S, each as many ms after time 0 as its phase;
\* they are put in one by one, those of equal time in any order.
StartedAtInit(S) ==
    LET put[T \in SUBSET S] ==
            IF T = {} THEN <<>>
            ELSE LET c == CHOOSE c \in T : TRUE IN With(put[T \ {c}], c, cycphs[c])
    IN  /\ tmevt_heap = put[S]
        /\ index = [h \in EVT |-> IF h \in S THEN NodeOf(put[S], h) ELSE 0]

\* initialize_cyclic, after initialize_tmevt, for any handlers with and without TA_STA;
\* initialize_alarm
HdrInit ==
    /\ exist = EVT \ DynHdr
    /\ cyctim \in [CYC -> RELTIM] /\ \A c \in CYC : cyctim[c] > 0 <=> c \in exist
    /\ cycphs \in [CYC -> RELTIM] /\ \A c \in CYC \ exist : cycphs[c] = 0
    /\ cycsta \in SUBSET (CYC \cap exist) /\ almsta = {}
    /\ current_time = 0 /\ min_time = 0
    /\ next_time = TIC_NUME \div TIC_DENO /\ next_subtime = TIC_NUME % TIC_DENO
    /\ cback = NoEvt
    /\ StartedAtInit(cycsta)
    /\ evttim = [c \in CYC |-> IF c \in cycsta THEN cycphs[c] ELSE 0]
    /\ ahead = [h \in EVT |-> IF h \in cycsta THEN cycphs[h] * TIC_DENO ELSE 0]

HdrNext ==
    \/ \E c \in CYC :
          \/ \E tim, phs \in RELTIM, sta \in BOOLEAN : AcreCyc(c, tim, phs, sta)
          \/ StaCyc(c) \/ StpCyc(c) \/ DelCyc(c)
    \/ \E a \in ALM :
          \/ AcreAlm(a) \/ StpAlm(a) \/ DelAlm(a)
          \/ \E almtim \in RELTIM : StaAlm(a, almtim)
    \/ Tick \/ HandlerReturns

\* A handler comes to its end.
HdrSpec == HdrInit /\ [][HdrNext]_hdrVars /\ WF_hdrVars(HandlerReturns)

-----------------------------------------------------------------------------
(***************************************************************************)
(* Properties                                                              *)
(***************************************************************************)

\* The type of the variables.
CycAlmTypeOK ==
    /\ exist \in SUBSET EVT /\ cycsta \in SUBSET CYC /\ almsta \in SUBSET ALM
    /\ cyctim \in [CYC -> RELTIM] /\ cycphs \in [CYC -> RELTIM]
    /\ evttim \in [CYC -> EVTTIM] /\ ahead \in [EVT -> Int]
    /\ cback \in exist \cup {NoEvt}
    /\ next_subtime \in 0 .. TIC_DENO - 1

\* Whenever the CPU is unlocked, also in the middle of signal_time and within the
\* handler itself, cycsta and almsta say whether the event is in the heap: the
\* calls that stop, restart or delete a handler take it out just then.
EventsAreAccountedFor ==
    /\ {h \in EVT : Registered(h)} = cycsta \cup almsta
    /\ cycsta \cup almsta \subseteq exist

\* A handler is never called before its time, and none is a millisecond late when
\* signal_time has ended.  A cyclic handler makes up for every call that was due:
\* the time of the next one is that of the last one plus cyctim, without drift.
OnTime ==
    /\ cback \in CYC => ahead[cback] <= cyctim[cback] * TIC_DENO
    /\ cback \in ALM /\ ~Registered(cback) => ahead[cback] <= 0
    /\ cback = NoEvt => \A h \in EVT : Registered(h) => ahead[h] > - TIC_DENO

\* signal_time comes to an end, whatever the cycles of the handlers it registers again
\* and although handlers start alarm handlers, for 0 ms as well.
SignalTimeReturns == cback # NoEvt ~> cback = NoEvt
=============================================================================
