-------------------------------- MODULE TaskTimer ---------------------------------
(***************************************************************************)
(* Tasks and the time events of their time-outs: Scheduler composed with   *)
(* TimeEvent.  The TMEVTB of a wait is a local variable of the call that   *)
(* waits (task_sync.c), so that an event must not stay in the heap when    *)
(* the wait is over.  Here the event of a task is named by the task.       *)
(*                                                                         *)
(* signal_time runs in the timer handler.  The callback, wait_tmout or     *)
(* wait_tmout_ok, releases the task and then opens the CPU lock: handlers  *)
(* that nest in the timer handler make their calls before the loop goes on.*)
(***************************************************************************)
EXTENDS Scheduler

CONSTANTS MODULUS, TMAX_RELTIM, TIC_NUME, TIC_DENO

VARIABLES
    tmevt_heap, index, current_time, min_time, next_time, next_subtime,
    cback,          \* the task whose callback has the CPU lock open
    reltim, ticks,  \* what each wait asked for, as in TimeEvent
    sigNest         \* excpt_nest_count of the timer handler in signal_time, or 0

Timer == INSTANCE TimeEvent WITH EVT <- TASK, NoEvt <- NoTask

schedVars == vars
eventVars == <<tmevt_heap, index, current_time, min_time, next_time, next_subtime,
               cback, reltim, ticks>>
timerVars == <<eventVars, sigNest>>
allVars   == <<schedVars, timerVars>>

\* The tasks with an event in the heap
Timed == {t \in TASK : Timer!Registered(t)}

\* wait_dequeue_tmevtb looks at the field p_tmevtb of the wait.
WaitDequeueTmevtb(t) ==
    /\ IF t \in tmevt THEN Timer!Dequeue(t) ELSE UNCHANGED eventVars
    /\ UNCHANGED sigNest

-----------------------------------------------------------------------------
\* The calls of Scheduler that start or end a wait, with the event
StartsWait(timed) ==
    /\ SlpTsk(timed)
    /\ IF timed /\ ~wupque[runtsk]
       THEN \E time \in Timer!RELTIM \ {0} : Timer!Enqueue(runtsk, time)
       ELSE UNCHANGED eventVars
    /\ UNCHANGED sigNest

Delays ==
    /\ DlyTsk
    /\ \E time \in Timer!RELTIM : Timer!Enqueue(runtsk, time)
    /\ UNCHANGED sigNest

\* Fault: a wake-up leaves the time-out registered.
WakesLeavesEvent(t) == (WupTsk(t) \/ IwupTsk(t)) /\ UNCHANGED timerVars

Wakes(t) ==
    /\ WupTsk(t) \/ IwupTsk(t)
    /\ IF Sleeping(t) THEN WaitDequeueTmevtb(t) ELSE UNCHANGED timerVars

Releases(t)   == (RelWai(t) \/ IrelWai(t)) /\ WaitDequeueTmevtb(t)
Terminates(t) == TerTsk(t) /\ IF Waiting(t) THEN WaitDequeueTmevtb(t) ELSE UNCHANGED timerVars

\* Every other call
Elsewhere ==
    /\ \/ \E t \in TASK : ActTsk(t) \/ IactTsk(t) \/ SusTsk(t) \/ RsmTsk(t) \/ SetWaifbd(t)
       \/ \E t \in TASK, p \in PRI : ChgPri(t, p)
       \/ ExtTsk \/ DisDsp \/ EnaDsp \/ LocCpu \/ UnlCpu
       \/ \E p \in PRI : RotRdq(p)
       \/ IntExitNested \/ IntExit \/ IdleExit
    /\ UNCHANGED timerVars

-----------------------------------------------------------------------------
\* Fault: a callback that needs no dispatch takes back the request of another.
WaitTmoutOverwrites(t) ==
    LET r == MakeRunnable(ready, t, priority)
    IN  /\ t \in tmevt /\ tmevt' = tmevt \ {t}
        /\ tstat' = [tstat EXCEPT ![t] = IF Suspended(t) THEN {"SUSPENDED"} ELSE {"RUNNABLE"}]
        /\ ready' = IF Suspended(t) THEN ready ELSE r
        /\ reqflg' = (~Suspended(t) /\ dspflg /\ DispatchRequest(ready, r))
        /\ UNCHANGED <<exist, ipriority, bpriority, priority, actque, wupque, waifbd>>
        /\ UNCHANGED <<runtsk, nest, modeVars>>

\* wait_tmout and wait_tmout_ok, up to the opening of the lock
TimesOut(t) == WaitTmout(t)

\* A turn of the loop of signal_time calls the callback of the task whose event
\* it has taken from the heap, or is the last one.
Turn(step) ==
    /\ step
    /\ IF cback' = NoTask THEN sigNest' = 0 /\ UNCHANGED schedVars
                          ELSE sigNest' = nest /\ TimesOut(cback')

SignalTime == IntCtxUnl /\ sigNest = 0 /\ Turn(Timer!SignalTime)

\* Fault: one event is called in a tick.
CallbackReturnsLast ==
    /\ sigNest > 0 /\ nest = sigNest
    /\ min_time' = current_time /\ cback' = NoTask /\ sigNest' = 0
    /\ UNCHANGED <<schedVars, tmevt_heap, index, current_time, next_time, next_subtime>>
    /\ UNCHANGED <<reltim, ticks>>

CallbackReturns == sigNest > 0 /\ nest = sigNest /\ Turn(Timer!CallbackReturns)

\* Fault: the timer handler may return with the loop in a callback.
HasCpuAlways == TRUE

\* While the lock is open only handlers that nest in the timer handler run.
HasCpu == sigNest = 0 \/ nest > sigNest

-----------------------------------------------------------------------------
TimerInit == Init /\ Timer!Init /\ sigNest = 0

TimerNext ==
    \/ /\ HasCpu
       /\ \/ \E timed \in BOOLEAN : StartsWait(timed)
          \/ Delays
          \/ \E t \in TASK : Wakes(t) \/ Releases(t) \/ Terminates(t)
          \/ Elsewhere
    \/ IntEnter /\ UNCHANGED timerVars
    \/ SignalTime \/ CallbackReturns

TimerSpec == TimerInit /\ [][TimerNext]_allVars

-----------------------------------------------------------------------------
(***************************************************************************)
(* Properties                                                              *)
(***************************************************************************)

\* The type of what this module adds: signal_time is in a callback while a
\* handler at its level, or one nested in it, runs.
TimerTypeOK ==
    /\ Timer!TypeOK /\ sigNest \in 0 .. MaxNest
    /\ sigNest > 0 <=> cback # NoTask
    /\ sigNest <= nest

\* The heap holds the event of a task if and only if the task waits with a
\* time-out: no node points into the stack of a call that has returned, however
\* the wait ended, also when a nested handler ended it in the window.
TimersAreForWaits ==
    /\ Timed = tmevt
    /\ \A t \in Timed : Waiting(t) /\ t # cback

\* A task is released by its own time-out, and not before it has waited for as
\* long as it asked: an event of an earlier wait never ends a later one.
ReleasedInTime ==
    cback' \notin {NoTask, cback} =>
        /\ cback' \in tmevt
        /\ (ticks'[cback'] - 1) * TIC_NUME >= reltim[cback'] * TIC_DENO

TimedOutInTime == [][ReleasedInTime]_allVars

\* Once signal_time has returned no task waits on whose time, which starts at the
\* next full millisecond, has passed, whatever handlers did in the windows.
NobodyOversleeps ==
    \A t \in tmevt : sigNest = 0 =>
        (ticks[t] - 1) * TIC_NUME < (reltim[t] + 1) * TIC_DENO - 1
=============================================================================
