----------------------------- MODULE TaskTimerProofs -----------------------------
(***************************************************************************)
(* Proofs about TaskTimer: the scheduler keeps its invariant, the events   *)
(* of the tasks keep those of TimeEvent, and the two agree on who waits    *)
(* with a time-out.  What TimeProofs proves of any events is used of those *)
(* of the tasks; it has no handlers here.                                  *)
(*                                                                         *)
(* Then about MCTime, where any events, cyclic and alarm handlers or tasks *)
(* are explored: the properties of the run, for all constants.             *)
(***************************************************************************)
EXTENDS MCTime, SchedulerProofs

Events == INSTANCE TimeProofs WITH
    EVT <- TASK, NoEvt <- NoTask, CYC <- {}, ALM <- {}, DynHdr <- {},
    cyctim <- <<>>, cycphs <- <<>>, cycsta <- {}, almsta <- {}, evttim <- <<>>, ahead <- <<>>

-----------------------------------------------------------------------------
\* The definitions of TimeEvent that TaskTimer and TimeProofs speak of are the same.

LEMMA SameTimes ==
    /\ Timer!TimeAssumption <=> Events!TimeAssumption
    /\ Timer!RELTIM = Events!RELTIM /\ Timer!EVTTIM = Events!EVTTIM
    /\ Timer!base_time = Events!base_time
    /\ \A x, y : Timer!Plus(x, y) = Events!Plus(x, y)
    /\ \A x, y : Timer!LE(x, y) <=> Events!LE(x, y)
    /\ \A x, y : Timer!LT(x, y) <=> Events!LT(x, y)
  BY DEF Timer!TimeAssumption, Events!TimeAssumption,
         Timer!NoEvtAssumption, Events!NoEvtAssumption, Timer!TicAssumption, Events!TicAssumption,
         Timer!RangeAssumption, Events!RangeAssumption, Timer!RELTIM, Events!RELTIM,
         Timer!EVTTIM, Events!EVTTIM, Timer!base_time, Events!base_time, Timer!Plus, Events!Plus,
         Timer!LE, Events!LE, Timer!LT, Events!LT, Timer!SinceMin, Events!SinceMin

LEMMA SameRegistered ==
    /\ \A h, t : Timer!InHeap(h, t) <=> Events!InHeap(h, t)
    /\ \A t : Timer!Registered(t) <=> Events!Registered(t)
    /\ \A t : Timer!Registered(t)' <=> Events!Registered(t)'
  BY DEF Timer!Registered, Events!Registered, Timer!InHeap, Events!InHeap

LEMMA SameHeaps ==
    /\ \A h, t, time : Timer!With(h, t, time) = Events!With(h, t, time)
    /\ \A h, i : Timer!Without(h, i) = Events!Without(h, i)
    /\ \A h : Timer!SetNodes(h) <=> Events!SetNodes(h)
    /\ \A h, now : Timer!Due(h, now) <=> Events!Due(h, now)
  BY DEF Timer!With, Events!With, Timer!Without, Events!Without, Timer!SetNodes, Events!SetNodes,
         Timer!Due, Events!Due, Timer!InHeap, Events!InHeap, Timer!NodeOf, Events!NodeOf,
         Timer!Path, Events!Path, Timer!Ancestors, Events!Ancestors, Timer!Parent, Events!Parent,
         Timer!UpPlace, Events!UpPlace, Timer!DownPlace, Events!DownPlace,
         Timer!LE, Events!LE, Timer!LT, Events!LT, Timer!SinceMin, Events!SinceMin

LEMMA SameSteps ==
    /\ \A t, time : Timer!Enqueue(t, time) => Events!Enqueue(t, time)
    /\ \A t : Timer!Dequeue(t) => Events!Dequeue(t)
    /\ Timer!SignalTime => Events!SignalTime
    /\ Timer!CallbackReturns => Events!CallbackReturns
    /\ Timer!Init => Events!Init
<1>1. ASSUME NEW t, NEW time, Timer!Enqueue(t, time)
      PROVE  Events!Enqueue(t, time)
  BY <1>1, SameTimes, SameRegistered, SameHeaps
     DEF Timer!Enqueue, Events!Enqueue, Timer!clockVars, Events!clockVars, Timer!Asked,
         Events!Asked, Timer!InHeap, Events!InHeap
<1>2. ASSUME NEW t, Timer!Dequeue(t)
      PROVE  Events!Dequeue(t)
  BY <1>2, SameRegistered, SameHeaps
     DEF Timer!Dequeue, Events!Dequeue, Timer!clockVars, Events!clockVars, Timer!Asked,
         Events!Asked, Timer!InHeap, Events!InHeap
<1>3. ASSUME NEW now, Timer!Turn(now)
      PROVE  Events!Turn(now)
  BY <1>3, SameHeaps DEF Timer!Turn, Events!Turn, Timer!heapVars, Events!heapVars
<1>4. ASSUME Timer!SignalTime
      PROVE  Events!SignalTime
  BY <1>3, <1>4 DEF Timer!SignalTime, Events!SignalTime, Timer!Advance, Events!Advance,
         Timer!Plus, Events!Plus, Timer!Asked, Events!Asked, Timer!InHeap, Events!InHeap
<1>5. ASSUME Timer!CallbackReturns
      PROVE  Events!CallbackReturns
  BY <1>3, <1>5 DEF Timer!CallbackReturns, Events!CallbackReturns, Timer!Asked, Events!Asked,
         Timer!InHeap, Events!InHeap
<1>6. Timer!Init => Events!Init
  BY DEF Timer!Init, Events!Init, Timer!HeapInit, Events!HeapInit
<1> QED
  BY <1>1, <1>2, <1>4, <1>5, <1>6

LEMMA SameProperties ==
    /\ Events!TimeConsistent => Timer!TimeConsistent
    /\ Events!NeverLate => Timer!NeverLate
    /\ Events!CalledInTime => Timer!CalledInTime
<1>1. Events!TimeConsistent => Timer!TimeConsistent
  BY SameTimes DEF Timer!TimeConsistent, Events!TimeConsistent, Timer!TypeOK, Events!TypeOK,
         Timer!HeapConsistent, Events!HeapConsistent, Timer!Parent, Events!Parent
<1>2. Events!NeverLate => Timer!NeverLate
  BY SameRegistered DEF Timer!NeverLate, Events!NeverLate, Timer!Waited, Events!Waited
<1>3. Events!CalledInTime => Timer!CalledInTime
  BY DEF Timer!CalledInTime, Events!CalledInTime
<1> QED
  BY <1>1, <1>2, <1>3


-----------------------------------------------------------------------------
\* The invariant

\* A task that waits with a time-out, and only such a task, has its event in the
\* heap; the task whose callback runs has not.
Agree == Timed = tmevt /\ cback \notin Timed

\* signal_time is in a callback while a handler at its level, or one above, runs.
NestInv ==
    /\ sigNest \in 0 .. MaxNest
    /\ sigNest > 0 <=> cback # NoTask
    /\ sigNest <= nest

EventInv == Events!TimeInv /\ Events!TimingInv

TimerInv == IInv /\ EventInv /\ Agree /\ NestInv

-----------------------------------------------------------------------------
\* The steps of the scheduler

\* Calls but exits from handlers leave excpt_nest_count as it is, unless they switch
\* tasks.
LEMMA RescheduleNest ==
    ASSUME NEW r, NEW req, Reschedule(r, req)
    PROVE  nest # 0 => nest' = nest
  BY DEF Reschedule

LEMMA TaskServiceNest ==
    ASSUME NEW t \in TASK, TaskService(t)
    PROVE  nest # 0 => nest' = nest
<1>1. SUFFICES ASSUME nest # 0
               PROVE  nest' = nest
  OBVIOUS
<1>2. \A r, req : Reschedule(r, req) => nest' = nest
  BY <1>1, RescheduleNest
<1>3. BecomeReady(t) => nest' = nest
  BY <1>2 DEF BecomeReady
<1>4. BecomeNonReady(t) => nest' = nest
  BY <1>2 DEF BecomeNonReady
<1>5. MakeNonWait(t) => nest' = nest
  BY <1>3 DEF MakeNonWait, cpuVars
<1>6. CASE ActTsk(t) \/ IactTsk(t)
  BY <1>3, <1>6 DEF ActTsk, IactTsk, Activate, cpuVars
<1>7. CASE CanAct(t) \/ DelTsk(t) \/ CanWup(t) \/ SetWaifbd(t)
  BY <1>7 DEF CanAct, DelTsk, CanWup, SetWaifbd, cpuVars
<1>8. CASE TerTsk(t)
  BY <1>1, <1>8 DEF TerTsk, TskCtxUnl
<1>9. CASE \E p \in PRI : ChgPri(t, p) \/ AcreTsk(t, p)
  BY <1>1, <1>9 DEF ChgPri, AcreTsk, CreateTask, TskCtxUnl
<1>10. CASE WupTsk(t) \/ IwupTsk(t)
  BY <1>5, <1>10 DEF WupTsk, IwupTsk, WakeUp, cpuVars
<1>11. CASE RelWai(t) \/ IrelWai(t) \/ WaitTmout(t)
  BY <1>5, <1>11 DEF RelWai, IrelWai, ReleaseWait, WaitTmout
<1>12. CASE SusTsk(t) \/ RsmTsk(t)
  BY <1>1, <1>12 DEF SusTsk, RsmTsk, TskCtxUnl
<1> QED
  BY <1>6, <1>7, <1>8, <1>9, <1>10, <1>11, <1>12 DEF TaskService

\* What ends a wait takes its task out of tmevt.
LEMMA EndsWait ==
    ASSUME NEW t \in TASK
    PROVE  /\ WakeUp(t) => tmevt' = IF Sleeping(t) THEN tmevt \ {t} ELSE tmevt
           /\ ReleaseWait(t) => tmevt' = tmevt \ {t}
           /\ WaitTmout(t) => t \in tmevt /\ tmevt' = tmevt \ {t}
           /\ TerTsk(t) => tmevt' = tmevt \ {t}
  BY DEF WakeUp, ReleaseWait, WaitTmout, TerTsk, MakeNonWait, MakeDormant

\* Only a task that waits is in tmevt.
LEMMA TimedWait ==
    ASSUME IInv, NEW t \in TASK
    PROVE  t \in tmevt => Waiting(t)
  BY DEF IInv, TcbInv, TcbConsistent, TcbOk

\* A task runs only when signal_time has returned.
LEMMA TaskRuns ==
    ASSUME IInv, NestInv, nest = 0
    PROVE  sigNest = 0 /\ cback = NoTask /\ runtsk \in TASK
  BY TaskContext DEF NestInv, RunnableTasks

\* The scheduler's part of a step, and the room for signal_time that it leaves
LEMMA SchedPart ==
    ASSUME IInv, NestInv, Next, nest # 0 => nest' = nest
    PROVE  IInv' /\ (UNCHANGED <<cback, sigNest>> => NestInv')
<1>1. IInv'
  BY NextInv
<1>2. nest' \in 0 .. MaxNest /\ nest \in 0 .. MaxNest
  BY <1>1 DEF IInv, CpuInv
<1>3. MaxNest \in Nat
  BY MaxNestAssumption
<1>4. ASSUME UNCHANGED <<cback, sigNest>>
      PROVE  NestInv'
  BY <1>2, <1>3, <1>4 DEF NestInv
<1> QED
  BY <1>1, <1>4


-----------------------------------------------------------------------------
\* The steps of the events, in terms of the tasks with an event in the heap

LEMMA EnqueueAgrees ==
    ASSUME Timer!TimeAssumption, EventInv, NEW t \in TASK, NEW time \in Timer!RELTIM,
           Timer!Enqueue(t, time)
    PROVE  EventInv' /\ Timed' = Timed \cup {t} /\ cback' = cback
<1>1. Events!TimeAssumption /\ time \in Events!RELTIM /\ Events!Enqueue(t, time)
  BY SameTimes, SameSteps
<1>2. Events!Next
  BY <1>1 DEF Events!Next
<1>3. EventInv'
  BY <1>1, <1>2, Events!EventStep DEF EventInv
<1>4. cback' = cback /\ \A x \in TASK : Events!Registered(x)' <=> Events!Registered(x) \/ x = t
  BY <1>1, Events!EnqueueRegisters DEF EventInv
<1> QED
  BY <1>3, <1>4, SameRegistered DEF Timed

LEMMA DequeueAgrees ==
    ASSUME Timer!TimeAssumption, EventInv, NEW t \in TASK, Timer!Dequeue(t)
    PROVE  EventInv' /\ Timed' = Timed \ {t} /\ cback' = cback
<1>1. Events!TimeAssumption /\ Events!Dequeue(t)
  BY SameTimes, SameSteps
<1>2. Events!Next
  BY <1>1 DEF Events!Next
<1>3. EventInv'
  BY <1>1, <1>2, Events!EventStep DEF EventInv
<1>4. cback' = cback /\ \A x \in TASK : Events!Registered(x)' <=> Events!Registered(x) /\ x # t
  BY <1>1, Events!DequeueUnregisters DEF EventInv
<1> QED
  BY <1>3, <1>4, SameRegistered DEF Timed

LEMMA TurnAgrees ==
    ASSUME Timer!TimeAssumption, EventInv, Timer!SignalTime \/ Timer!CallbackReturns
    PROVE  /\ EventInv' /\ Timer!CalledInTime /\ Timed' = Timed \ {cback'}
           /\ cback' # NoTask => cback' \in Timed
<1>1. Events!TimeAssumption /\ (Events!SignalTime \/ Events!CallbackReturns)
  BY SameTimes, SameSteps
<1>2. Events!Next
  BY <1>1 DEF Events!Next
<1>3. EventInv' /\ Timer!CalledInTime
  BY <1>1, <1>2, Events!EventStep, SameProperties DEF EventInv
<1>4. /\ cback' # NoTask => cback' \in TASK /\ Events!Registered(cback')
      /\ \A x \in TASK : Events!Registered(x)' <=> Events!Registered(x) /\ x # cback'
  BY <1>1, Events!TurnUnregisters DEF EventInv
<1> QED
  BY <1>3, <1>4, SameRegistered DEF Timed

LEMMA NoEventAgrees ==
    ASSUME EventInv, UNCHANGED eventVars
    PROVE  EventInv' /\ Timed' = Timed /\ cback' = cback
<1>1. UNCHANGED Events!vars
  BY DEF eventVars, Events!vars, Events!heapVars, Events!clockVars, Events!askVars
<1>2. EventInv'
  BY <1>1, Events!EventStutter DEF EventInv
<1> QED
  BY <1>2 DEF eventVars, Timed, Timer!Registered, Timer!InHeap

\* The end of a wait takes the event out if there is one.
LEMMA WaitDequeueAgrees ==
    ASSUME Timer!TimeAssumption, EventInv, Agree, NEW t \in TASK, WaitDequeueTmevtb(t)
    PROVE  EventInv' /\ Timed' = Timed \ {t} /\ UNCHANGED <<cback, sigNest>>
<1>1. sigNest' = sigNest
  BY DEF WaitDequeueTmevtb
<1>2. CASE t \in tmevt
  BY <1>1, <1>2, DequeueAgrees DEF WaitDequeueTmevtb
<1>3. CASE t \notin tmevt
  <2>1. EventInv' /\ Timed' = Timed /\ cback' = cback
    BY <1>3, NoEventAgrees DEF WaitDequeueTmevtb
  <2> QED
    BY <1>1, <1>3, <2>1 DEF Agree
<1> QED
  BY <1>2, <1>3


-----------------------------------------------------------------------------
\* Every step keeps the invariant

\* What the steps have to show besides
LEMMA TimerInvOfParts ==
    ASSUME TimerInv, Next, nest # 0 => nest' = nest, EventInv', Agree', UNCHANGED <<cback, sigNest>>
    PROVE  TimerInv'
  BY SchedPart DEF TimerInv

\* slp_tsk, tslp_tsk and dly_tsk: the time-out starts with the wait.
LEMMA WaitStarts ==
    ASSUME Timer!TimeAssumption, TimerInv,
           \/ Delays
           \/ \E timed \in BOOLEAN : StartsWait(timed)
    PROVE  TimerInv'
<1>1. IInv /\ EventInv /\ Agree /\ NestInv
  BY DEF TimerInv
<1>2. nest = 0
  BY DEF Delays, StartsWait, DlyTsk, SlpTsk, DispatchState, TskCtxUnl
<1>3. sigNest = 0 /\ cback = NoTask /\ runtsk \in TASK
  BY <1>1, <1>2, TaskRuns
<1>4. Next /\ sigNest' = sigNest
  BY DEF Delays, StartsWait, Next
<1>5. ASSUME NEW time \in Timer!RELTIM, Timer!Enqueue(runtsk, time), tmevt' = tmevt \cup {runtsk}
      PROVE  EventInv' /\ Agree' /\ cback' = cback
  <2>1. EventInv' /\ Timed' = Timed \cup {runtsk} /\ cback' = cback
    BY <1>1, <1>3, <1>5, EnqueueAgrees
  <2>2. cback' \notin Timed'
    BY <1>1, <1>3, <2>1, NoTaskAssumption DEF Agree
  <2> QED
    BY <1>1, <1>5, <2>1, <2>2 DEF Agree
<1>6. ASSUME UNCHANGED eventVars, tmevt' = tmevt
      PROVE  EventInv' /\ Agree' /\ cback' = cback
  BY <1>1, <1>6, NoEventAgrees DEF Agree
<1>7. EventInv' /\ Agree' /\ cback' = cback
  <2>1. CASE Delays
    BY <1>5, <2>1 DEF Delays, DlyTsk, MakeWait
  <2>2. ASSUME NEW timed \in BOOLEAN, StartsWait(timed)
        PROVE  EventInv' /\ Agree' /\ cback' = cback
    <3>1. CASE timed /\ ~ wupque[runtsk]
      BY <1>5, <2>2, <3>1 DEF StartsWait, SlpTsk, MakeWait
    <3>2. CASE ~ (timed /\ ~ wupque[runtsk])
      BY <1>6, <2>2, <3>2 DEF StartsWait, SlpTsk, MakeWait
    <3> QED
      BY <3>1, <3>2
  <2> QED
    BY <2>1, <2>2
<1> QED
  BY <1>2, <1>4, <1>7, TimerInvOfParts

\* wup_tsk, rel_wai, ter_tsk and their i-forms: the time-out ends with the wait.
LEMMA WaitEnds ==
    ASSUME Timer!TimeAssumption, TimerInv, NEW t \in TASK, Wakes(t) \/ Releases(t) \/ Terminates(t)
    PROVE  TimerInv'
<1>1. IInv /\ EventInv /\ Agree /\ NestInv
  BY DEF TimerInv
<1>2. TaskService(t)
  BY DEF Wakes, Releases, Terminates, TaskService
<1>3. Next /\ (nest # 0 => nest' = nest)
  BY <1>2, TaskServiceNest DEF Next
<1>4. ASSUME WaitDequeueTmevtb(t), tmevt' = tmevt \ {t}
      PROVE  EventInv' /\ Agree' /\ UNCHANGED <<cback, sigNest>>
  BY <1>1, <1>4, WaitDequeueAgrees DEF Agree
<1>5. ASSUME UNCHANGED timerVars, tmevt' = tmevt
      PROVE  EventInv' /\ Agree' /\ UNCHANGED <<cback, sigNest>>
  BY <1>1, <1>5, NoEventAgrees DEF Agree, timerVars
<1>6. EventInv' /\ Agree' /\ UNCHANGED <<cback, sigNest>>
  <2>1. CASE Wakes(t)
    <3>1. WakeUp(t)
      BY <2>1 DEF Wakes, WupTsk, IwupTsk
    <3> QED
      BY <1>4, <1>5, <2>1, <3>1, EndsWait DEF Wakes
  <2>2. CASE Releases(t)
    <3>1. ReleaseWait(t)
      BY <2>2 DEF Releases, RelWai, IrelWai
    <3> QED
      BY <1>4, <2>2, <3>1, EndsWait DEF Releases
  <2>3. CASE Terminates(t)
    <3>1. tmevt' = tmevt \ {t}
      BY <2>3, EndsWait DEF Terminates
    <3>2. ~ Waiting(t) => tmevt' = tmevt
      BY <1>1, <3>1, TimedWait
    <3> QED
      BY <1>4, <1>5, <2>3, <3>1, <3>2 DEF Terminates
  <2> QED
    BY <2>1, <2>2, <2>3
<1> QED
  BY <1>3, <1>6, TimerInvOfParts

\* The other calls, which no event is a matter of
LEMMA OthersKeep ==
    ASSUME TimerInv, HasCpu, Elsewhere
    PROVE  TimerInv'
<1>1. IInv /\ EventInv /\ Agree /\ NestInv
  BY DEF TimerInv
<1>2. UNCHANGED <<eventVars, sigNest>>
  BY DEF Elsewhere, timerVars
<1>3. EventInv' /\ Timed' = Timed /\ UNCHANGED <<cback, sigNest>>
  BY <1>1, <1>2, NoEventAgrees
<1>4. ASSUME tmevt' = tmevt, Next, nest # 0 => nest' = nest
      PROVE  TimerInv'
  <2>1. Agree'
    BY <1>1, <1>3, <1>4 DEF Agree
  <2> QED
    BY <1>3, <1>4, <2>1, TimerInvOfParts
<1>5. ASSUME tmevt' = tmevt, Next, sigNest <= nest'
      PROVE  TimerInv'
  <2>1. Agree'
    BY <1>1, <1>3, <1>5 DEF Agree
  <2>2. IInv'
    BY <1>1, <1>5, NextInv
  <2>3. NestInv'
    BY <1>1, <1>3, <1>5 DEF NestInv
  <2> QED
    BY <1>3, <2>1, <2>2, <2>3 DEF TimerInv
<1>6. ASSUME NEW t \in TASK, ActTsk(t) \/ IactTsk(t) \/ SusTsk(t) \/ RsmTsk(t) \/ SetWaifbd(t)
      PROVE  TimerInv'
  <2>1. TaskService(t)
    BY <1>6 DEF TaskService
  <2>2. Next /\ (nest # 0 => nest' = nest)
    BY <2>1, TaskServiceNest DEF Next
  <2>3. tmevt' = tmevt
    BY <1>6 DEF ActTsk, IactTsk, Activate, SusTsk, RsmTsk, SetWaifbd
  <2> QED
    BY <1>4, <2>2, <2>3
<1>7. ASSUME NEW t \in TASK, NEW p \in PRI, ChgPri(t, p)
      PROVE  TimerInv'
  <2>1. TaskService(t)
    BY <1>7 DEF TaskService
  <2>2. Next /\ (nest # 0 => nest' = nest)
    BY <2>1, TaskServiceNest DEF Next
  <2>3. tmevt' = tmevt
    BY <1>7 DEF ChgPri
  <2> QED
    BY <1>4, <2>2, <2>3
<1>8. CASE ExtTsk
  <2>1. nest = 0 /\ tmevt' = tmevt \ {runtsk}
    BY <1>8 DEF ExtTsk, MakeDormant
  <2>2. runtsk \notin tmevt
    <3>1. runtsk \in TASK /\ Runnable(runtsk)
      BY <1>1, <2>1, TaskContext DEF RunnableTasks
    <3>2. ~ Waiting(runtsk)
      <4>1. tstat[runtsk] \in TSTAT
        BY <1>1, <3>1 DEF IInv, TcbInv
      <4> QED
        BY <3>1, <4>1, TstatFacts DEF Waiting, Runnable
    <3> QED
      BY <1>1, <3>1, <3>2, TimedWait
  <2>3. tmevt' = tmevt
    BY <2>1, <2>2
  <2>4. Next
    BY <1>8 DEF Next
  <2> QED
    BY <1>4, <2>1, <2>3, <2>4
<1>9. CASE DisDsp \/ EnaDsp \/ LocCpu \/ UnlCpu
  <2>1. Next
    BY <1>9 DEF Next
  <2>2. tmevt' = tmevt
    BY <1>9 DEF DisDsp, EnaDsp, LocCpu, UnlCpu, tcbVars
  <2>3. nest # 0 => nest' = nest
    BY <1>9 DEF DisDsp, EnaDsp, LocCpu, UnlCpu, TskCtxUnl, cpuVars
  <2> QED
    BY <1>4, <2>1, <2>2, <2>3
<1>10. ASSUME NEW p \in PRI, RotRdq(p)
       PROVE  TimerInv'
  <2>1. Next
    BY <1>10 DEF Next
  <2>2. tmevt' = tmevt
    BY <1>10 DEF RotRdq, tcbVars
  <2>3. nest # 0 => nest' = nest
    BY <1>10, RescheduleNest DEF RotRdq
  <2> QED
    BY <1>4, <2>1, <2>2, <2>3
<1>11. CASE IntExitNested \/ IntExit \/ IdleExit
  <2>1. Next
    BY <1>11 DEF Next
  <2>2. tmevt' = tmevt
    BY <1>11 DEF IntExitNested, IntExit, IdleExit, tcbVars
  <2>3. nest' \in Nat
    <3>1. IInv' /\ MaxNest \in Nat
      BY <1>1, <2>1, NextInv, MaxNestAssumption
    <3> QED
      BY <3>1 DEF IInv, CpuInv
  <2>4. nest \in Nat /\ sigNest \in Nat
    BY <1>1, MaxNestAssumption DEF IInv, CpuInv, NestInv
  <2>5. sigNest <= nest'
    BY <1>11, <2>3, <2>4 DEF HasCpu, IntExitNested, IntExit, IdleExit
  <2> QED
    BY <1>5, <2>1, <2>2, <2>5
<1> QED
  BY <1>6, <1>7, <1>8, <1>9, <1>10, <1>11 DEF Elsewhere

\* A handler begins.
LEMMA IntEnterKeeps ==
    ASSUME TimerInv, IntEnter, UNCHANGED timerVars
    PROVE  TimerInv'
<1>1. IInv /\ EventInv /\ Agree /\ NestInv
  BY DEF TimerInv
<1>2. EventInv' /\ Timed' = Timed /\ UNCHANGED <<cback, sigNest>>
  BY <1>1, NoEventAgrees DEF timerVars
<1>3. IInv'
  BY <1>1, NextInv DEF Next
<1>4. tmevt' = tmevt /\ nest' = nest + 1
  BY DEF IntEnter, tcbVars
<1>5. nest \in Nat /\ sigNest \in Nat
  BY <1>1, MaxNestAssumption DEF IInv, CpuInv, NestInv
<1>6. NestInv'
  BY <1>1, <1>2, <1>4, <1>5 DEF NestInv
<1> QED
  BY <1>1, <1>2, <1>3, <1>4, <1>6 DEF TimerInv, Agree


\* signal_time and the return of a callback to it: the task whose time-out comes is
\* one that waits, and its wait ends.
LEMMA TurnKeeps ==
    ASSUME Timer!TimeAssumption, TimerInv, SignalTime \/ CallbackReturns
    PROVE  TimerInv' /\ Timer!CalledInTime /\ (cback' # NoTask => cback' \in tmevt)
<1>1. IInv /\ EventInv /\ Agree /\ NestInv
  BY DEF TimerInv
<1>2. /\ Timer!SignalTime \/ Timer!CallbackReturns
      /\ cback' = NoTask => sigNest' = 0 /\ UNCHANGED schedVars
      /\ cback' # NoTask => sigNest' = nest /\ WaitTmout(cback')
  BY DEF SignalTime, CallbackReturns, Turn, TimesOut
<1>3. /\ EventInv' /\ Timer!CalledInTime /\ Timed' = Timed \ {cback'}
      /\ cback' # NoTask => cback' \in Timed
  BY <1>1, <1>2, TurnAgrees
<1>4. nest \in 0 .. MaxNest /\ MaxNest \in Nat /\ NoTask \notin TASK
  BY <1>1, MaxNestAssumption, NoTaskAssumption DEF IInv, CpuInv
<1>5. CASE cback' = NoTask
  <2>1. UNCHANGED vars /\ UNCHANGED <<tmevt, nest>>
    BY <1>2, <1>5 DEF schedVars, vars, tcbVars, cpuVars
  <2>2. IInv'
    BY <1>1, <2>1, StutterInv
  <2>3. Timed' = tmevt' /\ cback' \notin Timed'
    BY <1>1, <1>3, <1>4, <1>5, <2>1 DEF Agree, Timed
  <2>4. NestInv'
    BY <1>2, <1>4, <1>5, <2>1 DEF NestInv
  <2> QED
    BY <1>3, <1>5, <2>2, <2>3, <2>4 DEF TimerInv, Agree
<1>6. CASE cback' # NoTask
  <2>1. cback' \in TASK /\ cback' \in tmevt
    BY <1>1, <1>3, <1>6 DEF Agree, Timed
  <2> DEFINE t == cback'
  <2>2. t \in TASK /\ WaitTmout(t) /\ sigNest' = nest
    BY <1>2, <1>6, <2>1
  <2> HIDE DEF t
  <2>3. TaskService(t)
    BY <2>2 DEF TaskService
  <2>4. IInv'
    BY <1>1, <2>2, <2>3, TaskServiceInv
  <2>5. nest # 0 /\ nest' = nest
    <3>1. nest # 0
      BY <1>4, <2>2 DEF WaitTmout, IntCtxUnl, IdleNest
    <3> QED
      BY <2>2, <2>3, <3>1, TaskServiceNest
  <2>6. tmevt' = tmevt \ {t}
    BY <2>2, EndsWait
  <2>7. Timed' = tmevt' /\ cback' \notin Timed'
    BY <1>1, <1>3, <2>6 DEF Agree, t
  <2>8. NestInv'
    BY <1>4, <1>6, <2>2, <2>5 DEF NestInv
  <2> QED
    BY <1>3, <2>1, <2>4, <2>7, <2>8 DEF TimerInv, Agree
<1> QED
  BY <1>5, <1>6

\* At first nothing is registered.
LEMMA TimerInitInv ==
    ASSUME Timer!TimeAssumption, TimerInit
    PROVE  TimerInv
<1>1. Init /\ Timer!Init /\ sigNest = 0
  BY DEF TimerInit
<1>2. IInv
  BY <1>1, InitInv
<1>3. Events!TimeAssumption /\ Events!Init
  BY <1>1, SameTimes, SameSteps
<1>4. EventInv
  BY <1>3, Events!TimeInitInv, Events!TimingInit DEF EventInv
<1>5. Timer!HeapInit
  BY <1>1 DEF Timer!Init
<1>6. tmevt_heap = <<>> /\ cback = NoTask
  BY <1>5 DEF Timer!HeapInit
<1>7. Timed = {}
  BY <1>6 DEF Timed, Timer!Registered, Timer!InHeap
<1>8. tmevt = {}
  BY <1>1 DEF Init
<1>9. nest \in 0 .. MaxNest /\ MaxNest \in Nat
  BY <1>2, MaxNestAssumption DEF IInv, CpuInv
<1>10. NestInv
  BY <1>1, <1>6, <1>9 DEF NestInv
<1> QED
  BY <1>2, <1>4, <1>7, <1>8, <1>10 DEF TimerInv, Agree

LEMMA TimerNextInv ==
    ASSUME Timer!TimeAssumption, TimerInv, [TimerNext]_allVars
    PROVE  TimerInv'
<1>1. CASE UNCHANGED allVars
  <2>1. UNCHANGED schedVars /\ UNCHANGED timerVars
    BY <1>1 DEF allVars
  <2>2. IInv'
    BY <2>1, StutterInv DEF schedVars, TimerInv
  <2>3. EventInv' /\ Timed' = Timed /\ UNCHANGED <<cback, sigNest>>
    BY <2>1, NoEventAgrees DEF timerVars, TimerInv
  <2>4. UNCHANGED <<tmevt, nest>>
    BY <2>1 DEF schedVars, vars, tcbVars, cpuVars
  <2> QED
    BY <2>2, <2>3, <2>4 DEF TimerInv, Agree, NestInv
<1>2. ASSUME NEW t \in TASK, Wakes(t) \/ Releases(t) \/ Terminates(t)
      PROVE  TimerInv'
  BY <1>2, WaitEnds
<1>3. CASE Delays \/ \E timed \in BOOLEAN : StartsWait(timed)
  BY <1>3, WaitStarts
<1>4. CASE HasCpu /\ Elsewhere
  BY <1>4, OthersKeep
<1>5. CASE IntEnter /\ UNCHANGED timerVars
  BY <1>5, IntEnterKeeps
<1>6. CASE SignalTime \/ CallbackReturns
  BY <1>6, TurnKeeps
<1> QED
  BY <1>1, <1>2, <1>3, <1>4, <1>5, <1>6 DEF TimerNext

\* The scheduler and the events agree in every state.
THEOREM TimerInvariance ==
    ASSUME Timer!TimeAssumption
    PROVE  TimerSpec => []TimerInv
<1>1. TimerInit => TimerInv
  BY TimerInitInv
<1>2. TimerInv /\ [TimerNext]_allVars => TimerInv'
  BY TimerNextInv
<1> QED
  BY <1>1, <1>2, PTL DEF TimerSpec

\* The invariant shows the properties.
LEMMA TimerInvShows ==
    ASSUME Timer!TimeAssumption, TimerInv
    PROVE  /\ TimerTypeOK /\ DispatchIsPrompt /\ Timer!HeapConsistent
           /\ TimersAreForWaits /\ NobodyOversleeps
<1>1. TimerTypeOK /\ DispatchIsPrompt /\ Timer!HeapConsistent
  <2>1. Timer!TypeOK /\ Timer!HeapConsistent
    BY Events!HeapPart, Events!HeapInvShows, SameProperties
       DEF TimerInv, EventInv, Events!TimeConsistent, Timer!TimeConsistent
  <2> QED
    BY <2>1 DEF TimerInv, NestInv, TimerTypeOK, IInv, CpuInv
<1>2. TimersAreForWaits
  <2>1. \A t \in tmevt : t \in TASK /\ Waiting(t)
    BY TimedWait DEF TimerInv, IInv, TcbInv
  <2> QED
    BY <2>1 DEF TimerInv, Agree, TimersAreForWaits
<1>3. NobodyOversleeps
  <2> SUFFICES ASSUME NEW t \in tmevt, sigNest = 0
               PROVE  (ticks[t] - 1) * TIC_NUME < (reltim[t] + 1) * TIC_DENO - 1
    BY DEF NobodyOversleeps
  <2>1. Timer!NeverLate
    BY Events!NobodyLate, SameTimes, SameProperties DEF TimerInv, EventInv
  <2>2. t \in TASK /\ Timer!Registered(t)
    BY DEF TimerInv, Agree, Timed
  <2>3. cback = NoTask
    BY DEF TimerInv, NestInv
  <2> QED
    BY <2>1, <2>2, <2>3 DEF Timer!NeverLate, Timer!Waited
<1> QED
  BY <1>1, <1>2, <1>3

\* No step releases a task before its time.
LEMMA NeverReleasedEarly ==
    ASSUME Timer!TimeAssumption, TimerInv, TimerNext
    PROVE  ReleasedInTime
<1>1. CASE SignalTime \/ CallbackReturns
  BY <1>1, TurnKeeps DEF ReleasedInTime, Timer!CalledInTime
<1>2. CASE ~ (SignalTime \/ CallbackReturns)
  <2>1. cback' = cback
    <3>1. CASE UNCHANGED timerVars
      BY <3>1 DEF timerVars, eventVars
    <3>2. ASSUME NEW t \in TASK, WaitDequeueTmevtb(t)
          PROVE  cback' = cback
      BY <3>2, WaitDequeueAgrees DEF TimerInv
    <3>3. CASE Delays \/ \E timed \in BOOLEAN : StartsWait(timed)
      BY <3>3 DEF Delays, StartsWait, Timer!Enqueue, eventVars
    <3> QED
      BY <1>2, <3>1, <3>2, <3>3
         DEF TimerNext, Wakes, Releases, Terminates, Elsewhere
  <2> QED
    BY <2>1 DEF ReleasedInTime
<1> QED
  BY <1>1, <1>2

\* Types, dispatching and heap are right, with time-outs that release tasks between
\* the calls of nested handlers.
THEOREM TimerAlwaysConsistent ==
    ASSUME Timer!TimeAssumption
    PROVE  TimerSpec => [](TimerTypeOK /\ DispatchIsPrompt /\ Timer!HeapConsistent)
<1>1. TimerInv => TimerTypeOK /\ DispatchIsPrompt /\ Timer!HeapConsistent
  BY TimerInvShows
<1> QED
  BY <1>1, TimerInvariance, PTL

\* The TMEVTB of a wait, a local variable of the call that waits, is in the heap if and
\* only if the task still waits with a time-out.
THEOREM TimersAlwaysForWaits ==
    ASSUME Timer!TimeAssumption
    PROVE  TimerSpec => []TimersAreForWaits
<1>1. TimerInv => TimersAreForWaits
  BY TimerInvShows
<1> QED
  BY <1>1, TimerInvariance, PTL

\* A time-out ends the wait it was started for, not before its time.
THEOREM AlwaysReleasedInTime ==
    ASSUME Timer!TimeAssumption
    PROVE  TimerSpec => TimedOutInTime
<1>1. TimerInv /\ [TimerNext]_allVars => [ReleasedInTime]_allVars
  BY NeverReleasedEarly
<1> QED
  BY <1>1, TimerInvariance, PTL DEF TimerSpec, TimedOutInTime

\* No task is left waiting when signal_time has returned after its time.
THEOREM NobodyEverOversleeps ==
    ASSUME Timer!TimeAssumption
    PROVE  TimerSpec => []NobodyOversleeps
<1>1. TimerInv => NobodyOversleeps
  BY TimerInvShows
<1> QED
  BY <1>1, TimerInvariance, PTL

\* The composition is a scheduler and a time event module: each sees only steps of
\* its own.
THEOREM TimersCompose ==
    ASSUME Timer!TimeAssumption
    PROVE  TimerSpec => /\ Init /\ [][Next]_schedVars
                        /\ Timer!Init /\ [][Timer!Next]_eventVars
<1>1. ASSUME TimerInv, TimerNext
      PROVE  (Next \/ UNCHANGED schedVars) /\ (Timer!Next \/ UNCHANGED eventVars)
  <2>1. IInv /\ NestInv
    BY <1>1 DEF TimerInv
  <2>2. CASE Delays \/ \E timed \in BOOLEAN : StartsWait(timed)
    <3>1. nest = 0
      BY <2>2 DEF Delays, StartsWait, DlyTsk, SlpTsk, DispatchState, TskCtxUnl
    <3>2. runtsk \in TASK
      BY <2>1, <3>1, TaskRuns
    <3>3. Next
      BY <2>2 DEF Delays, StartsWait, Next
    <3>4. UNCHANGED eventVars \/ \E time \in Timer!RELTIM : Timer!Enqueue(runtsk, time)
      BY <2>2 DEF Delays, StartsWait
    <3>5. Timer!Next \/ UNCHANGED eventVars
      BY <3>2, <3>4 DEF Timer!Next
    <3> QED
      BY <3>3, <3>5
  <2>3. ASSUME NEW t \in TASK, Wakes(t) \/ Releases(t) \/ Terminates(t)
        PROVE  (Next \/ UNCHANGED schedVars) /\ (Timer!Next \/ UNCHANGED eventVars)
    <3>1. Next
      BY <2>3 DEF Wakes, Releases, Terminates, TaskService, Next
    <3>2. Timer!Dequeue(t) \/ UNCHANGED eventVars
      BY <2>3 DEF Wakes, Releases, Terminates, WaitDequeueTmevtb, timerVars
    <3> QED
      BY <3>1, <3>2 DEF Timer!Next
  <2>4. CASE Elsewhere
    <3>1. Next
      BY <2>4 DEF Elsewhere, Next, TaskService
    <3> QED
      BY <2>4, <3>1 DEF Elsewhere, timerVars
  <2>5. CASE IntEnter /\ UNCHANGED timerVars
    BY <2>5 DEF Next, timerVars
  <2>6. CASE SignalTime \/ CallbackReturns
    <3>1. Timer!SignalTime \/ Timer!CallbackReturns
      BY <2>6 DEF SignalTime, CallbackReturns, Turn
    <3>2. cback' = NoTask => UNCHANGED schedVars
      BY <2>6 DEF SignalTime, CallbackReturns, Turn
    <3>3. cback' # NoTask => WaitTmout(cback') /\ cback' \in TASK
      <4>1. cback' # NoTask => cback' \in tmevt
        BY <1>1, <2>6, TurnKeeps
      <4>2. tmevt \in SUBSET TASK
        BY <2>1 DEF IInv, TcbInv
      <4> QED
        BY <2>6, <4>1, <4>2 DEF SignalTime, CallbackReturns, Turn, TimesOut
    <3>4. \A t \in TASK : WaitTmout(t) => Next
      BY DEF Next, TaskService
    <3> QED
      BY <3>1, <3>2, <3>3, <3>4 DEF Timer!Next
  <2> QED
    BY <1>1, <2>2, <2>3, <2>4, <2>5, <2>6 DEF TimerNext
<1>2. UNCHANGED allVars => UNCHANGED schedVars /\ UNCHANGED eventVars
  BY DEF allVars, timerVars
<1>3. TimerInv /\ [TimerNext]_allVars => [Next]_schedVars /\ [Timer!Next]_eventVars
  BY <1>1, <1>2
<1>4. TimerInit => Init /\ Timer!Init
  BY DEF TimerInit
<1> QED
  BY <1>3, <1>4, TimerInvariance, PTL DEF TimerSpec

-----------------------------------------------------------------------------
\* The run: any events, the handlers and the tasks, each with its own constants.  What
\* TimeProofs proves of all constants is used of those of each part.

EventProofs == INSTANCE TimeProofs WITH
    MODULUS <- EvtModulus, TMAX_RELTIM <- EvtMaxReltim,
    TIC_NUME <- EvtTicNume, TIC_DENO <- EvtTicDeno

HdrProofs == INSTANCE TimeProofs WITH
    EVT <- CYC \cup ALM, MODULUS <- HdrModulus, TMAX_RELTIM <- HdrMaxReltim,
    TIC_NUME <- HdrTicNume, TIC_DENO <- HdrTicDeno

\* The definitions of TimeEvent with the constants of MCTime, and those that TimeProofs
\* speaks of
LEMMA SameEvents ==
    /\ AnyEvents!TimeAssumption <=> EventProofs!TimeAssumption
    /\ AnyEvents!Init <=> EventProofs!Init
    /\ AnyEvents!Next <=> EventProofs!Next
    /\ AnyEvents!TimeConsistent <=> EventProofs!TimeConsistent
    /\ AnyEvents!NobodyIsLate <=> EventProofs!NobodyIsLate
    /\ AnyEvents!CalledInTime <=> EventProofs!CalledInTime
<1>1. AnyEvents!TimeAssumption <=> EventProofs!TimeAssumption
  BY DEF AnyEvents!TimeAssumption, EventProofs!TimeAssumption, AnyEvents!RangeAssumption,
     EventProofs!RangeAssumption, AnyEvents!TicAssumption, EventProofs!TicAssumption,
     AnyEvents!NoEvtAssumption, EventProofs!NoEvtAssumption
<1>2. AnyEvents!Init <=> EventProofs!Init
  BY DEF AnyEvents!Init, EventProofs!Init, AnyEvents!HeapInit, EventProofs!HeapInit
<1>3. AnyEvents!Next <=> EventProofs!Next
  BY DEF AnyEvents!Next, EventProofs!Next, AnyEvents!CallbackReturns,
     EventProofs!CallbackReturns, AnyEvents!Asked, EventProofs!Asked, AnyEvents!InHeap,
     EventProofs!InHeap, AnyEvents!Turn, EventProofs!Turn, AnyEvents!heapVars,
     EventProofs!heapVars, AnyEvents!Without, EventProofs!Without, AnyEvents!Path,
     EventProofs!Path, AnyEvents!Ancestors, EventProofs!Ancestors, AnyEvents!Parent,
     EventProofs!Parent, AnyEvents!DownPlace, EventProofs!DownPlace, AnyEvents!LE,
     EventProofs!LE, AnyEvents!SinceMin, EventProofs!SinceMin, AnyEvents!LT, EventProofs!LT,
     AnyEvents!UpPlace, EventProofs!UpPlace, AnyEvents!SetNodes, EventProofs!SetNodes,
     AnyEvents!NodeOf, EventProofs!NodeOf, AnyEvents!Due, EventProofs!Due,
     AnyEvents!SignalTime, EventProofs!SignalTime, AnyEvents!Advance, EventProofs!Advance,
     AnyEvents!Plus, EventProofs!Plus, AnyEvents!Enqueue, EventProofs!Enqueue,
     AnyEvents!clockVars, EventProofs!clockVars, AnyEvents!base_time, EventProofs!base_time,
     AnyEvents!With, EventProofs!With, AnyEvents!Registered, EventProofs!Registered,
     AnyEvents!RELTIM, EventProofs!RELTIM, AnyEvents!Dequeue, EventProofs!Dequeue
<1>4. AnyEvents!TimeConsistent <=> EventProofs!TimeConsistent
  BY DEF AnyEvents!TimeConsistent, EventProofs!TimeConsistent, AnyEvents!HeapConsistent,
     EventProofs!HeapConsistent, AnyEvents!Parent, EventProofs!Parent, AnyEvents!LE,
     EventProofs!LE, AnyEvents!SinceMin, EventProofs!SinceMin, AnyEvents!TypeOK,
     EventProofs!TypeOK, AnyEvents!RELTIM, EventProofs!RELTIM, AnyEvents!EVTTIM,
     EventProofs!EVTTIM
<1>5. AnyEvents!NobodyIsLate <=> EventProofs!NobodyIsLate
  BY DEF AnyEvents!NobodyIsLate, EventProofs!NobodyIsLate, AnyEvents!LeftIsMissing,
     EventProofs!LeftIsMissing, AnyEvents!Lefttim, EventProofs!Lefttim, AnyEvents!base_time,
     EventProofs!base_time, AnyEvents!Plus, EventProofs!Plus, AnyEvents!LE, EventProofs!LE,
     AnyEvents!SinceMin, EventProofs!SinceMin, AnyEvents!Registered, EventProofs!Registered,
     AnyEvents!InHeap, EventProofs!InHeap, AnyEvents!NeverLate, EventProofs!NeverLate,
     AnyEvents!Waited, EventProofs!Waited
<1>6. AnyEvents!CalledInTime <=> EventProofs!CalledInTime
  BY DEF AnyEvents!CalledInTime, EventProofs!CalledInTime
<1> QED
  BY <1>1, <1>2, <1>3, <1>4, <1>5, <1>6

\* The definitions of CyclicAlarm with the constants of MCTime, and those that TimeProofs
\* speaks of: the operators on the heap,
LEMMA SameHdrHeap ==
    /\ Handlers!RELTIM = HdrProofs!RELTIM
    /\ \A h, e : Handlers!InHeap(h, e) <=> HdrProofs!InHeap(h, e)
    /\ \A e : Handlers!Registered(e) <=> HdrProofs!Registered(e)
    /\ \A h, now : Handlers!Due(h, now) <=> HdrProofs!Due(h, now)
    /\ \A time, d : Handlers!Plus(time, d) = HdrProofs!Plus(time, d)
    /\ Handlers!base_time = HdrProofs!base_time
    /\ \A h : Handlers!SetNodes(h) <=> HdrProofs!SetNodes(h)
    /\ \A h, e, time : Handlers!With(h, e, time) = HdrProofs!With(h, e, time)
    /\ \A h, i : Handlers!Without(h, i) = HdrProofs!Without(h, i)
    /\ Handlers!Advance <=> HdrProofs!Advance
    /\ \A a : Handlers!Ahead(a) <=> HdrProofs!Ahead(a)
    /\ \A h : Handlers!Apart(h) = HdrProofs!Apart(h)
<1>1. Handlers!RELTIM = HdrProofs!RELTIM
  BY DEF Handlers!RELTIM, HdrProofs!RELTIM
<1>2. \A h, e : Handlers!InHeap(h, e) <=> HdrProofs!InHeap(h, e)
  BY DEF Handlers!InHeap, HdrProofs!InHeap
<1>3. \A e : Handlers!Registered(e) <=> HdrProofs!Registered(e)
  BY DEF Handlers!Registered, HdrProofs!Registered, Handlers!InHeap, HdrProofs!InHeap
<1>4. \A h, now : Handlers!Due(h, now) <=> HdrProofs!Due(h, now)
  BY DEF Handlers!Due, HdrProofs!Due, Handlers!LE, HdrProofs!LE, Handlers!SinceMin,
     HdrProofs!SinceMin
<1>5. \A time, d : Handlers!Plus(time, d) = HdrProofs!Plus(time, d)
  BY DEF Handlers!Plus, HdrProofs!Plus
<1>6. Handlers!base_time = HdrProofs!base_time
  BY DEF Handlers!base_time, HdrProofs!base_time, Handlers!Plus, HdrProofs!Plus
<1>7. \A h : Handlers!SetNodes(h) <=> HdrProofs!SetNodes(h)
  BY DEF Handlers!SetNodes, HdrProofs!SetNodes, Handlers!NodeOf, HdrProofs!NodeOf,
     Handlers!InHeap, HdrProofs!InHeap
<1>8. \A h, e, time : Handlers!With(h, e, time) = HdrProofs!With(h, e, time)
  BY DEF Handlers!With, HdrProofs!With, Handlers!Parent, HdrProofs!Parent, Handlers!Path,
     HdrProofs!Path, Handlers!Ancestors, HdrProofs!Ancestors, Handlers!UpPlace,
     HdrProofs!UpPlace, Handlers!LE, HdrProofs!LE, Handlers!SinceMin, HdrProofs!SinceMin
<1>9. \A h, i : Handlers!Without(h, i) = HdrProofs!Without(h, i)
  BY DEF Handlers!Without, HdrProofs!Without, Handlers!Path, HdrProofs!Path,
     Handlers!Ancestors, HdrProofs!Ancestors, Handlers!Parent, HdrProofs!Parent,
     Handlers!DownPlace, HdrProofs!DownPlace, Handlers!LE, HdrProofs!LE, Handlers!SinceMin,
     HdrProofs!SinceMin, Handlers!LT, HdrProofs!LT, Handlers!UpPlace, HdrProofs!UpPlace
<1>10. Handlers!Advance <=> HdrProofs!Advance
  BY DEF Handlers!Advance, HdrProofs!Advance, Handlers!Plus, HdrProofs!Plus
<1>11. \A a : Handlers!Ahead(a) <=> HdrProofs!Ahead(a)
  BY DEF Handlers!Ahead, HdrProofs!Ahead, Handlers!InHeap, HdrProofs!InHeap
<1>12. \A h : Handlers!Apart(h) = HdrProofs!Apart(h)
  BY DEF Handlers!Apart, HdrProofs!Apart, Handlers!Without, HdrProofs!Without, Handlers!Path,
     HdrProofs!Path, Handlers!Ancestors, HdrProofs!Ancestors, Handlers!Parent,
     HdrProofs!Parent, Handlers!DownPlace, HdrProofs!DownPlace, Handlers!LE, HdrProofs!LE,
     Handlers!SinceMin, HdrProofs!SinceMin, Handlers!LT, HdrProofs!LT, Handlers!UpPlace,
     HdrProofs!UpPlace, Handlers!Registered, HdrProofs!Registered, Handlers!InHeap,
     HdrProofs!InHeap
<1> QED
  BY <1>1, <1>2, <1>3, <1>4, <1>5, <1>6, <1>7, <1>8, <1>9, <1>10, <1>11, <1>12

\* the parts of the steps,
LEMMA SameHdrParts ==
    /\ \A heap, c, d : Handlers!EnqueueCyc(heap, c, d) <=> HdrProofs!EnqueueCyc(heap, c, d)
    /\ \A c : Handlers!StopCyc(c) <=> HdrProofs!StopCyc(c)
    /\ \A a : Handlers!StopAlm(a) <=> HdrProofs!StopAlm(a)
    /\ \A now, since : Handlers!CallFirst(now, since) <=> HdrProofs!CallFirst(now, since)
    /\ \A now, since : Handlers!NoMore(now, since) <=> HdrProofs!NoMore(now, since)
<1>1. \A heap, c, d : Handlers!EnqueueCyc(heap, c, d) <=> HdrProofs!EnqueueCyc(heap, c, d)
  BY SameHdrHeap DEF Handlers!EnqueueCyc, HdrProofs!EnqueueCyc, Handlers!FromNextTick,
     HdrProofs!FromNextTick
<1>2. \A c : Handlers!StopCyc(c) <=> HdrProofs!StopCyc(c)
  BY SameHdrHeap DEF Handlers!StopCyc, HdrProofs!StopCyc, Handlers!heapVars,
     HdrProofs!heapVars, Handlers!clockVars, HdrProofs!clockVars
<1>3. \A a : Handlers!StopAlm(a) <=> HdrProofs!StopAlm(a)
  BY SameHdrHeap DEF Handlers!StopAlm, HdrProofs!StopAlm, Handlers!heapVars,
     HdrProofs!heapVars, Handlers!clockVars, HdrProofs!clockVars
<1>4. \A now, since : Handlers!CallFirst(now, since) <=> HdrProofs!CallFirst(now, since)
  BY SameHdrHeap DEF Handlers!CallFirst, HdrProofs!CallFirst, Handlers!CallAlmhdr,
     HdrProofs!CallAlmhdr, Handlers!CallCychdr, HdrProofs!CallCychdr
<1>5. \A now, since : Handlers!NoMore(now, since) <=> HdrProofs!NoMore(now, since)
  BY SameHdrHeap DEF Handlers!NoMore, HdrProofs!NoMore, Handlers!staVars, HdrProofs!staVars,
     Handlers!heapVars, HdrProofs!heapVars
<1> QED
  BY <1>1, <1>2, <1>3, <1>4, <1>5

\* and the steps.
LEMMA SameHdrSteps ==
    /\ \A c, tim, phs, sta : Handlers!AcreCyc(c, tim, phs, sta) <=> HdrProofs!AcreCyc(c, tim, phs, sta)
    /\ \A c : Handlers!StaCyc(c) <=> HdrProofs!StaCyc(c)
    /\ \A c : Handlers!StpCyc(c) <=> HdrProofs!StpCyc(c)
    /\ \A c : Handlers!DelCyc(c) <=> HdrProofs!DelCyc(c)
    /\ \A a : Handlers!AcreAlm(a) <=> HdrProofs!AcreAlm(a)
    /\ \A a : Handlers!StpAlm(a) <=> HdrProofs!StpAlm(a)
    /\ \A a : Handlers!DelAlm(a) <=> HdrProofs!DelAlm(a)
    /\ \A a, almtim : Handlers!StaAlm(a, almtim) <=> HdrProofs!StaAlm(a, almtim)
    /\ Handlers!Tick <=> HdrProofs!Tick
    /\ Handlers!HandlerReturns <=> HdrProofs!HandlerReturns
    /\ Handlers!HdrNext <=> HdrProofs!HdrNext
<1>1. \A c, tim, phs, sta : Handlers!AcreCyc(c, tim, phs, sta) <=> HdrProofs!AcreCyc(c, tim, phs, sta)
  BY SameHdrHeap, SameHdrParts DEF Handlers!AcreCyc, HdrProofs!AcreCyc, Handlers!heapVars,
     HdrProofs!heapVars, Handlers!clockVars, HdrProofs!clockVars, Handlers!TskCtx,
     HdrProofs!TskCtx
<1>2. \A c : Handlers!StaCyc(c) <=> HdrProofs!StaCyc(c)
  BY SameHdrHeap, SameHdrParts DEF Handlers!StaCyc, HdrProofs!StaCyc, Handlers!attrVars,
     HdrProofs!attrVars, Handlers!clockVars, HdrProofs!clockVars, Handlers!TskCtx,
     HdrProofs!TskCtx
<1>3. \A c : Handlers!StpCyc(c) <=> HdrProofs!StpCyc(c)
  BY SameHdrHeap, SameHdrParts DEF Handlers!StpCyc, HdrProofs!StpCyc, Handlers!attrVars,
     HdrProofs!attrVars, Handlers!TskCtx, HdrProofs!TskCtx
<1>4. \A c : Handlers!DelCyc(c) <=> HdrProofs!DelCyc(c)
  BY SameHdrHeap, SameHdrParts DEF Handlers!DelCyc, HdrProofs!DelCyc, Handlers!TskCtx,
     HdrProofs!TskCtx
<1>5. \A a : Handlers!AcreAlm(a) <=> HdrProofs!AcreAlm(a)
  BY SameHdrHeap, SameHdrParts DEF Handlers!AcreAlm, HdrProofs!AcreAlm, Handlers!staVars,
     HdrProofs!staVars, Handlers!clockVars, HdrProofs!clockVars, Handlers!heapVars,
     HdrProofs!heapVars, Handlers!TskCtx, HdrProofs!TskCtx
<1>6. \A a : Handlers!StpAlm(a) <=> HdrProofs!StpAlm(a)
  BY SameHdrHeap, SameHdrParts DEF Handlers!StpAlm, HdrProofs!StpAlm
<1>7. \A a : Handlers!DelAlm(a) <=> HdrProofs!DelAlm(a)
  BY SameHdrHeap, SameHdrParts DEF Handlers!DelAlm, HdrProofs!DelAlm, Handlers!TskCtx,
     HdrProofs!TskCtx
<1>8. \A a, almtim : Handlers!StaAlm(a, almtim) <=> HdrProofs!StaAlm(a, almtim)
  BY SameHdrHeap, SameHdrParts DEF Handlers!StaAlm, HdrProofs!StaAlm, Handlers!FromNextTick,
     HdrProofs!FromNextTick, Handlers!attrVars, HdrProofs!attrVars, Handlers!clockVars,
     HdrProofs!clockVars
<1>9. Handlers!Tick <=> HdrProofs!Tick
  BY SameHdrHeap, SameHdrParts DEF Handlers!Tick, HdrProofs!Tick, Handlers!attrVars,
     HdrProofs!attrVars
<1>10. Handlers!HandlerReturns <=> HdrProofs!HandlerReturns
  BY SameHdrHeap, SameHdrParts DEF Handlers!HandlerReturns, HdrProofs!HandlerReturns,
     Handlers!attrVars, HdrProofs!attrVars
<1>11. Handlers!HdrNext <=> HdrProofs!HdrNext
  BY SameHdrHeap, SameHdrParts DEF Handlers!HdrNext, HdrProofs!HdrNext,
     Handlers!HandlerReturns, HdrProofs!HandlerReturns, Handlers!attrVars, HdrProofs!attrVars,
     Handlers!Tick, HdrProofs!Tick, Handlers!StaAlm, HdrProofs!StaAlm, Handlers!FromNextTick,
     HdrProofs!FromNextTick, Handlers!clockVars, HdrProofs!clockVars, Handlers!DelAlm,
     HdrProofs!DelAlm, Handlers!TskCtx, HdrProofs!TskCtx, Handlers!StpAlm, HdrProofs!StpAlm,
     Handlers!AcreAlm, HdrProofs!AcreAlm, Handlers!staVars, HdrProofs!staVars,
     Handlers!heapVars, HdrProofs!heapVars, Handlers!DelCyc, HdrProofs!DelCyc, Handlers!StpCyc,
     HdrProofs!StpCyc, Handlers!StaCyc, HdrProofs!StaCyc, Handlers!AcreCyc, HdrProofs!AcreCyc
<1> QED
  BY <1>1, <1>2, <1>3, <1>4, <1>5, <1>6, <1>7, <1>8, <1>9, <1>10, <1>11

\* What the handlers start in, and what is shown of them
LEMMA SameHandlers ==
    /\ Handlers!TimeAssumption <=> HdrProofs!TimeAssumption
    /\ Handlers!HdrInit <=> HdrProofs!HdrInit
    /\ Handlers!CycAlmTypeOK <=> HdrProofs!CycAlmTypeOK
    /\ Handlers!HeapConsistent <=> HdrProofs!HeapConsistent
    /\ Handlers!EventsAreAccountedFor <=> HdrProofs!EventsAreAccountedFor
    /\ Handlers!OnTime <=> HdrProofs!OnTime
    /\ Handlers!HdrAssumption <=> HdrProofs!HdrAssumption
<1>1. Handlers!TimeAssumption <=> HdrProofs!TimeAssumption
  BY DEF Handlers!TimeAssumption, HdrProofs!TimeAssumption, Handlers!RangeAssumption,
     HdrProofs!RangeAssumption, Handlers!TicAssumption, HdrProofs!TicAssumption,
     Handlers!NoEvtAssumption, HdrProofs!NoEvtAssumption
<1>2. Handlers!HdrInit <=> HdrProofs!HdrInit
  BY DEF Handlers!HdrInit, HdrProofs!HdrInit, Handlers!StartedAtInit, HdrProofs!StartedAtInit,
     Handlers!NodeOf, HdrProofs!NodeOf, Handlers!With, HdrProofs!With, Handlers!Parent,
     HdrProofs!Parent, Handlers!Path, HdrProofs!Path, Handlers!Ancestors, HdrProofs!Ancestors,
     Handlers!UpPlace, HdrProofs!UpPlace, Handlers!LE, HdrProofs!LE, Handlers!SinceMin,
     HdrProofs!SinceMin, Handlers!RELTIM, HdrProofs!RELTIM
<1>3. Handlers!CycAlmTypeOK <=> HdrProofs!CycAlmTypeOK
  BY DEF Handlers!CycAlmTypeOK, HdrProofs!CycAlmTypeOK, Handlers!EVTTIM, HdrProofs!EVTTIM,
     Handlers!RELTIM, HdrProofs!RELTIM
<1>4. Handlers!HeapConsistent <=> HdrProofs!HeapConsistent
  BY DEF Handlers!HeapConsistent, HdrProofs!HeapConsistent, Handlers!Parent, HdrProofs!Parent,
     Handlers!LE, HdrProofs!LE, Handlers!SinceMin, HdrProofs!SinceMin
<1>5. Handlers!EventsAreAccountedFor <=> HdrProofs!EventsAreAccountedFor
  BY DEF Handlers!EventsAreAccountedFor, HdrProofs!EventsAreAccountedFor, Handlers!Registered,
     HdrProofs!Registered, Handlers!InHeap, HdrProofs!InHeap
<1>6. Handlers!OnTime <=> HdrProofs!OnTime
  BY DEF Handlers!OnTime, HdrProofs!OnTime, Handlers!Registered, HdrProofs!Registered,
     Handlers!InHeap, HdrProofs!InHeap
<1>7. Handlers!HdrAssumption <=> HdrProofs!HdrAssumption
  BY DEF Handlers!HdrAssumption, HdrProofs!HdrAssumption, Handlers!IsFiniteSet,
     HdrProofs!IsFiniteSet
<1> QED
  BY <1>1, <1>2, <1>3, <1>4, <1>5, <1>6, <1>7

-----------------------------------------------------------------------------
\* The invariant of the part that is explored

PartInv ==
    /\ part \in {"events", "handlers", "tasks"}
    /\ part = "events" => EventProofs!TimeInv /\ EventProofs!TimingInv
    /\ part = "handlers" => HdrProofs!HdrInv /\ HdrProofs!HdrTimingInv
    /\ part = "tasks" => TimerInv

\* Any events
LEMMA EventsPart ==
    ASSUME part = "events", PartInv, EventsRun \/ UNCHANGED mcVars
    PROVE  PartInv' /\ (EventsRun => AnyEvents!CalledInTime)
<1>1. EventProofs!TimeInv /\ EventProofs!TimingInv /\ EventProofs!TimeAssumption
  BY MCTimeAssumption, SameEvents DEF PartInv
<1>2. CASE EventsRun
  <2>1. EventProofs!Next /\ part' = "events"
    BY <1>2, SameEvents DEF EventsRun
  <2>2. EventProofs!TimeInv' /\ EventProofs!TimingInv' /\ EventProofs!CalledInTime
    BY <1>1, <2>1, EventProofs!EventStep
  <2> QED
    BY <2>1, <2>2, SameEvents DEF PartInv
<1>3. CASE UNCHANGED mcVars
  <2>1. UNCHANGED EventProofs!vars /\ part' = "events"
    BY <1>3 DEF mcVars, allVars, timerVars, eventVars, EventProofs!vars, EventProofs!heapVars,
                EventProofs!clockVars, EventProofs!askVars
  <2>2. EventProofs!TimeInv' /\ EventProofs!TimingInv'
    BY <1>1, <2>1, EventProofs!EventStutter
  <2>3. EventsRun => AnyEvents!CalledInTime
    BY <1>1, SameEvents, EventProofs!EventStep DEF EventsRun
  <2> QED
    BY <2>1, <2>2, <2>3 DEF PartInv
<1> QED
  BY <1>2, <1>3

\* Handlers
LEMMA HandlersPart ==
    ASSUME part = "handlers", PartInv, HandlersRun \/ UNCHANGED mcVars
    PROVE  PartInv'
<1>1. /\ HdrProofs!HdrInv /\ HdrProofs!HdrTimingInv
      /\ HdrProofs!TimeAssumption /\ HdrProofs!HdrAssumption
  BY MCTimeAssumption, SameHandlers DEF PartInv
<1>2. HandlersRun => HdrProofs!HdrNext /\ part' = "handlers"
  BY SameHdrSteps DEF HandlersRun
<1>3. UNCHANGED mcVars => UNCHANGED HdrProofs!hdrVars /\ part' = "handlers"
  BY DEF mcVars, allVars, schedVars, vars, tcbVars, timerVars, eventVars, hdrOnly,
         HdrProofs!hdrVars, HdrProofs!heapVars, HdrProofs!clockVars, HdrProofs!attrVars,
         HdrProofs!staVars
<1>4. [HdrProofs!HdrNext]_HdrProofs!hdrVars /\ part' = "handlers"
  BY <1>2, <1>3
<1>5. HdrProofs!HdrInv' /\ HdrProofs!HdrTimingInv'
  BY <1>1, <1>4, HdrProofs!HdrStep
<1> QED
  BY <1>4, <1>5 DEF PartInv

\* Tasks
LEMMA TasksPart ==
    ASSUME part = "tasks", PartInv, TasksRun \/ UNCHANGED mcVars
    PROVE  PartInv' /\ (TasksRun => ReleasedInTime)
<1>1. TimerInv /\ Timer!TimeAssumption
  BY MCTimeAssumption DEF PartInv
<1>2. part' = "tasks" /\ [TimerNext]_allVars
  BY DEF TasksRun, mcVars
<1>3. TimerInv'
  BY <1>1, <1>2, TimerNextInv
<1>4. TasksRun => ReleasedInTime
  BY <1>1, NeverReleasedEarly DEF TasksRun
<1> QED
  BY <1>2, <1>3, <1>4 DEF PartInv

LEMMA PartsInit ==
    ASSUME MCInit
    PROVE  PartInv
<1>1. CASE part = "events" /\ AnyEvents!Init
  <2>1. EventProofs!Init /\ EventProofs!TimeAssumption
    BY <1>1, MCTimeAssumption, SameEvents
  <2>2. EventProofs!TimeInv /\ EventProofs!TimingInv
    BY <2>1, EventProofs!TimeInitInv, EventProofs!TimingInit
  <2> QED
    BY <1>1, <2>2 DEF PartInv
<1>2. CASE part = "handlers" /\ Handlers!HdrInit
  <2>1. HdrProofs!HdrInit /\ HdrProofs!TimeAssumption /\ HdrProofs!HdrAssumption
    BY <1>2, MCTimeAssumption, SameHandlers
  <2>2. HdrProofs!HdrInv /\ HdrProofs!HdrTimingInv
    BY <2>1, HdrProofs!HdrInitInv, HdrProofs!HdrInitTiming
  <2> QED
    BY <1>2, <2>2 DEF PartInv
<1>3. CASE part = "tasks" /\ TimerInit
  BY <1>3, MCTimeAssumption, TimerInitInv DEF PartInv
<1> QED
  BY <1>1, <1>2, <1>3 DEF MCInit

LEMMA PartsNext ==
    ASSUME PartInv, [MCNext]_mcVars
    PROVE  PartInv'
<1>1. CASE part = "events"
  BY <1>1, EventsPart DEF MCNext, HandlersRun, TasksRun
<1>2. CASE part = "handlers"
  BY <1>2, HandlersPart DEF MCNext, EventsRun, TasksRun
<1>3. CASE part = "tasks"
  BY <1>3, TasksPart DEF MCNext, EventsRun, HandlersRun
<1> QED
  BY <1>1, <1>2, <1>3 DEF PartInv

\* Every part keeps its invariant, with any numbers of events, handlers and tasks, ticks of
\* any length and any range of times.
THEOREM PartsInvariance == MCSpec => []PartInv
<1>1. MCInit => PartInv
  BY PartsInit
<1>2. PartInv /\ [MCNext]_mcVars => PartInv'
  BY PartsNext
<1> QED
  BY <1>1, <1>2, PTL DEF MCSpec

\* What the parts of the run have in common
LEMMA PartInvShows ==
    ASSUME PartInv
    PROVE  TimeConsistent /\ EventsAreAccountedFor /\ NobodyIsLate
<1>1. CASE part = "events"
  <2>1. EventProofs!TimeInv /\ EventProofs!TimingInv /\ EventProofs!TimeAssumption
    BY <1>1, MCTimeAssumption, SameEvents DEF PartInv
  <2>2. AnyEvents!TimeConsistent /\ AnyEvents!NobodyIsLate
    BY <2>1, EventProofs!TimeInvShows, SameEvents
  <2> QED
    BY <1>1, <2>2 DEF TimeConsistent, EventsAreAccountedFor, NobodyIsLate
<1>2. CASE part = "handlers"
  <2>1. /\ HdrProofs!HdrInv /\ HdrProofs!HdrTimingInv
        /\ HdrProofs!TimeAssumption /\ HdrProofs!HdrAssumption
    BY <1>2, MCTimeAssumption, SameHandlers DEF PartInv
  <2>2. /\ HdrProofs!CycAlmTypeOK /\ HdrProofs!HeapConsistent
        /\ HdrProofs!EventsAreAccountedFor /\ HdrProofs!OnTime
    BY <2>1, HdrProofs!HdrInvShows
  <2>3. /\ Handlers!CycAlmTypeOK /\ Handlers!HeapConsistent
        /\ Handlers!EventsAreAccountedFor /\ Handlers!OnTime
    BY <2>2, SameHandlers
  <2> QED
    BY <1>2, <2>3 DEF TimeConsistent, EventsAreAccountedFor, NobodyIsLate
<1>3. CASE part = "tasks"
  BY <1>3, MCTimeAssumption, TimerInvShows
     DEF PartInv, TimeConsistent, EventsAreAccountedFor, NobodyIsLate
<1> QED
  BY <1>1, <1>2, <1>3 DEF PartInv

\* In a heap of any size no node is due before its parent, also when the times have
\* wrapped round; every event knows its node.
THEOREM TimeAlwaysConsistent == MCSpec => []TimeConsistent
<1>1. PartInv => TimeConsistent
  BY PartInvShows
<1> QED
  BY <1>1, PartsInvariance, PTL

\* cycsta, almsta and the waits with a time-out always say which events are in the heap,
\* also while signal_time is within a callback.
THEOREM EventsAlwaysAccountedFor == MCSpec => []EventsAreAccountedFor
<1>1. PartInv => EventsAreAccountedFor
  BY PartInvShows
<1> QED
  BY <1>1, PartsInvariance, PTL

\* When signal_time has ended no time-out is overdue and no handler late, whatever the
\* callbacks did, and a cyclic handler does not drift.
THEOREM NobodyEverLate == MCSpec => []NobodyIsLate
<1>1. PartInv => NobodyIsLate
  BY PartInvShows
<1> QED
  BY <1>1, PartsInvariance, PTL

\* No callback of signal_time comes before its time, and the one that releases a task
\* belongs to the wait the task is in.
THEOREM NobodyEverEarly == MCSpec => NobodyIsEarly
<1> DEFINE InTime == /\ part = "events" => AnyEvents!CalledInTime
                     /\ part = "tasks" => ReleasedInTime
<1>1. ASSUME PartInv, MCNext
      PROVE  InTime
  <2>1. CASE EventsRun
    BY <1>1, <2>1, EventsPart DEF EventsRun
  <2>2. CASE HandlersRun
    BY <2>2 DEF HandlersRun
  <2>3. CASE TasksRun
    BY <1>1, <2>3, TasksPart DEF TasksRun
  <2> QED
    BY <1>1, <2>1, <2>2, <2>3 DEF MCNext
<1>2. UNCHANGED mcVars => UNCHANGED eventVars
  BY DEF mcVars, allVars, timerVars
<1>3. PartInv /\ [MCNext]_mcVars => [InTime]_eventVars
  BY <1>1, <1>2
<1> QED
  BY <1>3, PartsInvariance, PTL DEF MCSpec, NobodyIsEarly
=============================================================================
