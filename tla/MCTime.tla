--------------------------------- MODULE MCTime ---------------------------------
(***************************************************************************)
(* TimeEvent, CyclicAlarm and TaskTimer for TLC; part says which is        *)
(* explored, as in MCObjects.  TaskTimer is this module's own; the values  *)
(* of the constants are in the cfg.                                        *)
(***************************************************************************)
EXTENDS TaskTimer, TLC

CONSTANTS
    NoEvt,
    EVT, EvtModulus, EvtMaxReltim, EvtTicNume, EvtTicDeno,              \* of TimeEvent
    CYC, ALM, DynHdr, HdrModulus, HdrMaxReltim, HdrTicNume, HdrTicDeno, \* of CyclicAlarm
    t1, t2                                                              \* names for the cfg

\* Two tasks, of which t1 has the higher priority
MCIniPriority == (t1 :> 0) @@ (t2 :> 1)
MCMinPriority == (t1 :> 0) @@ (t2 :> 0)

VARIABLES
    part,       \* the instance explored, which no step changes
    cyctim, cycphs, cycsta, almsta, evttim, ahead

AnyEvents == INSTANCE TimeEvent WITH
    MODULUS <- EvtModulus, TMAX_RELTIM <- EvtMaxReltim,
    TIC_NUME <- EvtTicNume, TIC_DENO <- EvtTicDeno

Handlers == INSTANCE CyclicAlarm WITH
    EVT <- CYC \cup ALM, MODULUS <- HdrModulus, TMAX_RELTIM <- HdrMaxReltim,
    TIC_NUME <- HdrTicNume, TIC_DENO <- HdrTicDeno

ASSUME MCTimeAssumption ==
    /\ AnyEvents!TimeAssumption /\ Timer!TimeAssumption
    /\ Handlers!TimeAssumption /\ Handlers!HdrAssumption

-----------------------------------------------------------------------------
\* Modules that are not explored stay as they are.
hdrOnly  == <<cyctim, cycphs, cycsta, almsta, evttim, ahead>>
taskOnly == <<tstat, ipriority, bpriority, priority, actque, wupque, waifbd, tmevt, ready,
              runtsk, reqflg, ipmflg, disdsp, dspflg, locked, nest, sigNest>>
NoHdr == /\ cyctim = <<>> /\ cycphs = <<>> /\ cycsta = {} /\ almsta = {}
         /\ evttim = <<>> /\ ahead = <<>>
NoTasks == /\ tstat = <<>> /\ ipriority = <<>> /\ bpriority = <<>> /\ priority = <<>>
           /\ actque = <<>> /\ wupque = <<>> /\ waifbd = <<>> /\ tmevt = {} /\ ready = <<>>
           /\ runtsk = NoTask /\ reqflg = FALSE /\ ipmflg = TRUE /\ disdsp = FALSE
           /\ dspflg = TRUE /\ locked = FALSE /\ nest = 0 /\ sigNest = 0
NoAsk   == reltim = <<>> /\ ticks = <<>>

MCInit ==
    \/ part = "events" /\ AnyEvents!Init /\ NoHdr /\ NoTasks /\ exist = {}
    \/ part = "handlers" /\ Handlers!HdrInit /\ NoAsk /\ NoTasks
    \/ part = "tasks" /\ TimerInit /\ NoHdr

EventsRun   == part = "events"   /\ AnyEvents!Next /\ UNCHANGED <<part, exist, hdrOnly, taskOnly>>
HandlersRun == part = "handlers" /\ Handlers!HdrNext /\ UNCHANGED <<part, reltim, ticks, taskOnly>>
TasksRun    == part = "tasks"    /\ TimerNext /\ UNCHANGED <<part, hdrOnly>>

MCNext == EventsRun \/ HandlersRun \/ TasksRun

mcVars == <<allVars, part, hdrOnly>>
MCSpec == MCInit /\ [][MCNext]_mcVars

-----------------------------------------------------------------------------
\* Bounds: with more than three events none asks for more than 1 ms; the tasks have one
\* queued request, disabled state or CPU lock at a time.
FewOrShort ==
    part = "events" => Len(tmevt_heap) <= 3 \/ \A e \in DOMAIN reltim : reltim[e] <= 1
FewRequests ==
    Cardinality({t \in DOMAIN tstat : actque[t]}) + Cardinality({t \in DOMAIN tstat : wupque[t]})
        + Cardinality({t \in DOMAIN tstat : waifbd[t]})
        + (IF disdsp THEN 1 ELSE 0) + (IF locked THEN 1 ELSE 0) <= 1
SmallTime == FewOrShort /\ FewRequests

\* Times matter relative to min_time only; the events of TimeEvent by what they asked for.
Since(time) == (time - min_time) % (CASE part = "events" -> EvtModulus
                                       [] part = "handlers" -> HdrModulus
                                       [] part = "tasks" -> MODULUS)
AskOf(e) == IF e \in DOMAIN reltim THEN <<reltim[e], ticks[e]>> ELSE <<>>
Named(e) == IF part = "events" THEN AskOf(e) ELSE <<e, AskOf(e)>>
TimeView ==
    <<part, Since(current_time), Since(next_time), next_subtime, Named(cback),
      IF cback = NoEvt \/ cback = NoTask THEN 0 ELSE index[cback],
      [i \in DOMAIN tmevt_heap |-> LET e == tmevt_heap[i].evt
                                   IN  <<Since(tmevt_heap[i].time), index[e], Named(e)>>],
      exist, cyctim, cycphs, cycsta, almsta, [c \in cycsta |-> Since(evttim[c])], ahead, taskOnly>>

-----------------------------------------------------------------------------
(***************************************************************************)
(* Properties                                                              *)
(***************************************************************************)

\* The variables keep their types, and the heap its order: every node knows its
\* event, every event its node, and none is due before its parent.
TimeConsistent ==
    /\ part = "events" => AnyEvents!TimeConsistent
    /\ part = "handlers" => Handlers!CycAlmTypeOK /\ Handlers!HeapConsistent
    /\ part = "tasks" => TimerTypeOK /\ DispatchIsPrompt /\ Timer!HeapConsistent

\* The events in the heap are those that the TCBs, cycsta and almsta speak of, also
\* in the window in which a callback, or what interrupts it, makes calls: no node
\* points into the stack of a call that has returned (TimersAreForWaits), and the
\* calls that stop or restart a handler find its event.
EventsAreAccountedFor ==
    /\ part = "handlers" => Handlers!EventsAreAccountedFor
    /\ part = "tasks" => TimersAreForWaits

\* NeverLate, LeftIsMissing and NobodyOversleeps: when signal_time returns no event
\* is left whose time has passed, and the time left is what ref_alm and others report.
\* OnTime of CyclicAlarm: no handler is called early or left late, and a cyclic
\* handler makes up for every call without drift.
NobodyIsLate ==
    /\ part = "events" => AnyEvents!NobodyIsLate
    /\ part = "handlers" => Handlers!OnTime
    /\ part = "tasks" => NobodyOversleeps

\* CalledInTime and TimedOutInTime: no callback comes before its time, and the one that
\* releases a task belongs to the wait the task is in.
NobodyIsEarly ==
    [][/\ part = "events" => AnyEvents!CalledInTime
       /\ part = "tasks" => ReleasedInTime]_eventVars
=============================================================================
