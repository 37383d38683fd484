------------------------------- MODULE Scheduler -------------------------------
(***************************************************************************)
(* Tasks, their scheduling and the two places a task switch happens: the   *)
(* dispatcher called by a service call of the running task, and the exit   *)
(* of the outermost interrupt handler (kernel/task.c, task_manage.c,       *)
(* task_sync.c, sys_manage.c, chg_ipm, arch/arm_gcc/common/core_support.S).*)
(*                                                                         *)
(* The configuration modelled links no mutex and no communication object,  *)
(* so that every mutex_queue is empty and the mutexhook functions are not  *)
(* called; module Mutex adds them.  A service call runs with the CPU       *)
(* locked and is one step.                                                 *)
(***************************************************************************)
EXTENDS ReadyQueue

CONSTANTS
    DynTask,      \* tasks created at run time (TSKID > tmax_stskid)
    IniPriority,  \* ipriority of every statically created task
    MinPriority,  \* minpriority of the domain each task belongs to
    MaxNest       \* bound on excpt_nest_count

ASSUME DynTaskAssumption  == DynTask \subseteq TASK
ASSUME PriorityAssumption == /\ IniPriority \in [TASK -> PRI]
                             /\ MinPriority \in [TASK -> PRI]
ASSUME MaxNestAssumption  == MaxNest \in Nat \ {0, 1}

VARIABLES
    exist,      \* tasks whose tskatr is not TA_NOEXS
    tstat,      \* the bits of each tstat; no bit is TS_DORMANT
    ipriority, bpriority, priority,
    actque, wupque, waifbd,
    tmevt,      \* waiting tasks whose p_winfo->p_tmevtb is registered
    ready,      \* ready_queue, ready_primap and p_schedtsk
    runtsk,     \* p_runtsk
    reqflg, ipmflg, disdsp, dspflg,
    locked,     \* CPU lock: the IRQ bit of the CPSR
    nest        \* excpt_nest_count; the idle loop counts as 1

tcbVars  == <<exist, tstat, ipriority, bpriority, priority, actque, wupque, waifbd, tmevt>>
modeVars == <<ipmflg, disdsp, dspflg, locked>>
cpuVars  == <<ready, runtsk, reqflg, nest>>
vars     == <<tcbVars, modeVars, cpuVars>>

\* TS_WAIT_DLY has no bit of its own; "WOBJ" is a wait in the queue of an object.
TSTAT == {{}, {"RUNNABLE"}, {"SUSPENDED"},
          {"WAITING"}, {"WAITING", "SLP"}, {"WAITING", "WOBJ"},
          {"WAITING", "SUSPENDED"}, {"WAITING", "SLP", "SUSPENDED"},
          {"WAITING", "WOBJ", "SUSPENDED"}}

Dormant(t)   == tstat[t] = {}
Runnable(t)  == "RUNNABLE" \in tstat[t]
Waiting(t)   == "WAITING" \in tstat[t]
Suspended(t) == "SUSPENDED" \in tstat[t]
Sleeping(t)  == "SLP" \in tstat[t]
Queued(t)    == "WOBJ" \in tstat[t]
Delayed(t)   == Waiting(t) /\ ~Sleeping(t) /\ ~Queued(t)
RunnableTasks == {t \in TASK : Runnable(t)}

\* The idle loop of the dispatcher runs with excpt_nest_count 1.
IdleNest == IF runtsk = NoTask THEN 1 ELSE 0

\* CHECK_TSKCTX_UNL, CHECK_INTCTX_UNL and CHECK_DISPATCH.
TskCtxUnl     == nest = 0 /\ ~locked
IntCtxUnl     == nest > IdleNest /\ ~locked
DispatchState == TskCtxUnl /\ dspflg

-----------------------------------------------------------------------------
Init ==
    \E first \in (TASK \ DynTask) \cup {NoTask} :   \* the TA_ACT task, if any
        /\ exist = TASK \ DynTask
        /\ tstat = [t \in TASK |-> IF t = first THEN {"RUNNABLE"} ELSE {}]
        /\ ipriority = IniPriority /\ bpriority = IniPriority /\ priority = IniPriority
        /\ actque = [t \in TASK |-> FALSE]
        /\ wupque = [t \in TASK |-> FALSE]
        /\ waifbd = [t \in TASK |-> FALSE]
        /\ tmevt = {}
        /\ ready = IF first = NoTask THEN EmptyReady
                   ELSE MakeRunnable(EmptyReady, first, IniPriority)
        /\ runtsk = first
        /\ nest = IF first = NoTask THEN 1 ELSE 0
        /\ reqflg = FALSE /\ ipmflg = TRUE /\ disdsp = FALSE /\ dspflg = TRUE
        /\ locked = FALSE

\* The dispatcher switches to p_schedtsk, or to the idle loop if it is NULL.
Dispatcher(r) ==
    /\ runtsk' = r.schedtsk
    /\ nest' = IF r.schedtsk = NoTask THEN 1 ELSE 0

\* Faults: a handler does not leave its request in reqflg; dspflg is not looked at.
RescheduleForgets(r, req) ==
    /\ ready' = r
    /\ IF req /\ dspflg /\ nest = 0 THEN Dispatcher(r) ELSE UNCHANGED <<runtsk, nest>>
    /\ UNCHANGED reqflg

RescheduleAlways(r, req) ==
    /\ ready' = r
    /\ IF req /\ nest = 0 THEN Dispatcher(r) ELSE UNCHANGED <<runtsk, nest>>
    /\ reqflg' = (reqflg \/ (req /\ nest > 0))

\* What a call does with the dispatch request req of the operation that gave
\* r: dispatch() in a task, reqflg = true in a handler.
Reschedule(r, req) ==
    /\ ready' = r
    /\ IF req /\ dspflg
       THEN IF nest = 0 THEN Dispatcher(r) /\ UNCHANGED reqflg
                        ELSE reqflg' = TRUE /\ UNCHANGED <<runtsk, nest>>
       ELSE UNCHANGED <<runtsk, nest, reqflg>>

BecomeReady(t)    == Reschedule(MakeRunnable(ready, t, priority),
                                DispatchRequest(ready, MakeRunnable(ready, t, priority)))
BecomeNonReady(t) == Reschedule(MakeNonRunnable(ready, t, priority),
                                DispatchRequest(ready, MakeNonRunnable(ready, t, priority)))

\* Fault: a wakeup request survives the end of the task.
MakeDormantKeepsWupque(t) ==
    /\ tstat' = [tstat EXCEPT ![t] = IF actque[t] THEN {"RUNNABLE"} ELSE {}]
    /\ actque' = [actque EXCEPT ![t] = FALSE]
    /\ bpriority' = [bpriority EXCEPT ![t] = ipriority[t]]
    /\ priority' = [priority EXCEPT ![t] = ipriority[t]]
    /\ waifbd' = [waifbd EXCEPT ![t] = FALSE]
    /\ tmevt' = tmevt \ {t}
    /\ UNCHANGED <<exist, ipriority, wupque>>

\* The fields make_dormant resets, then a queued activation starts t again.
MakeDormant(t) ==
    /\ tstat' = [tstat EXCEPT ![t] = IF actque[t] THEN {"RUNNABLE"} ELSE {}]
    /\ actque' = [actque EXCEPT ![t] = FALSE]
    /\ bpriority' = [bpriority EXCEPT ![t] = ipriority[t]]
    /\ priority' = [priority EXCEPT ![t] = ipriority[t]]
    /\ wupque' = [wupque EXCEPT ![t] = FALSE]
    /\ waifbd' = [waifbd EXCEPT ![t] = FALSE]
    /\ tmevt' = tmevt \ {t}
    /\ UNCHANGED <<exist, ipriority>>

-----------------------------------------------------------------------------
\* Task management (task_manage.c)

\* act_tsk, iact_tsk
Activate(t) ==
    /\ t \in exist
    /\ IF Dormant(t)
       THEN /\ tstat' = [tstat EXCEPT ![t] = {"RUNNABLE"}]
            /\ BecomeReady(t)
            /\ UNCHANGED actque
       ELSE /\ actque' = [actque EXCEPT ![t] = TRUE]
            /\ UNCHANGED <<tstat, cpuVars>>
    /\ UNCHANGED <<exist, ipriority, bpriority, priority, wupque, waifbd, tmevt, modeVars>>

ActTsk(t)  == TskCtxUnl /\ Activate(t)
IactTsk(t) == IntCtxUnl /\ Activate(t)

CanAct(t) ==
    /\ TskCtxUnl /\ t \in exist
    /\ actque' = [actque EXCEPT ![t] = FALSE]
    /\ UNCHANGED <<exist, tstat, ipriority, bpriority, priority, wupque, waifbd, tmevt>>
    /\ UNCHANGED <<modeVars, cpuVars>>

\* ext_tsk leaves the CPU locked and the dispatch disabled states.
ExtTsk ==
    LET left == MakeNonRunnable(ready, runtsk, priority)
    IN  /\ nest = 0
        /\ MakeDormant(runtsk)
        /\ ready' = IF actque[runtsk] THEN MakeRunnable(left, runtsk, priority') ELSE left
        /\ disdsp' = FALSE /\ ipmflg' = TRUE /\ dspflg' = TRUE /\ locked' = FALSE
        /\ Dispatcher(ready')
        /\ UNCHANGED reqflg

TerTsk(t) ==
    LET left == IF Runnable(t) THEN MakeNonRunnable(ready, t, priority) ELSE ready
        back == MakeRunnable(left, t, priority')
    IN  /\ TskCtxUnl /\ t \in exist /\ t # runtsk /\ ~Dormant(t)
        /\ MakeDormant(t)
        /\ IF actque[t] THEN Reschedule(back, DispatchRequest(left, back))
                        ELSE Reschedule(left, FALSE)
        /\ UNCHANGED modeVars

ChgPri(t, newbpri) ==
    LET r == ChangePriority(ready, t, priority, newbpri, FALSE)
    IN  /\ TskCtxUnl /\ t \in exist /\ ~Dormant(t)
        /\ newbpri >= MinPriority[runtsk]
        /\ bpriority' = [bpriority EXCEPT ![t] = newbpri]
        /\ priority' = [priority EXCEPT ![t] = newbpri]
        /\ IF Runnable(t) THEN Reschedule(r, DispatchRequest(ready, r))
                          ELSE UNCHANGED cpuVars
        /\ UNCHANGED <<exist, tstat, ipriority, actque, wupque, waifbd, tmevt, modeVars>>

\* acre_tsk takes a free TCB; its ready queue update is the caller's.
CreateTask(t, pri) ==
    /\ TskCtxUnl /\ t \in DynTask \ exist
    /\ exist' = exist \cup {t}
    /\ ipriority' = [ipriority EXCEPT ![t] = pri]
    /\ bpriority' = [bpriority EXCEPT ![t] = pri]
    /\ priority' = [priority EXCEPT ![t] = pri]
    /\ UNCHANGED <<actque, wupque, waifbd, tmevt, modeVars>>

AcreTsk(t, pri) == CreateTask(t, pri) /\ UNCHANGED <<tstat, cpuVars>>

\* With TA_ACT the task is made active and the value make_active returns is
\* dropped: no dispatch follows.
AcreTskAct(t, pri) ==
    /\ CreateTask(t, pri)
    /\ tstat' = [tstat EXCEPT ![t] = {"RUNNABLE"}]
    /\ ready' = MakeRunnable(ready, t, priority')
    /\ UNCHANGED <<runtsk, reqflg, nest>>

\* Fault: any task may be deleted.
DelTskUnchecked(t) ==
    /\ TskCtxUnl /\ t \in exist \cap DynTask
    /\ exist' = exist \ {t}
    /\ UNCHANGED <<tstat, ipriority, bpriority, priority, actque, wupque, waifbd, tmevt>>
    /\ UNCHANGED <<modeVars, cpuVars>>

DelTsk(t) ==
    /\ TskCtxUnl /\ t \in exist \cap DynTask /\ Dormant(t)
    /\ exist' = exist \ {t}
    /\ UNCHANGED <<tstat, ipriority, bpriority, priority, actque, wupque, waifbd, tmevt>>
    /\ UNCHANGED <<modeVars, cpuVars>>

-----------------------------------------------------------------------------
\* Task synchronisation (task_sync.c) and the wait primitives (wait.c, wait.h)

\* make_wait and make_wait_tmout: the running task starts to wait, and the
\* caller dispatches whatever make_non_runnable returned.
MakeWait(cause, timed) ==
    /\ tstat' = [tstat EXCEPT ![runtsk] = {"WAITING"} \cup cause]
    /\ tmevt' = IF timed THEN tmevt \cup {runtsk} ELSE tmevt
    /\ ready' = MakeNonRunnable(ready, runtsk, priority)
    /\ Dispatcher(ready')
    /\ UNCHANGED reqflg

\* slp_tsk, tslp_tsk
SlpTsk(timed) ==
    /\ DispatchState
    /\ IF wupque[runtsk]
       THEN /\ wupque' = [wupque EXCEPT ![runtsk] = FALSE]
            /\ UNCHANGED <<tstat, tmevt, cpuVars>>
       ELSE /\ ~waifbd[runtsk]
            /\ MakeWait({"SLP"}, timed)
            /\ UNCHANGED wupque
    /\ UNCHANGED <<exist, ipriority, bpriority, priority, actque, waifbd, modeVars>>

DlyTsk ==
    /\ DispatchState /\ ~waifbd[runtsk]
    /\ MakeWait({}, TRUE)
    /\ UNCHANGED <<exist, ipriority, bpriority, priority, actque, wupque, waifbd, modeVars>>

\* make_non_wait, after the time event is dequeued
MakeNonWait(t) ==
    /\ tmevt' = tmevt \ {t}
    /\ IF Suspended(t)
       THEN /\ tstat' = [tstat EXCEPT ![t] = {"SUSPENDED"}]
            /\ UNCHANGED cpuVars
       ELSE /\ tstat' = [tstat EXCEPT ![t] = {"RUNNABLE"}]
            /\ BecomeReady(t)

\* wup_tsk, iwup_tsk
WakeUp(t) ==
    /\ t \in exist /\ ~Dormant(t)
    /\ IF Sleeping(t)
       THEN MakeNonWait(t) /\ UNCHANGED wupque
       ELSE /\ wupque' = [wupque EXCEPT ![t] = TRUE]
            /\ UNCHANGED <<tstat, tmevt, cpuVars>>
    /\ UNCHANGED <<exist, ipriority, bpriority, priority, actque, waifbd, modeVars>>

WupTsk(t)  == TskCtxUnl /\ WakeUp(t)
IwupTsk(t) == IntCtxUnl /\ WakeUp(t)

CanWup(t) ==
    /\ TskCtxUnl /\ t \in exist /\ ~Dormant(t)
    /\ wupque' = [wupque EXCEPT ![t] = FALSE]
    /\ UNCHANGED <<exist, tstat, ipriority, bpriority, priority, actque, waifbd, tmevt>>
    /\ UNCHANGED <<modeVars, cpuVars>>

\* rel_wai, irel_wai
ReleaseWait(t) ==
    /\ t \in exist /\ Waiting(t)
    /\ MakeNonWait(t)
    /\ UNCHANGED <<exist, ipriority, bpriority, priority, actque, wupque, waifbd, modeVars>>

RelWai(t)  == TskCtxUnl /\ ReleaseWait(t)
IrelWai(t) == IntCtxUnl /\ ReleaseWait(t)

\* wait_tmout and wait_tmout_ok, called by signal_time in the timer handler
WaitTmout(t) ==
    /\ IntCtxUnl /\ t \in tmevt
    /\ MakeNonWait(t)
    /\ UNCHANGED <<exist, ipriority, bpriority, priority, actque, wupque, waifbd, modeVars>>

\* Fault: the running task may suspend itself while dispatching is disabled.
SusTskUnchecked(t) ==
    /\ TskCtxUnl /\ t \in exist /\ Runnable(t)
    /\ tstat' = [tstat EXCEPT ![t] = {"SUSPENDED"}]
    /\ BecomeNonReady(t)
    /\ UNCHANGED <<exist, ipriority, bpriority, priority, actque, wupque, waifbd, tmevt, modeVars>>

SusTsk(t) ==
    /\ TskCtxUnl /\ ~(t = runtsk /\ ~dspflg)
    /\ t \in exist /\ ~Dormant(t)
    /\ IF Runnable(t)
       THEN /\ tstat' = [tstat EXCEPT ![t] = {"SUSPENDED"}]
            /\ BecomeNonReady(t)
       ELSE /\ tstat' = [tstat EXCEPT ![t] = @ \cup {"SUSPENDED"}]
            /\ UNCHANGED cpuVars
    /\ UNCHANGED <<exist, ipriority, bpriority, priority, actque, wupque, waifbd, tmevt, modeVars>>

\* Fault: TS_SUSPENDED is not cleared when the task becomes runnable.
RsmTskKeepsBit(t) ==
    /\ TskCtxUnl /\ t \in exist /\ Suspended(t) /\ ~Waiting(t)
    /\ tstat' = [tstat EXCEPT ![t] = @ \cup {"RUNNABLE"}]
    /\ BecomeReady(t)
    /\ UNCHANGED <<exist, ipriority, bpriority, priority, actque, wupque, waifbd, tmevt, modeVars>>

RsmTsk(t) ==
    /\ TskCtxUnl /\ t \in exist /\ Suspended(t)
    /\ IF Waiting(t)
       THEN /\ tstat' = [tstat EXCEPT ![t] = @ \ {"SUSPENDED"}]
            /\ UNCHANGED cpuVars
       ELSE /\ tstat' = [tstat EXCEPT ![t] = {"RUNNABLE"}]
            /\ BecomeReady(t)
    /\ UNCHANGED <<exist, ipriority, bpriority, priority, actque, wupque, waifbd, tmevt, modeVars>>

\* dis_wai, ena_wai and their i-forms; whether t is in the masked state that
\* dis_wai asks for (t_sense_texmask) is left open.
SetWaifbd(t) ==
    /\ TskCtxUnl \/ IntCtxUnl
    /\ t \in exist /\ ~Dormant(t)
    /\ \E b \in BOOLEAN : waifbd' = [waifbd EXCEPT ![t] = b]
    /\ UNCHANGED <<exist, tstat, ipriority, bpriority, priority, actque, wupque, tmevt>>
    /\ UNCHANGED <<modeVars, cpuVars>>

-----------------------------------------------------------------------------
\* System state (sys_manage.c, interrupt.c)

\* rot_rdq, irot_rdq
RotRdq(p) ==
    /\ TskCtxUnl \/ IntCtxUnl
    /\ Reschedule(RotateReadyQueue(ready, p),
                  DispatchRequest(ready, RotateReadyQueue(ready, p)))
    /\ UNCHANGED <<tcbVars, modeVars>>

\* loc_cpu, iloc_cpu
LocCpu ==
    /\ TskCtxUnl \/ IntCtxUnl
    /\ locked' = TRUE
    /\ UNCHANGED <<tcbVars, cpuVars, ipmflg, disdsp, dspflg>>

\* unl_cpu, iunl_cpu
UnlCpu ==
    /\ locked /\ locked' = FALSE
    /\ UNCHANGED <<tcbVars, cpuVars, ipmflg, disdsp, dspflg>>

DisDsp ==
    /\ TskCtxUnl
    /\ disdsp' = TRUE /\ dspflg' = FALSE
    /\ UNCHANGED <<tcbVars, cpuVars, ipmflg, locked>>

\* A dispatch put off until now is done when the last obstacle goes.
EnableDispatch ==
    /\ dspflg' = TRUE
    /\ Dispatcher(ready)
    /\ UNCHANGED <<ready, reqflg>>

\* Fault: dispatching is enabled although an interrupt mask forbids it.
EnaDspUnchecked ==
    /\ TskCtxUnl /\ disdsp' = FALSE
    /\ EnableDispatch
    /\ UNCHANGED <<tcbVars, ipmflg, locked>>

EnaDsp ==
    /\ TskCtxUnl /\ disdsp' = FALSE
    /\ IF ipmflg THEN EnableDispatch ELSE UNCHANGED <<dspflg, cpuVars>>
    /\ UNCHANGED <<tcbVars, ipmflg, locked>>

ChgIpm(enaall) ==
    /\ TskCtxUnl /\ ipmflg' = enaall
    /\ IF enaall
       THEN IF ~disdsp THEN EnableDispatch ELSE UNCHANGED <<dspflg, cpuVars>>
       ELSE dspflg' = FALSE /\ UNCHANGED cpuVars
    /\ UNCHANGED <<tcbVars, disdsp, locked>>

-----------------------------------------------------------------------------
\* Interrupts and the idle loop (core_support.S)

IntEnter ==
    /\ ~locked /\ nest < MaxNest
    /\ nest' = nest + 1
    /\ UNCHANGED <<tcbVars, modeVars, ready, runtsk, reqflg>>

\* ret_int into a handler or the idle loop only unstacks.
IntExitNested ==
    /\ nest > 1
    /\ nest' = nest - 1 /\ locked' = FALSE
    /\ UNCHANGED <<tcbVars, ready, runtsk, reqflg, ipmflg, disdsp, dspflg>>

\* ret_int into a task switches tasks if a handler asked for it.
IntExit ==
    /\ nest = 1 /\ runtsk # NoTask
    /\ locked' = FALSE /\ reqflg' = FALSE
    /\ IF reqflg /\ dspflg /\ runtsk # ready.schedtsk
       THEN Dispatcher(ready)
       ELSE nest' = 0 /\ UNCHANGED runtsk
    /\ UNCHANGED <<tcbVars, ready, ipmflg, disdsp, dspflg>>

\* Fault: the loop waits for the task context instead of a request.
IdleExitStuck ==
    /\ nest = 0 /\ runtsk = NoTask /\ reqflg
    /\ reqflg' = FALSE
    /\ Dispatcher(ready)
    /\ UNCHANGED <<tcbVars, modeVars, ready>>

\* The idle loop (dispatcher_5) leaves for the dispatcher when reqflg is set.
IdleExit ==
    /\ nest = 1 /\ runtsk = NoTask /\ reqflg
    /\ reqflg' = FALSE
    /\ Dispatcher(ready)
    /\ UNCHANGED <<tcbVars, modeVars, ready>>

TaskService(t) ==
    \/ ActTsk(t) \/ IactTsk(t) \/ CanAct(t) \/ TerTsk(t) \/ DelTsk(t)
    \/ \E p \in PRI : ChgPri(t, p) \/ AcreTsk(t, p)
    \/ WupTsk(t) \/ IwupTsk(t) \/ CanWup(t) \/ RelWai(t) \/ IrelWai(t) \/ WaitTmout(t)
    \/ SusTsk(t) \/ RsmTsk(t) \/ SetWaifbd(t)

Next ==
    \/ \E t \in TASK : TaskService(t)
    \/ ExtTsk \/ DlyTsk \/ \E b \in BOOLEAN : SlpTsk(b) \/ ChgIpm(b)
    \/ \E p \in PRI : RotRdq(p)
    \/ LocCpu \/ UnlCpu \/ DisDsp \/ EnaDsp
    \/ IntEnter \/ IntExitNested \/ IntExit \/ IdleExit

\* A handler returns, and the interrupt load leaves time for tasks: the exit
\* to a task or to the idle loop is not held off for ever.
Fairness == WF_vars(IntExitNested) /\ SF_vars(IntExit) /\ SF_vars(IdleExit)

Spec == Init /\ [][Next]_vars /\ Fairness

\* The kernel with acre_tsk(TA_ACT) as well.
NextAct == Next \/ \E t \in TASK, p \in PRI : AcreTskAct(t, p)
SpecAct == Init /\ [][NextAct]_vars

-----------------------------------------------------------------------------
(***************************************************************************)
(* Properties                                                              *)
(***************************************************************************)

\* Every variable holds a value the C declaration allows.
TypeOK ==
    /\ exist \in SUBSET TASK /\ tmevt \in SUBSET TASK
    /\ tstat \in [TASK -> TSTAT]
    /\ ipriority \in [TASK -> PRI] /\ bpriority \in [TASK -> PRI] /\ priority \in [TASK -> PRI]
    /\ actque \in [TASK -> BOOLEAN] /\ wupque \in [TASK -> BOOLEAN] /\ waifbd \in [TASK -> BOOLEAN]
    /\ ready \in ReadyType
    /\ runtsk \in TASK \cup {NoTask}
    /\ reqflg \in BOOLEAN /\ ipmflg \in BOOLEAN /\ disdsp \in BOOLEAN
    /\ dspflg \in BOOLEAN /\ locked \in BOOLEAN
    /\ nest \in 0 .. MaxNest

\* The ready queue holds the tasks in the RUNNABLE state, each once, at its
\* current priority, and the bitmap and p_schedtsk agree with it.
ReadyQueueConsistent ==
    /\ QueuesMatch(ready, RunnableTasks, priority)
    /\ PrimapMatches(ready)
    /\ SchedtskIsHighest(ready, priority)

\* The CPU is with the task of highest precedence whenever dispatching is
\* enabled; in a handler the difference has been recorded in reqflg, so that
\* no switch is lost between a handler's request and the exit of the last one.
DispatchIsPrompt ==
    /\ dspflg /\ runtsk # ready.schedtsk => reqflg
    /\ reqflg => nest > 0

\* A task that has the CPU stays runnable, whatever handlers interrupt it; the
\* CPU idles only in a non-task context and with dispatching enabled.
RunningTaskIsRunnable ==
    IF runtsk = NoTask THEN nest >= 1 /\ dspflg ELSE Runnable(runtsk)

\* dspflg caches the conjunction of the two flags it is derived from.
DspflgIsCache == dspflg <=> ipmflg /\ ~disdsp

TcbOk(t) ==
    /\ Dormant(t) => ~actque[t] /\ ~wupque[t] /\ ~waifbd[t] /\ priority[t] = ipriority[t]
    /\ Sleeping(t) => ~wupque[t]
    /\ Delayed(t) => t \in tmevt
    /\ t \in tmevt => Waiting(t)
    /\ t \notin exist => Dormant(t)

\* The consistency of each TCB that test/bit_kernel.c (bit_task) checks: a
\* dormant task has nothing queued and its initial priority, a sleeping one no
\* wakeup request, and a delay has a time event that will end it.
TcbConsistent == \A t \in TASK : TcbOk(t)

\* While dispatching stays disabled the running task keeps the CPU, whatever
\* handlers and service calls make ready, suspend or terminate.
NoSwitchWhileDisabled == [][~dspflg /\ ~dspflg' => runtsk' = runtsk]_vars

\* Tasks of one priority are served first come, first served: a task joins its
\* queue behind those in it, and the only one ever overtaken is the one that a
\* rotation, a change of its priority or its restart has just put last.
Before(s, t, u) == \E i, j \in DOMAIN s : i < j /\ s[i] = t /\ s[j] = u

FifoWithinPriority ==
    [][\A p \in PRI : LET old == ready.queue[p]
                          new == ready'.queue[p]
                      IN  \A t \in Range(old) \cap Range(new), u \in Range(new) :
                            Before(new, u, t) /\ ~Before(old, u, t)
                                => u \in Range(old) /\ t = Last(new)]_vars

\* The comment in ter_tsk: its target is not the running task, so taking it
\* from the ready queue never calls for a dispatch.
TerTskNeedsNoDispatch ==
    \A t \in TASK \ {runtsk} : TskCtxUnl /\ Runnable(t) => ~(dspflg /\ ready.schedtsk = t)

\* A dispatch that a handler has made necessary happens in the end, unless the
\* task disables dispatching when it is back.
RequestIsServed ==
    dspflg /\ runtsk # ready.schedtsk ~> runtsk = ready.schedtsk \/ ~dspflg
=============================================================================
