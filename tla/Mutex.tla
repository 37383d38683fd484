--------------------------------- MODULE Mutex ---------------------------------
(***************************************************************************)
(* Mutexes (kernel/mutex.c) and the parts of chg_pri, ext_tsk and ter_tsk  *)
(* that deal with them: a task holds mutexes, an immediate ceiling raises  *)
(* the priority of the holder, and the release of a mutex hands it to the  *)
(* first task waiting for it.                                              *)
(*                                                                         *)
(* Every mutex has one wait queue, and they are named alike.               *)
(***************************************************************************)
EXTENDS WaitObject

CONSTANTS
    DynMtx,     \* mutexes created at run time
    CeilPri     \* the ceiling of each TA_CEILING mutex

MTX == WQUEUE
CeilMtx == DOMAIN CeilPri

\* TA_CEILING has the bit of TA_TPRI as well.
ASSUME MtxAssumption == DynMtx \subseteq MTX /\ CeilMtx \subseteq TaTpri
ASSUME CeilPriAssumption == CeilPri \in [CeilMtx -> PRI]

VARIABLES
    mtxexist,       \* mutexes whose mtxatr is not TA_NOEXS
    loctsk,         \* p_loctsk
    mutex_queue     \* the mutexes each task holds, in the order of its list

mtxVars == <<mtxexist, loctsk, mutex_queue, wait_queue>>
allVars == <<vars, mtxVars>>

MState == [ready |-> ready, tstat |-> tstat, priority |-> priority, tmevt |-> tmevt,
           wait_queue |-> wait_queue, dspreq |-> FALSE,
           loctsk |-> loctsk, mutex_queue |-> mutex_queue]

MCommit(k) == Commit(k) /\ loctsk' = k.loctsk /\ mutex_queue' = k.mutex_queue

-----------------------------------------------------------------------------
Holds(k, t, m) == Contains(k.mutex_queue[t], m)
Held(t) == {m \in MTX : Contains(mutex_queue[t], m)}

\* mutex_check_ceilpri; the two conditions of chg_pri on calling it are those
\* under which it can return false.
CheckCeilpri(t, pri) ==
    \A m \in CeilMtx : m \in Held(t) \/ Contains(wait_queue[m], t) => CeilPri[m] <= pri

ScanCeilmtx(t) == Held(t) \cap CeilMtx # {}

\* Fault: the priority falls back to the base priority.
CalcPriorityBase(k, t) == bpriority[t]

CalcPriority(k, t) ==
    Min({bpriority[t]} \cup {CeilPri[m] : m \in {c \in CeilMtx : Holds(k, t, c)}})

\* mutex_drop_priority, called when a ceiling has gone
DropPriority(k, t, m) ==
    IF m \in CeilMtx /\ k.priority[t] = CeilPri[m] /\ CalcPriority(k, t) # k.priority[t]
    THEN ChangePriorityK(k, t, CalcPriority(k, t), TRUE)
    ELSE k

\* mutex_acquire and mutex_raise_priority
Acquire(k, t, m) ==
    LET n == [k EXCEPT !.loctsk[m] = t, !.mutex_queue[t] = <<m>> \o @]
    IN  IF m \in CeilMtx /\ CeilPri[m] < k.priority[t]
        THEN ChangePriorityK(n, t, CeilPri[m], TRUE)
        ELSE n

\* Fault: the new holder is not raised to the ceiling.
ReleaseWithoutCeiling(k, m) ==
    LET q == k.wait_queue[m]
        t == Head(q)
    IN  IF q = <<>> THEN [k EXCEPT !.loctsk[m] = NoTask]
        ELSE WaitRelease([k EXCEPT !.loctsk[m] = t, !.mutex_queue[t] = Append(@, m)], t)

\* Fault: the mutex is set free although tasks wait for it.
ReleaseToNobody(k, m) == [k EXCEPT !.loctsk[m] = NoTask]

\* Fault: the last task of the queue is served first.
ReleaseToLast(k, m) ==
    LET q == k.wait_queue[m]
        t == Last(q)
        n == [k EXCEPT !.loctsk[m] = t, !.mutex_queue[t] = Append(@, m),
                       !.priority[t] = IF m \in CeilMtx THEN Min({@, CeilPri[m]}) ELSE @]
    IN  IF q = <<>> THEN [k EXCEPT !.loctsk[m] = NoTask]
        ELSE WaitRelease(n, t)

\* Fault: the task is made ready before its priority is raised.
ReleaseRaisesLate(k, m) ==
    LET q == k.wait_queue[m]
        t == Head(q)
        n == WaitRelease([k EXCEPT !.loctsk[m] = t, !.mutex_queue[t] = Append(@, m)], t)
    IN  IF q = <<>> THEN [k EXCEPT !.loctsk[m] = NoTask]
        ELSE [n EXCEPT !.priority[t] = IF m \in CeilMtx THEN Min({@, CeilPri[m]}) ELSE @]

\* mutex_release: m has left the list of its holder.
Release(k, m) ==
    LET q == k.wait_queue[m]
        t == Head(q)
        n == [k EXCEPT !.loctsk[m] = t, !.mutex_queue[t] = Append(@, m),
                       !.priority[t] = IF m \in CeilMtx THEN Min({@, CeilPri[m]}) ELSE @]
    IN  IF q = <<>> THEN [k EXCEPT !.loctsk[m] = NoTask]
        ELSE WaitRelease(n, t)

\* mutex_release_all
ReleaseAll(k, t) ==
    LET held == k.mutex_queue[t]
        released[n \in 0 .. Len(held)] ==
            IF n = 0 THEN [k EXCEPT !.mutex_queue[t] = <<>>]
                     ELSE Release(released[n - 1], held[n])
    IN  released[Len(held)]

\* Fault: m stays linked in the list of the task that held it.
LoseMutexKeepsLink(k, t, m) == DropPriority(k, t, m)

\* The holder loses m (unl_mtx, ini_mtx, del_mtx).
LoseMutex(k, t, m) == DropPriority([k EXCEPT !.mutex_queue[t] = Delete(@, m)], t, m)

-----------------------------------------------------------------------------
MayLock(m) == m \in mtxexist /\ (m \in CeilMtx => CeilPri[m] <= bpriority[runtsk])

\* A free mutex is locked; the request that mutex_acquire returns is dropped.
LockFree(m) ==
    /\ loctsk[m] = NoTask
    /\ MCommit([Acquire(MState, runtsk, m) EXCEPT !.dspreq = FALSE])
    /\ UNCHANGED <<restVars, mtxexist>>

\* loc_mtx, tloc_mtx
LocMtx(m, timed) ==
    /\ DispatchState /\ MayLock(m)
    /\ \/ LockFree(m)
       \/ /\ loctsk[m] \notin {NoTask, runtsk} /\ ~waifbd[runtsk]
          /\ WobjMakeWait(m, timed)
          /\ UNCHANGED <<restVars, mtxexist, loctsk, mutex_queue>>

PlocMtx(m) == TskCtxUnl /\ MayLock(m) /\ LockFree(m)

UnlMtx(m) ==
    /\ TskCtxUnl /\ m \in mtxexist /\ loctsk[m] = runtsk
    /\ MCommit(Release(LoseMutex(MState, runtsk, m), m))
    /\ UNCHANGED <<restVars, mtxexist>>

\* ini_mtx and del_mtx make the waiting tasks return E_DLT.
Initialized(m) ==
    LET k == InitWaitQueue(MState, m)
        t == loctsk[m]
    IN  IF t = NoTask THEN k
        ELSE LoseMutex([k EXCEPT !.loctsk[m] = NoTask], t, m)

IniMtx(m) ==
    /\ TskCtxUnl /\ m \in mtxexist
    /\ MCommit(Initialized(m))
    /\ UNCHANGED <<restVars, mtxexist>>

\* Fault: a locked mutex is deleted under its holder.
DelMtxLocked(m) ==
    /\ TskCtxUnl /\ m \in mtxexist \cap DynMtx
    /\ MCommit(InitWaitQueue(MState, m))
    /\ mtxexist' = mtxexist \ {m}
    /\ UNCHANGED restVars

DelMtx(m) ==
    /\ TskCtxUnl /\ m \in mtxexist \cap DynMtx
    /\ MCommit(Initialized(m))
    /\ mtxexist' = mtxexist \ {m}
    /\ UNCHANGED restVars

AcreMtx(m) ==
    /\ TskCtxUnl /\ m \in DynMtx \ mtxexist
    /\ mtxexist' = mtxexist \cup {m}
    /\ UNCHANGED <<vars, loctsk, mutex_queue, wait_queue>>

-----------------------------------------------------------------------------
\* Task management with mutexes

\* Fault: the ceilings are not looked at.
ChgPriMtxUnchecked(t, newbpri) ==
    /\ TskCtxUnl /\ t \in exist /\ ~Dormant(t)
    /\ newbpri >= MinPriority[runtsk]
    /\ bpriority' = [bpriority EXCEPT ![t] = newbpri]
    /\ MCommit(IF ScanCeilmtx(t) THEN MState ELSE ChangePriorityK(MState, t, newbpri, FALSE))
    /\ UNCHANGED <<exist, ipriority, actque, wupque, waifbd, modeVars, mtxexist>>

ChgPriMtx(t, newbpri) ==
    /\ TskCtxUnl /\ t \in exist /\ ~Dormant(t)
    /\ newbpri >= MinPriority[runtsk] /\ CheckCeilpri(t, newbpri)
    /\ bpriority' = [bpriority EXCEPT ![t] = newbpri]
    /\ MCommit(IF ScanCeilmtx(t) THEN MState ELSE ChangePriorityK(MState, t, newbpri, FALSE))
    /\ UNCHANGED <<exist, ipriority, actque, wupque, waifbd, modeVars, mtxexist>>

\* The task leaves its queue, releases its mutexes and becomes dormant.
Ended(t) == MakeDormantK(ReleaseAll(LeaveQueues(MState, t), t), t)

ExtTskMtx ==
    LET k == Ended(runtsk)
    IN  /\ nest = 0
        /\ tstat' = k.tstat /\ priority' = k.priority /\ tmevt' = k.tmevt
        /\ wait_queue' = k.wait_queue /\ loctsk' = k.loctsk /\ mutex_queue' = k.mutex_queue
        /\ DormantFields(runtsk)
        /\ disdsp' = FALSE /\ ipmflg' = TRUE /\ dspflg' = TRUE /\ locked' = FALSE
        /\ ready' = k.ready /\ Dispatcher(k.ready)
        /\ UNCHANGED <<reqflg, mtxexist>>

TerTskMtx(t) ==
    /\ TskCtxUnl /\ t \in exist /\ t # runtsk /\ ~Dormant(t)
    /\ MCommit(Ended(t))
    /\ DormantFields(t)
    /\ UNCHANGED <<modeVars, mtxexist>>

-----------------------------------------------------------------------------
MtxInit ==
    /\ Init
    /\ mtxexist = MTX \ DynMtx
    /\ loctsk = [m \in MTX |-> NoTask]
    /\ mutex_queue = [t \in TASK |-> <<>>]
    /\ wait_queue = [m \in MTX |-> <<>>]

MutexService(m) ==
    \/ PlocMtx(m) \/ UnlMtx(m) \/ IniMtx(m) \/ DelMtx(m) \/ AcreMtx(m)
    \/ \E b \in BOOLEAN : LocMtx(m, b)

TaskServiceMtx(t) ==
    \/ TerTskMtx(t) \/ \E p \in PRI : ChgPriMtx(t, p)
    \/ (RelWaiQueued(t) \/ WaitTmoutQueued(t)) /\ UNCHANGED <<mtxexist, loctsk, mutex_queue>>

MtxNext ==
    \/ \E m \in MTX : MutexService(m)
    \/ \E t \in TASK : TaskServiceMtx(t)
    \/ ExtTskMtx
    \/ SchedulerStep /\ UNCHANGED mtxVars

MtxSpec == MtxInit /\ [][MtxNext]_allVars

-----------------------------------------------------------------------------
(***************************************************************************)
(* Properties                                                              *)
(***************************************************************************)

\* The type of the variables of this module.
MtxTypeOK ==
    /\ TypeOK
    /\ mtxexist \in SUBSET MTX
    /\ loctsk \in [MTX -> TASK \cup {NoTask}]
    /\ \A t \in TASK : mutex_queue[t] \in Seq(MTX) /\ IsInjective(mutex_queue[t])
    /\ \A m \in MTX : wait_queue[m] \in Seq(TASK)

\* The variables keep their types, and the scheduler its promises, while mutexes
\* change the priorities of tasks that run, that are ready and that wait.
MtxConsistent == MtxTypeOK /\ WaitsConsistent

\* p_loctsk and the lists of the tasks agree, a dormant task holds nothing, and
\* nobody waits for a free mutex: no release leaves a waiting task behind.
HolderConsistent ==
    /\ \A m \in MTX, t \in TASK : loctsk[m] = t <=> m \in Held(t)
    /\ \A t \in TASK : Dormant(t) => Held(t) = {}
    /\ \A m \in MTX : loctsk[m] = NoTask => wait_queue[m] = <<>>
    /\ \A m \in MTX \ mtxexist : loctsk[m] = NoTask

\* The current priority is the highest of the base priority and the ceilings of
\* the mutexes held, although the code only recalculates it in some cases.
PriorityIsCurrent ==
    \A t \in TASK : ~Dormant(t) =>
        LET levels == {bpriority[t]} \cup {CeilPri[m] : m \in Held(t) \cap CeilMtx}
        IN  priority[t] \in levels /\ \A p \in levels : priority[t] <= p

\* No task holds, or waits for, a mutex whose ceiling is below its base
\* priority, whatever chg_pri is asked for in the meantime.
CeilingRespected ==
    \A t \in TASK, m \in CeilMtx :
        m \in Held(t) \/ Contains(wait_queue[m], t) => CeilPri[m] <= bpriority[t]

\* A mutex passes from a task to the first in its wait queue, which stops
\* waiting in the same step.
HandoverIsInOrder ==
    [][\A m \in MTX : loctsk'[m] \notin {NoTask, loctsk[m]} /\ wait_queue[m] # <<>>
            => loctsk'[m] = Head(wait_queue[m]) /\ "WOBJ" \notin tstat'[loctsk'[m]]]_allVars
=============================================================================
