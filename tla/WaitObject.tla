------------------------------ MODULE WaitObject ------------------------------
(***************************************************************************)
(* Waiting in the queue of an object, common to mutexes and communication  *)
(* objects (kernel/wait.c, wait.h).                                        *)
(*                                                                         *)
(* A service call may move several tasks before it dispatches once at its  *)
(* end.  Its functions are operators on a record k of the variables they   *)
(* write; k.dspreq gathers the dispatch requests they return, and Commit   *)
(* makes k the next state.                                                 *)
(***************************************************************************)
EXTENDS Scheduler

CONSTANTS
    WQUEUE,     \* the wait queues of all objects
    TaTpri      \* those kept in the order of priority (TA_TPRI)

ASSUME TaTpriAssumption == TaTpri \subseteq WQUEUE

VARIABLE wait_queue

KState == [ready |-> ready, tstat |-> tstat, priority |-> priority, tmevt |-> tmevt,
           wait_queue |-> wait_queue, dspreq |-> FALSE]

Commit(k) ==
    /\ tstat' = k.tstat /\ priority' = k.priority /\ tmevt' = k.tmevt
    /\ wait_queue' = k.wait_queue
    /\ Reschedule(k.ready, k.dspreq)

\* Fault: the result of the last function replaces those before it.
WithReadyLast(k, r) == [k EXCEPT !.ready = r, !.dspreq = DispatchRequest(k.ready, r)]

WithReady(k, r) == [k EXCEPT !.ready = r, !.dspreq = @ \/ DispatchRequest(k.ready, r)]

-----------------------------------------------------------------------------
\* A task goes before the first of lower priority.
QueueInsertTpri(q, t, pri) ==
    LET i == SelectInSeq(q, LAMBDA u : pri[t] < pri[u])
    IN  IF i = 0 THEN Append(q, t) ELSE InsertAt(q, i, t)

\* wobj_queue_insert
QueueInsert(w, q, t, pri) == IF w \in TaTpri THEN QueueInsertTpri(q, t, pri) ELSE Append(q, t)

\* wobj_make_wait and wobj_make_wait_tmout, and the caller's dispatch
WobjMakeWait(w, timed) ==
    /\ wait_queue' = [wait_queue EXCEPT ![w] = QueueInsert(w, @, runtsk, priority)]
    /\ MakeWait({"WOBJ"}, timed)
    /\ UNCHANGED priority

MakeNonWaitK(k, t) ==
    IF "SUSPENDED" \in k.tstat[t]
    THEN [k EXCEPT !.tstat[t] = {"SUSPENDED"}]
    ELSE WithReady([k EXCEPT !.tstat[t] = {"RUNNABLE"}], MakeRunnable(k.ready, t, k.priority))

\* queue_delete on the queue t is linked in, seen from each queue
Unlinked(q, t) == IF Contains(q, t) THEN Delete(q, t) ELSE q

\* wait_dequeue_wobj and wait_dequeue_tmevtb
WaitDequeue(k, t) ==
    [k EXCEPT !.wait_queue = [w \in WQUEUE |-> Unlinked(@[w], t)], !.tmevt = @ \ {t}]

\* Fault: a task released before its turn stays in the wait queue.
WaitReleaseInQueue(k, t) == MakeNonWaitK([k EXCEPT !.tmevt = @ \ {t}], t)

\* wait_complete, wait_tmout and wait_release: t stops waiting.
WaitRelease(k, t) == MakeNonWaitK(WaitDequeue(k, t), t)

\* init_wait_queue: the tasks are released from the head of the queue on.
InitWaitQueue(k, w) ==
    LET q == k.wait_queue[w]
        released[n \in 0 .. Len(q)] ==
            IF n = 0 THEN k ELSE WaitRelease(released[n - 1], q[n])
    IN  released[Len(q)]

\* Fault: a waiting task keeps its place when its priority changes.
ChangePriorityInPlace(k, t, newpri, mtxmode) ==
    LET n == [k EXCEPT !.priority[t] = newpri]
    IN  IF "RUNNABLE" \in k.tstat[t]
        THEN WithReady(n, ChangePriority(k.ready, t, k.priority, newpri, mtxmode))
        ELSE n

\* change_priority for a task in any state
ChangePriorityK(k, t, newpri, mtxmode) ==
    LET n == [k EXCEPT !.priority[t] = newpri]
        reorder(w) == IF w \in TaTpri /\ Contains(k.wait_queue[w], t)
                      THEN QueueInsertTpri(Delete(k.wait_queue[w], t), t, n.priority)
                      ELSE k.wait_queue[w]
    IN  IF "RUNNABLE" \in k.tstat[t]
        THEN WithReady(n, ChangePriority(k.ready, t, k.priority, newpri, mtxmode))
        ELSE [n EXCEPT !.wait_queue = [w \in WQUEUE |-> reorder(w)]]

-----------------------------------------------------------------------------
\* The end of a task, in the steps of ext_tsk and ter_tsk

\* The task leaves the ready queue, or what it waits for.
LeaveQueues(k, t) ==
    IF "RUNNABLE" \in k.tstat[t]
    THEN [k EXCEPT !.ready = MakeNonRunnable(k.ready, t, k.priority)]
    ELSE IF "WAITING" \in k.tstat[t] THEN WaitDequeue(k, t) ELSE k

\* make_dormant, then make_active if actque is set
MakeDormantK(k, t) ==
    LET n == [k EXCEPT !.priority[t] = ipriority[t], !.tstat[t] = {}]
    IN  IF actque[t]
        THEN WithReady([n EXCEPT !.tstat[t] = {"RUNNABLE"}],
                       MakeRunnable(n.ready, t, n.priority))
        ELSE n

DormantFields(t) ==
    /\ actque' = [actque EXCEPT ![t] = FALSE]
    /\ bpriority' = [bpriority EXCEPT ![t] = ipriority[t]]
    /\ wupque' = [wupque EXCEPT ![t] = FALSE]
    /\ waifbd' = [waifbd EXCEPT ![t] = FALSE]
    /\ UNCHANGED <<exist, ipriority>>

\* The fields no wait operation writes
restVars == <<exist, ipriority, bpriority, actque, wupque, waifbd, modeVars>>

\* rel_wai, irel_wai and the timeout of a task in a wait queue
ReleaseQueued(t) ==
    /\ Queued(t)
    /\ Commit(WaitRelease(KState, t))
    /\ UNCHANGED restVars

RelWaiQueued(t)    == (TskCtxUnl \/ IntCtxUnl) /\ ReleaseQueued(t)
WaitTmoutQueued(t) == IntCtxUnl /\ t \in tmevt /\ ReleaseQueued(t)

\* ter_tsk and chg_pri where no task holds a mutex
TerTskQueued(t) ==
    /\ TskCtxUnl /\ t \in exist /\ t # runtsk /\ ~Dormant(t)
    /\ Commit(MakeDormantK(LeaveQueues(KState, t), t))
    /\ DormantFields(t)
    /\ UNCHANGED modeVars

ChgPriQueued(t, newbpri) ==
    /\ TskCtxUnl /\ t \in exist /\ ~Dormant(t)
    /\ newbpri >= MinPriority[runtsk]
    /\ bpriority' = [bpriority EXCEPT ![t] = newbpri]
    /\ Commit(ChangePriorityK(KState, t, newbpri, FALSE))
    /\ UNCHANGED <<exist, ipriority, actque, wupque, waifbd, modeVars>>

\* A task that waits in a queue is released, ended or given another priority.
WaitingTaskStep(t) ==
    \/ RelWaiQueued(t) \/ WaitTmoutQueued(t) \/ TerTskQueued(t)
    \/ \E p \in PRI : ChgPriQueued(t, p)

\* The operations of Scheduler that move tasks, or put off dispatching, while
\* tasks wait in queues; none of them touches a wait queue.
SchedulerStep ==
    \/ \E t \in TASK : ActTsk(t) \/ IactTsk(t) \/ SusTsk(t) \/ RsmTsk(t)
    \/ \E p \in PRI : RotRdq(p)
    \/ DisDsp \/ EnaDsp
    \/ IntEnter \/ IntExitNested \/ IntExit \/ IdleExit

-----------------------------------------------------------------------------
\* A task is in one wait queue if it waits for an object, else in none.
WaitQueuesMatch ==
    \A t \in TASK : LET at == {w \in WQUEUE : Contains(wait_queue[w], t)}
                    IN  /\ Cardinality(at) = IF Queued(t) THEN 1 ELSE 0
                        /\ \A w \in at : IsInjective(wait_queue[w])

\* The queues of attribute TA_TPRI stay in the order of priority, also when
\* the priority of a task that waits is changed.
WaitQueuesSorted ==
    \A w \in TaTpri : \A i, j \in DOMAIN wait_queue[w] :
        i < j => priority[wait_queue[w][i]] <= priority[wait_queue[w][j]]

\* The promises of the scheduler hold while tasks wait for objects, are served
\* several at a time, time out and are released.
WaitsConsistent ==
    ReadyQueueConsistent /\ DispatchIsPrompt /\ WaitQueuesMatch /\ WaitQueuesSorted
=============================================================================
