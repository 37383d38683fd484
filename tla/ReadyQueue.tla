------------------------------ MODULE ReadyQueue ------------------------------
(***************************************************************************)
(* The ready queue of the HRP2 kernel (kernel/task.c): one FIFO of tasks   *)
(* per priority, the bitmap of the priorities whose FIFO is not empty, and *)
(* the cached pointer to the task of highest precedence.                   *)
(*                                                                         *)
(* The C functions update the three globals ready_queue, ready_primap and  *)
(* p_schedtsk in place; here they are the three fields of a record r, and  *)
(* each function is an operator from the record before to the record       *)
(* after.  pri is the TCB's priority field for every task.  Priorities are *)
(* internal ones: 0 is the highest.                                        *)
(***************************************************************************)
EXTENDS Integers, Sequences, SequencesExt

CONSTANTS
    TASK,       \* the entries of tcb_table
    NoTask,     \* the NULL pointer
    TNUM_TPRI   \* number of task priorities

ASSUME NoTaskAssumption == NoTask \notin TASK
ASSUME TnumTpriAssumption == TNUM_TPRI \in Nat \ {0}

PRI == 0 .. TNUM_TPRI - 1

ReadyType == [queue : [PRI -> Seq(TASK)], primap : SUBSET PRI,
              schedtsk : TASK \cup {NoTask}]

EmptyReady == [queue |-> [p \in PRI |-> <<>>], primap |-> {}, schedtsk |-> NoTask]

-----------------------------------------------------------------------------
\* queue_delete: the task is taken out of the queue it is linked in.
Delete(s, t) == RemoveAt(s, CHOOSE i \in 1 .. Len(s) : s[i] = t)

\* The lowest bit set in ready_primap gives the queue, its first entry the task.
SearchSchedtsk(queue, primap) ==
    Head(queue[CHOOSE p \in primap : \A q \in primap : p <= q])

\* Fault: the bit is cleared although other tasks are left in the queue.
PrimapAlwaysCleared(primap, queue, p) == primap \ {p}

\* ready_primap after a task has left the queue of priority p.
PrimapWithout(primap, queue, p) == IF queue[p] = <<>> THEN primap \ {p} ELSE primap

Preempts(r, t, pri) == r.schedtsk = NoTask \/ pri[t] < pri[r.schedtsk]

\* Fault: the task is put at the head of its queue.
MakeRunnableAtHead(r, t, pri) ==
    [queue    |-> [r.queue EXCEPT ![pri[t]] = <<t>> \o @],
     primap   |-> r.primap \cup {pri[t]},
     schedtsk |-> IF r.schedtsk = NoTask \/ pri[t] <= pri[r.schedtsk] THEN t ELSE r.schedtsk]

MakeRunnable(r, t, pri) ==
    [queue    |-> [r.queue EXCEPT ![pri[t]] = Append(@, t)],
     primap   |-> r.primap \cup {pri[t]},
     schedtsk |-> IF Preempts(r, t, pri) THEN t ELSE r.schedtsk]

\* A task that is not the scheduled one leaves without changing p_schedtsk;
\* the scheduled one is followed by the next of its queue, else by a search.
MakeNonRunnable(r, t, pri) ==
    LET queue  == [r.queue EXCEPT ![pri[t]] = Delete(@, t)]
        primap == PrimapWithout(r.primap, queue, pri[t])
    IN  [queue |-> queue, primap |-> primap,
         schedtsk |-> IF r.schedtsk # t THEN r.schedtsk
                      ELSE IF queue[pri[t]] # <<>> THEN Head(queue[pri[t]])
                      ELSE IF primap = {} THEN NoTask
                      ELSE SearchSchedtsk(queue, primap)]

\* Fault: no search for another task when the priority stays the same.
ChangePriorityOffByOne(r, t, pri, newpri, mtxmode) ==
    LET left   == [r.queue EXCEPT ![pri[t]] = Delete(@, t)]
        queue  == [left EXCEPT ![newpri] = IF mtxmode THEN <<t>> \o @ ELSE Append(@, t)]
        primap == PrimapWithout(r.primap, left, pri[t]) \cup {newpri}
    IN  [queue |-> queue, primap |-> primap,
         schedtsk |-> IF r.schedtsk = t
                      THEN IF newpri > pri[t] THEN SearchSchedtsk(queue, primap) ELSE t
                      ELSE IF newpri < pri[r.schedtsk] THEN t ELSE r.schedtsk]

\* The part of change_priority for a task in the ready queue: mtxmode puts it
\* at the head of its new queue, otherwise it goes to the tail.
ChangePriority(r, t, pri, newpri, mtxmode) ==
    LET oldpri == pri[t]
        left   == [r.queue EXCEPT ![oldpri] = Delete(@, t)]
        queue  == [left EXCEPT ![newpri] = IF mtxmode THEN <<t>> \o @ ELSE Append(@, t)]
        primap == PrimapWithout(r.primap, left, oldpri) \cup {newpri}
        ahead  == \/ newpri < pri[r.schedtsk]
                  \/ mtxmode /\ newpri = pri[r.schedtsk]
    IN  [queue |-> queue, primap |-> primap,
         schedtsk |-> IF r.schedtsk = t
                      THEN IF newpri >= oldpri THEN SearchSchedtsk(queue, primap) ELSE t
                      ELSE IF ahead THEN t ELSE r.schedtsk]

RotateReadyQueue(r, p) ==
    LET q == r.queue[p]
        rotated == Append(Tail(q), Head(q))
    IN  IF Len(q) < 2 THEN r
        ELSE [r EXCEPT !.queue[p] = rotated,
                       !.schedtsk = IF @ = Head(q) THEN Head(rotated) ELSE @]

\* Each of the functions above returns true when it has made another task
\* p_schedtsk and dspflg allows dispatching; after is its result on before.
DispatchRequest(before, after) == after.schedtsk # before.schedtsk

-----------------------------------------------------------------------------
(***************************************************************************)
(* What the functions keep true of r, when runnable is the set of the      *)
(* tasks in the RUNNABLE state.                                            *)
(***************************************************************************)

\* s lists the elements of S, each once.
Enumerates(s, S) ==
    /\ \A i \in 1 .. Len(s) : s[i] \in S
    /\ \A i, j \in 1 .. Len(s) : s[i] = s[j] => i = j
    /\ \A t \in S : \E i \in 1 .. Len(s) : s[i] = t

\* The queues hold exactly the runnable tasks, each once and at its priority.
QueuesMatch(r, runnable, pri) ==
    \A p \in PRI : Enumerates(r.queue[p], {t \in runnable : pri[t] = p})

\* The bitmap caches which queues are not empty.
PrimapMatches(r) == r.primap = {p \in PRI : r.queue[p] # <<>>}

\* p_schedtsk caches the head of the first queue that is not empty.
SchedtskIsHighest(r, pri) ==
    IF r.schedtsk = NoTask THEN r.primap = {}
    ELSE LET p == pri[r.schedtsk]
         IN  /\ r.queue[p] # <<>> /\ Head(r.queue[p]) = r.schedtsk
             /\ \A q \in r.primap : p <= q
=============================================================================
