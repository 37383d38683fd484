-------------------------------- MODULE Semaphore --------------------------------
(***************************************************************************)
(* Semaphores (kernel/semaphore.c).                                        *)
(***************************************************************************)
EXTENDS WaitObject

CONSTANTS
    DynSem,         \* semaphores created at run time
    IsemCnt, MaxSem \* isemcnt and maxsem of each semaphore

SEM == WQUEUE       \* the one wait queue of each

SemAssumption ==
    /\ DynSem \subseteq SEM
    /\ MaxSem \in [SEM -> Nat \ {0}] /\ IsemCnt \in [SEM -> Nat]
    /\ \A s \in SEM : IsemCnt[s] <= MaxSem[s]

VARIABLES
    semexist,       \* semaphores whose sematr is not TA_NOEXS
    semcnt,
    semserved       \* <<semaphore, task>> if the last call gave a task a unit

semVars == <<semexist, semcnt, semserved, wait_queue>>
semAllVars == <<vars, semVars>>

-----------------------------------------------------------------------------
\* Fault: the maximum is passed by one.
SigSemPastMax(s) ==
    /\ TskCtxUnl \/ IntCtxUnl
    /\ s \in semexist
    /\ IF wait_queue[s] # <<>>
       THEN /\ Commit(WaitRelease(KState, Head(wait_queue[s])))
            /\ semserved' = <<s, Head(wait_queue[s])>>
            /\ UNCHANGED semcnt
       ELSE /\ semcnt[s] <= MaxSem[s]
            /\ semcnt' = [semcnt EXCEPT ![s] = @ + 1]
            /\ semserved' = <<>>
            /\ UNCHANGED <<vars, wait_queue>>
    /\ UNCHANGED <<restVars, semexist>>

\* Fault: the count is raised although the unit goes to a task.
SigSemCounts(s) ==
    /\ TskCtxUnl \/ IntCtxUnl
    /\ s \in semexist /\ semcnt[s] < MaxSem[s]
    /\ semcnt' = [semcnt EXCEPT ![s] = @ + 1]
    /\ IF wait_queue[s] # <<>>
       THEN /\ Commit(WaitRelease(KState, Head(wait_queue[s])))
            /\ semserved' = <<s, Head(wait_queue[s])>>
       ELSE semserved' = <<>> /\ UNCHANGED <<vars, wait_queue>>
    /\ UNCHANGED <<restVars, semexist>>

\* sig_sem, isig_sem; at maxsem they return E_QOVR.
SigSem(s) ==
    /\ TskCtxUnl \/ IntCtxUnl
    /\ s \in semexist
    /\ IF wait_queue[s] # <<>>
       THEN /\ Commit(WaitRelease(KState, Head(wait_queue[s])))
            /\ semserved' = <<s, Head(wait_queue[s])>>
            /\ UNCHANGED semcnt
       ELSE /\ semcnt[s] < MaxSem[s]
            /\ semcnt' = [semcnt EXCEPT ![s] = @ + 1]
            /\ semserved' = <<>>
            /\ UNCHANGED <<vars, wait_queue>>
    /\ UNCHANGED <<restVars, semexist>>

TakeUnit(s) ==
    /\ semcnt[s] >= 1
    /\ semcnt' = [semcnt EXCEPT ![s] = @ - 1]
    /\ semserved' = <<s, runtsk>>
    /\ UNCHANGED <<vars, wait_queue>>

PolSem(s) == TskCtxUnl /\ s \in semexist /\ TakeUnit(s) /\ UNCHANGED semexist

\* wai_sem, twai_sem
WaiSem(s, timed) ==
    /\ DispatchState /\ s \in semexist
    /\ \/ TakeUnit(s)
       \/ /\ semcnt[s] = 0 /\ ~waifbd[runtsk]
          /\ WobjMakeWait(s, timed)
          /\ semserved' = <<>>
          /\ UNCHANGED <<restVars, semcnt>>
    /\ UNCHANGED semexist

IniSem(s) ==
    /\ TskCtxUnl /\ s \in semexist
    /\ Commit(InitWaitQueue(KState, s))
    /\ semcnt' = [semcnt EXCEPT ![s] = IsemCnt[s]]
    /\ semserved' = <<>>
    /\ UNCHANGED <<restVars, semexist>>

DelSem(s) ==
    /\ TskCtxUnl /\ s \in semexist \cap DynSem
    /\ Commit(InitWaitQueue(KState, s))
    /\ semexist' = semexist \ {s}
    /\ semserved' = <<>>
    /\ UNCHANGED <<restVars, semcnt>>

AcreSem(s) ==
    /\ TskCtxUnl /\ s \in DynSem \ semexist
    /\ semexist' = semexist \cup {s}
    /\ semcnt' = [semcnt EXCEPT ![s] = IsemCnt[s]]
    /\ semserved' = <<>>
    /\ UNCHANGED <<vars, wait_queue>>

-----------------------------------------------------------------------------
SemInit ==
    /\ Init
    /\ semexist = SEM \ DynSem
    /\ semcnt = IsemCnt
    /\ semserved = <<>>
    /\ wait_queue = [s \in SEM |-> <<>>]

SemService(s) ==
    \/ SigSem(s) \/ PolSem(s) \/ IniSem(s) \/ DelSem(s) \/ AcreSem(s)
    \/ \E b \in BOOLEAN : WaiSem(s, b)

\* No call of another component touches a semaphore.
SemOtherStep ==
    /\ \/ \E t \in TASK : WaitingTaskStep(t)
       \/ (ExtTsk \/ SchedulerStep) /\ UNCHANGED wait_queue
    /\ semserved' = <<>>
    /\ UNCHANGED <<semexist, semcnt>>

SemNext == SemOtherStep \/ \E s \in SEM : SemService(s)

SemSpec == SemInit /\ [][SemNext]_semAllVars

-----------------------------------------------------------------------------
(***************************************************************************)
(* Properties                                                              *)
(***************************************************************************)

\* The type of the variables; semcnt never passes maxsem.
SemTypeOK ==
    /\ TypeOK
    /\ semexist \in SUBSET SEM
    /\ semcnt \in [SEM -> Nat] /\ \A s \in SEM : semcnt[s] <= MaxSem[s]
    /\ wait_queue \in [SEM -> Seq(TASK)]

SemResource == INSTANCE CountedResource WITH
    OBJ <- SEM, Most <- MaxSem,
    open <- semexist, level <- semcnt, waiting <- wait_queue, served <- semserved

\* A semaphore is a counted resource: sig_sem serves the first waiting task or
\* raises the count, never both, and no task waits while the count is not zero,
\* whatever timeouts, releases, changes of priority and ini_sem come between.
SemaphoresAreCounted == SemResource!ResourceSpec
=============================================================================
