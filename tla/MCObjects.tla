------------------------------- MODULE MCObjects -------------------------------
(***************************************************************************)
(* Pools, semaphores and event flags side by side.                         *)
(*                                                                         *)
(* Objects meet each other in the tasks only, and a task waits for one of  *)
(* them at a time.  So the objects in use are those of one module; part    *)
(* says of which.  TLC explores all of them, from one initial state each.  *)
(***************************************************************************)
EXTENDS MemPfix, Semaphore, EventFlag

CONSTANTS T1, T2, T3, Q1, Q2, Q3, B1, B2    \* names for the cfg

VARIABLE part       \* the module explored, which no step changes

\* Two tasks of a low priority and one of a higher priority
MCIniPriority == (T1 :> 0) @@ (T2 :> 1) @@ (T3 :> 1)
MCMinPriority == (T1 :> 0) @@ (T2 :> 0) @@ (T3 :> 0)

\* Q2 is created at run time, and its tasks wait by priority.  As pools Q1 has three
\* blocks and Q2 two; as semaphores Q1 counts up to two and Q2 is binary; as event
\* flags Q1 has the attributes TA_WMUL and TA_CLR, Q2 TA_WMUL, and Q3 none.
MCBlkCnt  == (Q1 :> 3) @@ (Q2 :> 2) @@ (Q3 :> 1)
MCMaxSem  == (Q1 :> 2) @@ (Q2 :> 1) @@ (Q3 :> 1)
MCIsemCnt == (Q1 :> 1) @@ (Q2 :> 0) @@ (Q3 :> 0)
MCIflgPtn == (Q1 :> {}) @@ (Q2 :> {}) @@ (Q3 :> {})

ASSUME ObjectsAssumption == SemAssumption /\ FlgAssumption

-----------------------------------------------------------------------------
\* Modules that are not explored stay as they are.
mpfOnly == <<mpfexist, mpfcb, held, served>>
semOnly == <<semexist, semcnt, semserved>>
flgOnly == <<flgexist, flgptn, winfo, got>>

NoMpf ==
    /\ mpfexist = MPF \ DynMpf /\ mpfcb = [p \in MPF |-> NewPool(BlkCnt[p])]
    /\ held = [t \in TASK |-> {}] /\ served = <<>>
NoSem == semexist = {} /\ semcnt = <<>> /\ semserved = <<>>
NoFlg == flgexist = {} /\ flgptn = <<>> /\ winfo = <<>> /\ got = {}

MCInit ==
    \/ part = "mpf" /\ MpfInit /\ NoSem /\ NoFlg
    \/ part = "sem" /\ SemInit /\ NoMpf /\ NoFlg
    \/ part = "flg" /\ FlgInit /\ NoMpf /\ NoSem

StepOfPools == part = "mpf" /\ MpfNext /\ UNCHANGED <<part, semOnly, flgOnly>>
StepOfSemaphores == part = "sem" /\ SemNext /\ UNCHANGED <<part, mpfOnly, flgOnly>>
StepOfFlags == part = "flg" /\ FlgNext /\ UNCHANGED <<part, mpfOnly, semOnly>>

MCNext == StepOfPools \/ StepOfSemaphores \/ StepOfFlags

MCSpec == MCInit /\ [][MCNext]_<<mpfAllVars, part, semOnly, flgOnly>>

-----------------------------------------------------------------------------
Disturbances ==
    Cardinality({t \in TASK : actque[t]}) + Cardinality({t \in TASK : Suspended(t)})
        + Cardinality({t \in TASK : bpriority[t] # ipriority[t]})
        + (IF disdsp THEN 1 ELSE 0)

UnusedFlg(f) == flgptn[f] = {} /\ wait_queue[f] = <<>> /\ (f \in DynFlg => f \notin flgexist)
UnusedMpf(p) == mpfcb[p] = NewPool(BlkCnt[p]) /\ wait_queue[p] = <<>>
UnusedSem(s) == semcnt[s] = IsemCnt[s] /\ wait_queue[s] = <<>>

\* Bound: at most one of these at a time: a queued activation, a suspended task, a
\* task with a changed priority, dispatching disabled; for event flags only the
\* changed priority.  The tasks use one pool, and only two of them use Q1; they
\* use one event flag.  Only event flags use Q3.
SmallObjects ==
    /\ Disturbances <= 1
    /\ part = "mpf" => /\ UnusedMpf(Q3)
                       /\ UnusedMpf(Q1) \/ (UnusedMpf(Q2) /\ Q2 \notin mpfexist /\ Dormant(T3))
    /\ part = "sem" => UnusedSem(Q3)
    /\ part = "flg" => /\ \E f \in FLG : \A g \in FLG \ {f} : UnusedFlg(g)
                       /\ Disturbances = Cardinality({t \in TASK : bpriority[t] # ipriority[t]})

\* No operation tells bits apart.
BitSymmetry == Permutations({B1, B2})

-----------------------------------------------------------------------------
(***************************************************************************)
(* Properties                                                              *)
(***************************************************************************)

\* The variables keep their types, and the scheduler its promises, while tasks
\* wait for blocks, units and bits.  No task waits for a condition that the pattern
\* of an event flag meets, nor a second one on a flag without TA_WMUL.
ObjectsConsistent ==
    /\ part = "mpf" => MpfTypeOK /\ WaitsConsistent
    /\ part = "sem" => SemTypeOK /\ WaitsConsistent
    /\ part = "flg" => FlagsConsistent

\* PoolsAreCounted of MemPfix and SemaphoresAreCounted of Semaphore: a unit or block
\* given back serves the first waiting task or is free, never both; none is lost, and
\* no task waits while one is free.
AreCountedResources ==
    /\ part = "mpf" => MpfResource!ResourceInit
    /\ [][part = "mpf" => MpfResource!ResourceNext]_mpfVars
    /\ part = "sem" => SemResource!ResourceInit
    /\ [][part = "sem" => SemResource!ResourceNext]_<<semOnly, wait_queue>>

\* ServedInTurn of EventFlag: set_flg ends the waits whose condition is met, and the
\* bits of a TA_CLR flag are seen by the first of these tasks only.
FlagsServeInTurn == [][part = "flg" => ServesInTurn]_<<flgOnly, wait_queue>>
=============================================================================
