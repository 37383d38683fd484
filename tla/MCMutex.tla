------------------------------- MODULE MCMutex -------------------------------
(***************************************************************************)
(* A small instance of Mutex for TLC.                                       *)
(***************************************************************************)
EXTENDS Mutex

CONSTANTS t1, t2, t3, m1, m2, m3

\* Two tasks of a low priority and one of the highest
MCIniPriority == [t \in TASK |-> IF t = t1 THEN 0 ELSE 2]
MCMinPriority == [t \in TASK |-> 0]

\* Two ceiling mutexes, of which m3 is created at run time: the lower ceiling is still
\* above the base priority of a task that holds both and gives up the higher one.
MCCeilPri == (m1 :> 0) @@ (m3 :> 1)

\* Bound: three tasks share m1 and m2, with at most one queued activation or
\* suspended task and neither while dispatching is disabled, and with the initial base
\* priorities to choose from; or two tasks share m1 and m3.
SmallMutex ==
    IF m3 \in mtxexist
    THEN Dormant(t3) /\ loctsk[m2] = NoTask
    ELSE /\ \A t \in TASK : bpriority[t] # 1
         /\ Cardinality({t \in TASK : actque[t]}) + Cardinality({t \in TASK : Suspended(t)})
               + (IF disdsp THEN 1 ELSE 0) <= 1
=============================================================================
