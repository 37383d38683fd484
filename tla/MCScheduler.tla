----------------------------- MODULE MCScheduler -----------------------------
(***************************************************************************)
(* Small instances of Scheduler for TLC.                                   *)
(***************************************************************************)
EXTENDS Scheduler

CONSTANTS t1, t2, t3

\* Two tasks of one priority and one of a higher priority; the domain of t3
\* may not give out the highest priority.
MCIniPriority == [t \in TASK |-> IF t = t1 THEN 0 ELSE 1]
MCMinPriority == [t \in TASK |-> IF t = t3 THEN 1 ELSE 0]

\* Bound: at most one queued request or waifbd flag is set at a time.
OneRequest ==
    Cardinality({<<f, t>> \in {"act", "wup", "fbd"} \X TASK :
                    CASE f = "act" -> actque[t] [] f = "wup" -> wupque[t]
                      [] f = "fbd" -> waifbd[t]}) <= 1

\* Bound: t3 has the priority it is configured with, or t2 is not used.
TwoOfNewPriority == t3 \in exist => ipriority[t3] = IniPriority[t3] \/ Dormant(t2)

SmallScheduler == OneRequest /\ TwoOfNewPriority
=============================================================================
