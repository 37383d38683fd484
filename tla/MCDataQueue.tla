------------------------------ MODULE MCDataQueue ------------------------------
(***************************************************************************)
(* A small instance of DataQueue for TLC.                                   *)
(***************************************************************************)
EXTENDS DataQueue

CONSTANTS t1, t2, t3, d1, d2, d3, x1, x2

\* Two tasks of a low priority and one of a higher priority
MCIniPriority == [t \in TASK |-> IF t = t1 THEN 0 ELSE 1]
MCMinPriority == [t \in TASK |-> 0]

\* A data queue of two words; one of one word, created at run time, whose
\* senders wait by priority; and one without a buffer
MCCap == (d1 :> 2) @@ (d2 :> 1) @@ (d3 :> 0)
MCWQueue == {d1, d2, d3} \X {"snd", "rcv"}
MCTaTpri == {Snd(d2)}

\* No operation tells data apart.
DataSymmetry == Permutations(DATA)

Unused(d) ==
    dtqcb[d] = EmptyRing(Cap[d]) /\ wait_queue[Snd(d)] = <<>> /\ wait_queue[Rcv(d)] = <<>>

\* Bound: the tasks use one data queue at a time.
InUse(d) == ~Unused(d) \/ d \in DynDtq \cap dtqexist
OneInUse == \A d, e \in DTQ : InUse(d) /\ InUse(e) => d = e

\* Bound: at most one of these at a time: a suspended task, a task with a changed
\* priority, a queued activation or dispatching disabled; the last three when the
\* data queue used holds one datum at most.
OneDisturbance ==
    /\ Cardinality({t \in TASK : actque[t]}) + Cardinality({t \in TASK : Suspended(t)})
           + Cardinality({t \in TASK : bpriority[t] # ipriority[t]})
           + (IF disdsp THEN 1 ELSE 0) <= 1
    /\ InUse(d1) =>
           ~disdsp /\ \A t \in TASK : ~actque[t] /\ bpriority[t] = ipriority[t]

SmallDataQueue == OneInUse /\ OneDisturbance
=============================================================================
