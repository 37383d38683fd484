----------------------------- MODULE CountedResource -----------------------------
(***************************************************************************)
(* What semaphores and fixed-size memory pools promise.  An object has a   *)
(* number of units.  A task takes one if there is one, else it waits; a    *)
(* unit given back goes to the first waiting task, and only if there is    *)
(* none to the object.  So no task waits while there is a unit, and no     *)
(* unit is lost or doubled.                                                *)
(***************************************************************************)
EXTENDS Naturals, Sequences, SequencesExt

CONSTANTS OBJ, TASK,
          Most      \* units each object can hold

VARIABLES
    open,       \* the objects that exist
    level,      \* units each object has
    waiting,    \* the tasks waiting for a unit of each object
    served      \* <<object, task>> if the last call gave a unit to a task

rvars == <<open, level, waiting, served>>

ResourceInit ==
    /\ open \in SUBSET OBJ
    /\ level \in [OBJ -> Nat] /\ \A o \in OBJ : level[o] <= Most[o]
    /\ waiting = [o \in OBJ |-> <<>>]
    /\ served = <<>>

Take(o, t) ==
    /\ level[o] > 0
    /\ level' = [level EXCEPT ![o] = @ - 1]
    /\ served' = <<o, t>>
    /\ UNCHANGED waiting

Give(o) ==
    IF waiting[o] = <<>>
    THEN /\ level[o] < Most[o]
         /\ level' = [level EXCEPT ![o] = @ + 1]
         /\ served' = <<>> /\ UNCHANGED waiting
    ELSE /\ served' = <<o, Head(waiting[o])>>
         /\ waiting' = [waiting EXCEPT ![o] = Tail(@)]
         /\ UNCHANGED level

Await(o, i, t) ==
    /\ level[o] = 0
    /\ waiting' = [waiting EXCEPT ![o] = InsertAt(@, i, t)]
    /\ served' = <<>> /\ UNCHANGED level

GiveUp(o, i) ==
    /\ waiting' = [waiting EXCEPT ![o] = RemoveAt(@, i)]
    /\ served' = <<>> /\ UNCHANGED level

\* A task whose priority changes finds its new place.
Reorder(o, i, j) ==
    /\ waiting' = [waiting EXCEPT ![o] = InsertAt(RemoveAt(@, i), j, @[i])]
    /\ served' = <<>> /\ UNCHANGED level

Reset(o) ==
    /\ waiting' = [waiting EXCEPT ![o] = <<>>]
    /\ \E n \in 0 .. Most[o] : level' = [level EXCEPT ![o] = n]
    /\ served' = <<>>

ResourceStep(o) ==
    \/ Give(o) \/ Reset(o)
    \/ \E t \in TASK : Take(o, t) \/ \E i \in 1 .. Len(waiting[o]) + 1 : Await(o, i, t)
    \/ \E i, j \in 1 .. Len(waiting[o]) : GiveUp(o, i) \/ Reorder(o, i, j)

Pause == served' = <<>> /\ UNCHANGED <<level, waiting>>

Delete(o) == Reset(o) /\ open' = open \ {o}
Create(o) == Reset(o) /\ open' = open \cup {o}

ResourceNext ==
    \/ (Pause \/ \E o \in open : ResourceStep(o)) /\ UNCHANGED open
    \/ \E o \in OBJ : Delete(o) \/ Create(o)

ResourceSpec == ResourceInit /\ [][ResourceNext]_rvars
=============================================================================
