-------------------------------- MODULE LossyLog --------------------------------
(***************************************************************************)
(* What the log buffer promises: a queue of at most SIZE entries that      *)
(* loses its oldest entry when another one comes in, and tells the reader  *)
(* how many were lost since it last read.                                  *)
(***************************************************************************)
EXTENDS Naturals, Sequences

CONSTANTS ENTRY, SIZE, Nothing

VARIABLES
    pending,        \* the entries that can still be read, oldest first
    missed,         \* the entries lost since the last one was read
    read            \* <<entry, lost>> of the last read, or Nothing

Init == pending = <<>> /\ missed = 0 /\ read = Nothing

Write(x) ==
    /\ IF Len(pending) < SIZE
       THEN pending' = Append(pending, x) /\ UNCHANGED missed
       ELSE pending' = Append(Tail(pending), x) /\ missed' = missed + 1
    /\ UNCHANGED read

Read ==
    /\ pending # <<>>
    /\ pending' = Tail(pending) /\ missed' = 0
    /\ read' = <<Head(pending), missed>>

Next == Read \/ \E x \in ENTRY : Write(x)

Spec == Init /\ [][Next]_<<pending, missed, read>>
=============================================================================
