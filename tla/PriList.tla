--------------------------------- MODULE PriList ---------------------------------
(***************************************************************************)
(* The memory of a priority data queue: enqueue_pridata and                *)
(* dequeue_pridata of kernel/pridataq.c as operators on its control block. *)
(* Each node holds a datum with its priority and is linked into the list   *)
(* of data, from p_head, or the list of free nodes, from p_freelist; the   *)
(* nodes from unused on have not been used yet.                            *)
(***************************************************************************)
EXTENDS Naturals, Sequences, SequencesExt

CONSTANTS Null, NoItem

\* An item is <<data, datapri>>.
PriOf(x) == x[2]

\* acre_pdq and ini_pdq reset the control block and leave the nodes.
EmptiedList(q) == [q EXCEPT !.count = 0, !.head = Null, !.unused = 0, !.freelist = Null]

EmptyList(pdqcnt) ==
    [count |-> 0, head |-> Null, unused |-> 0, freelist |-> Null,
     next |-> [b \in 0 .. pdqcnt - 1 |-> Null], item |-> [b \in 0 .. pdqcnt - 1 |-> NoItem]]

\* The nodes from b to the end of the list, at most pdqcnt of them
Nodes(q, pdqcnt, b) ==
    LET node[i \in 0 .. pdqcnt] == IF i = 0 THEN b
                                   ELSE IF node[i - 1] = Null THEN Null ELSE q.next[node[i - 1]]
    IN  SelectSeq([i \in 1 .. pdqcnt |-> node[i - 1]], LAMBDA x : x # Null)

Items(q, pdqcnt) ==
    LET s == Nodes(q, pdqcnt, q.head) IN [i \in DOMAIN s |-> q.item[s[i]]]

TakeNode(q) ==
    IF q.freelist # Null THEN [q EXCEPT !.freelist = q.next[q.freelist]]
    ELSE [q EXCEPT !.unused = @ + 1]

\* Fault: an item goes before those of its own priority.
GoesBeforeEqual(x, y) == PriOf(x) <= PriOf(y)

GoesBefore(x, y) == PriOf(x) < PriOf(y)

\* The item goes before the first that has a lower priority.
EnqueuePridata(q, pdqcnt, x) ==
    LET b == IF q.freelist # Null THEN q.freelist ELSE q.unused
        s == Nodes(q, pdqcnt, q.head)
        i == SelectInSeq(s, LAMBDA c : GoesBefore(x, q.item[c]))
        before == IF i = 0 THEN s ELSE SubSeq(s, 1, i - 1)
        after == IF i = 0 THEN Null ELSE s[i]
        r == [TakeNode(q) EXCEPT !.item[b] = x, !.next[b] = after, !.count = @ + 1]
    IN  IF before = <<>> THEN [r EXCEPT !.head = b] ELSE [r EXCEPT !.next[Last(before)] = b]

FirstItem(q) == q.item[q.head]

\* Fault: the node taken out is not linked to the free ones.
DequeueLosesFree(q) ==
    [q EXCEPT !.head = q.next[q.head], !.count = @ - 1,
              !.next[q.head] = Null, !.freelist = q.head]

DequeuePridata(q) ==
    [q EXCEPT !.head = q.next[q.head], !.count = @ - 1,
              !.next[q.head] = q.freelist, !.freelist = q.head]

-----------------------------------------------------------------------------
\* Every node below unused is on one of the two lists, once; count is the
\* length of the list of data, which is in the order of priority.
ListOk(q, pdqcnt) ==
    LET data == Nodes(q, pdqcnt, q.head)
        free == Nodes(q, pdqcnt, q.freelist)
    IN  /\ q.unused \in 0 .. pdqcnt
        /\ q.count = Len(data) /\ Len(data) + Len(free) = q.unused
        /\ IsInjective(data \o free)
        /\ ToSet(data \o free) = 0 .. q.unused - 1
        /\ \A i, j \in DOMAIN data :
               i < j => PriOf(q.item[data[i]]) <= PriOf(q.item[data[j]])
=============================================================================
