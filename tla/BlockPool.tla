-------------------------------- MODULE BlockPool --------------------------------
(***************************************************************************)
(* The blocks of a fixed-size memory pool (kernel/mempfix.c).  The blocks  *)
(* below unused have been given out at least once: the next field of each  *)
(* is INDEX_ALLOC, or links it to the rest of the list of free blocks.     *)
(***************************************************************************)
EXTENDS Naturals, Sequences

CONSTANTS INDEX_NULL, INDEX_ALLOC

\* In the code they are ~0 and ~1, above every index.
ASSUME IndexAssumption ==
    INDEX_NULL \notin Nat /\ INDEX_ALLOC \notin Nat /\ INDEX_NULL # INDEX_ALLOC

Index(n) == 0 .. n - 1

Renewed(m, n) == [m EXCEPT !.fblkcnt = n, !.unused = 0, !.freelist = INDEX_NULL]

PoolType(n) == [fblkcnt : 0 .. n, unused : 0 .. n, freelist : Index(n) \cup {INDEX_NULL},
                next : [Index(n) -> Index(n) \cup {INDEX_NULL, INDEX_ALLOC}]]

\* The memory of a pool starts with zeroes.
NewPool(n) == [fblkcnt |-> n, unused |-> 0, freelist |-> INDEX_NULL,
               next |-> [b \in Index(n) |-> 0]]

\* Fault: the blocks are counted from one.
NextBlockFromOne(m) == IF m.freelist # INDEX_NULL THEN m.freelist ELSE m.unused + 1

NextBlock(m) == IF m.freelist # INDEX_NULL THEN m.freelist ELSE m.unused

\* Fault: a block of the free list is not marked as given out.
GetBlockUnmarked(m) ==
    IF m.freelist # INDEX_NULL
    THEN [m EXCEPT !.fblkcnt = @ - 1, !.freelist = m.next[m.freelist]]
    ELSE [m EXCEPT !.fblkcnt = @ - 1, !.unused = @ + 1, !.next[m.unused] = INDEX_ALLOC]

\* get_mpf_block, called when fblkcnt > 0
GetBlock(m) ==
    LET b == NextBlock(m)
        n == [m EXCEPT !.fblkcnt = @ - 1, !.next[b] = INDEX_ALLOC]
    IN  IF m.freelist # INDEX_NULL THEN [n EXCEPT !.freelist = m.next[b]]
        ELSE [n EXCEPT !.unused = @ + 1]

\* Fault: the next field of a block that has not been given out is trusted.
ReleasableByMark(m, b) == m.next[b] = INDEX_ALLOC

\* The check of rel_mpf that b has been given out
Releasable(m, b) == b < m.unused /\ m.next[b] = INDEX_ALLOC

\* rel_mpf when no task waits
RelBlock(m, b) == [m EXCEPT !.fblkcnt = @ + 1, !.next[b] = m.freelist, !.freelist = b]

-----------------------------------------------------------------------------
\* The sequences of different blocks
BlockSeq(n) == {s \in UNION {[1 .. k -> Index(n)] : k \in 0 .. n} :
                   \A i, j \in DOMAIN s : s[i] = s[j] => i = j}

\* s is the list of free blocks from freelist to INDEX_NULL.
IsFreeList(m, s) ==
    /\ m.freelist = IF s = <<>> THEN INDEX_NULL ELSE s[1]
    /\ \A i \in DOMAIN s : m.next[s[i]] = IF i = Len(s) THEN INDEX_NULL ELSE s[i + 1]

\* fblkcnt is the length of the free list and the blocks never given out; a
\* block given out once is either on the list or marked.
PoolOk(m, n) ==
    /\ m \in PoolType(n)
    /\ \E s \in BlockSeq(n) :
           /\ IsFreeList(m, s)
           /\ m.fblkcnt = Len(s) + n - m.unused
           /\ \A i \in DOMAIN s : s[i] < m.unused
           /\ \A b \in 0 .. m.unused - 1 :
                 m.next[b] = INDEX_ALLOC \/ \E i \in DOMAIN s : s[i] = b
=============================================================================
