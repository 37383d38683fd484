--------------------------------- MODULE MemPfix ---------------------------------
(***************************************************************************)
(* Fixed-size memory pools (kernel/mempfix.c).  The kernel does not say to *)
(* which task a block belongs; the history variable held does.             *)
(***************************************************************************)
EXTENDS WaitObject, BlockPool

CONSTANTS
    DynMpf,         \* pools created at run time
    BlkCnt          \* blkcnt of each pool

MPF == WQUEUE       \* the one wait queue of each

ASSUME MpfAssumption == DynMpf \subseteq MPF /\ BlkCnt \in [MPF -> Nat \ {0}]

VARIABLES
    mpfexist,       \* pools whose mpfatr is not TA_NOEXS
    mpfcb,          \* fblkcnt, unused, freelist and p_mpfmb
    held,           \* the blocks <<pool, index>> each task has got
    served          \* <<pool, task>> if the last call gave a task a block

mpfVars == <<mpfexist, mpfcb, held, served, wait_queue>>
mpfAllVars == <<vars, mpfVars>>

BlocksOf(p) == {p} \X Index(BlkCnt[p])

-----------------------------------------------------------------------------
TakeBlock(p) ==
    /\ mpfcb[p].fblkcnt > 0
    /\ mpfcb' = [mpfcb EXCEPT ![p] = GetBlock(@)]
    /\ held' = [held EXCEPT ![runtsk] = @ \cup {<<p, NextBlock(mpfcb[p])>>}]
    /\ served' = <<p, runtsk>>
    /\ UNCHANGED <<vars, wait_queue>>

PgetMpf(p) == TskCtxUnl /\ p \in mpfexist /\ TakeBlock(p) /\ UNCHANGED mpfexist

\* get_mpf, tget_mpf
GetMpf(p, timed) ==
    /\ DispatchState /\ p \in mpfexist
    /\ \/ TakeBlock(p)
       \/ /\ mpfcb[p].fblkcnt = 0 /\ ~waifbd[runtsk]
          /\ WobjMakeWait(p, timed)
          /\ served' = <<>>
          /\ UNCHANGED <<restVars, mpfcb, held>>
    /\ UNCHANGED mpfexist

HeldWithout(x) == [t \in TASK |-> held[t] \ {x}]

\* Fault: the block goes to the free list and to the waiting task.
RelMpfTwice(p, b) ==
    /\ TskCtxUnl /\ p \in mpfexist /\ Releasable(mpfcb[p], b)
    /\ mpfcb' = [mpfcb EXCEPT ![p] = RelBlock(@, b)]
    /\ IF wait_queue[p] # <<>>
       THEN LET t == Head(wait_queue[p])
            IN  /\ held' = [HeldWithout(<<p, b>>) EXCEPT ![t] = @ \cup {<<p, b>>}]
                /\ Commit(WaitRelease(KState, t))
                /\ served' = <<p, t>>
       ELSE /\ held' = HeldWithout(<<p, b>>)
            /\ served' = <<>>
            /\ UNCHANGED <<vars, wait_queue>>
    /\ UNCHANGED <<restVars, mpfexist>>

\* rel_mpf of a block that any task has got; of others it returns E_PAR.
RelMpf(p, b) ==
    /\ TskCtxUnl /\ p \in mpfexist /\ Releasable(mpfcb[p], b)
    /\ IF wait_queue[p] # <<>>
       THEN LET t == Head(wait_queue[p])
            IN  /\ held' = [HeldWithout(<<p, b>>) EXCEPT ![t] = @ \cup {<<p, b>>}]
                /\ Commit(WaitRelease(KState, t))
                /\ served' = <<p, t>>
                /\ UNCHANGED mpfcb
       ELSE /\ mpfcb' = [mpfcb EXCEPT ![p] = RelBlock(@, b)]
            /\ held' = HeldWithout(<<p, b>>)
            /\ served' = <<>>
            /\ UNCHANGED <<vars, wait_queue>>
    /\ UNCHANGED <<restVars, mpfexist>>

\* The waiting tasks are released with E_DLT; what tasks hold is lost to them.
Cleared(p) ==
    /\ Commit(InitWaitQueue(KState, p))
    /\ held' = [t \in TASK |-> held[t] \ BlocksOf(p)]
    /\ served' = <<>>
    /\ UNCHANGED restVars

IniMpf(p) ==
    /\ TskCtxUnl /\ p \in mpfexist
    /\ Cleared(p)
    /\ mpfcb' = [mpfcb EXCEPT ![p] = Renewed(@, BlkCnt[p])]
    /\ UNCHANGED mpfexist

DelMpf(p) ==
    /\ TskCtxUnl /\ p \in mpfexist \cap DynMpf
    /\ Cleared(p)
    /\ mpfexist' = mpfexist \ {p}
    /\ UNCHANGED mpfcb

\* Fault: the free list of the deleted pool is kept.
AcreMpfKeepsList(p) ==
    /\ TskCtxUnl /\ p \in DynMpf \ mpfexist
    /\ mpfexist' = mpfexist \cup {p}
    /\ mpfcb' = [mpfcb EXCEPT ![p].fblkcnt = BlkCnt[p], ![p].unused = 0]
    /\ served' = <<>>
    /\ UNCHANGED <<vars, wait_queue, held>>

AcreMpf(p) ==
    /\ TskCtxUnl /\ p \in DynMpf \ mpfexist
    /\ mpfexist' = mpfexist \cup {p}
    /\ mpfcb' = [mpfcb EXCEPT ![p] = Renewed(@, BlkCnt[p])]
    /\ served' = <<>>
    /\ UNCHANGED <<vars, wait_queue, held>>

-----------------------------------------------------------------------------
MpfInit ==
    /\ Init
    /\ mpfexist = MPF \ DynMpf
    /\ mpfcb = [p \in MPF |-> NewPool(BlkCnt[p])]
    /\ held = [t \in TASK |-> {}]
    /\ served = <<>>
    /\ wait_queue = [p \in MPF |-> <<>>]

MpfService(p) ==
    \/ PgetMpf(p) \/ IniMpf(p) \/ DelMpf(p) \/ AcreMpf(p)
    \/ \E timed \in BOOLEAN : GetMpf(p, timed)
    \/ \E b \in Index(BlkCnt[p]) : RelMpf(p, b)

\* No call of another component touches a pool; a task that ends keeps its blocks.
MpfOtherStep ==
    /\ \/ \E t \in TASK : WaitingTaskStep(t)
       \/ (ExtTsk \/ SchedulerStep) /\ UNCHANGED wait_queue
    /\ served' = <<>>
    /\ UNCHANGED <<mpfexist, mpfcb, held>>

MpfNext == MpfOtherStep \/ \E p \in MPF : MpfService(p)

MpfSpec == MpfInit /\ [][MpfNext]_mpfAllVars

-----------------------------------------------------------------------------
(***************************************************************************)
(* Properties                                                              *)
(***************************************************************************)

\* The type of the variables of this module.
MpfTypeOK ==
    /\ TypeOK
    /\ mpfexist \in SUBSET MPF
    /\ held \in [TASK -> SUBSET UNION {BlocksOf(p) : p \in MPF}]
    /\ wait_queue \in [MPF -> Seq(TASK)]

\* In every pool the free list ends, no block is on it twice or given out while
\* on it, and fblkcnt counts the blocks that get_mpf_block can still find.
PoolsConsistent == \A p \in MPF : PoolOk(mpfcb[p], BlkCnt[p])

\* A block that a task has got is its alone, and marked as given out: rel_mpf
\* will take it back from it once.
OneOwner ==
    /\ \A t, u \in TASK : t # u => held[t] \cap held[u] = {}
    /\ \A t \in TASK : \A x \in held[t] : Releasable(mpfcb[x[1]], x[2])

FreeBlocks(p) == BlocksOf(p) \ UNION {held[t] : t \in TASK}

MpfResource == INSTANCE CountedResource WITH
    OBJ <- MPF, Most <- BlkCnt, open <- mpfexist,
    level <- [p \in MPF |-> Cardinality(FreeBlocks(p))], waiting <- wait_queue

\* A pool is a counted resource whose units are the blocks no task has got:
\* a block given back goes to the first waiting task or is free, no block is
\* ever lost, and no task waits while one is free.
PoolsAreCounted == MpfResource!ResourceSpec
=============================================================================
