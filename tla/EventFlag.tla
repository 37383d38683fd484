-------------------------------- MODULE EventFlag --------------------------------
(***************************************************************************)
(* Event flags (kernel/eventflag.c).  A pattern is the set of its bits.    *)
(***************************************************************************)
EXTENDS WaitObject

CONSTANTS
    BITS,
    DynFlg,         \* event flags created at run time
    IflgPtn,        \* iflgptn of each
    TaWmul, TaClr   \* those of attribute TA_WMUL, TA_CLR

FLG == WQUEUE       \* the one wait queue of each

FlgAssumption ==
    /\ DynFlg \subseteq FLG /\ TaWmul \subseteq FLG /\ TaClr \subseteq FLG
    /\ IflgPtn \in [FLG -> SUBSET BITS]

\* What a task waits for: waiptn, never empty, and wfmode
COND   == [waiptn : (SUBSET BITS) \ {{}}, wfmode : {"ORW", "ANDW"}]
NoCond == [waiptn |-> {}, wfmode |-> "ORW"]

VARIABLES
    flgexist,       \* event flags whose flgatr is not TA_NOEXS
    flgptn,
    winfo,          \* waiptn and wfmode of the WINFO_FLG of each waiting task
    got             \* <<task, pattern>> for each task the last call served

flgVars == <<flgexist, flgptn, winfo, got, wait_queue>>
flgAllVars == <<vars, flgVars>>

FState == [ready |-> ready, tstat |-> tstat, priority |-> priority, tmevt |-> tmevt,
           wait_queue |-> wait_queue, dspreq |-> FALSE,
           flgptn |-> flgptn, got |-> {}, served |-> FALSE]

\* The WINFO_FLG is on the stack of the task: it is gone when the wait ends.
WinfoScope(asked) ==
    winfo' = [t \in TASK |-> IF \E f \in FLG : Contains(wait_queue'[f], t) THEN asked[t]
                             ELSE NoCond]

FCommit(k) ==
    /\ Commit(k) /\ flgptn' = k.flgptn /\ got' = k.got
    /\ WinfoScope(winfo)

NothingSet == UNCHANGED <<flgexist, flgptn>> /\ got' = {}

-----------------------------------------------------------------------------
\* The condition of check_flg_cond
Met(ptn, c) ==
    IF c.wfmode = "ORW" THEN ptn \cap c.waiptn # {} ELSE c.waiptn \subseteq ptn

\* The pattern once check_flg_cond has returned true
LeftOver(f, ptn) == IF f \in TaClr THEN {} ELSE ptn

-----------------------------------------------------------------------------
\* Fault: the walk ends at the first task that has to go on waiting.
ServeFirstOnly(k, f, t) ==
    IF k.served \/ ~Met(k.flgptn[f], winfo[t]) THEN [k EXCEPT !.served = TRUE]
    ELSE WaitRelease([k EXCEPT !.got = @ \cup {<<t, k.flgptn[f]>>},
                               !.flgptn[f] = LeftOver(f, @),
                               !.served = f \in TaClr], t)

\* Fault: the last task that is met is served instead of the first.
ServeLast(k, f, t) ==
    IF ~Met(k.flgptn[f], winfo[t])
       \/ (f \in TaClr /\ \E i, j \in DOMAIN wait_queue[f] :
              /\ i < j /\ wait_queue[f][i] = t
              /\ Met(k.flgptn[f], winfo[wait_queue[f][j]]))
    THEN k
    ELSE WaitRelease([k EXCEPT !.got = @ \cup {<<t, k.flgptn[f]>>},
                               !.flgptn[f] = LeftOver(f, @)], t)

\* One turn of the loop of set_flg; served says that it has ended.
Serve(k, f, t) ==
    IF k.served \/ ~Met(k.flgptn[f], winfo[t]) THEN k
    ELSE WaitRelease([k EXCEPT !.got = @ \cup {<<t, k.flgptn[f]>>},
                               !.flgptn[f] = LeftOver(f, @),
                               !.served = f \in TaClr], t)

\* The loop of set_flg along the queue of waiting tasks
ServeQueue(k, f) ==
    LET q == k.wait_queue[f]
        turn[n \in 0 .. Len(q)] == IF n = 0 THEN k ELSE Serve(turn[n - 1], f, q[n])
    IN  turn[Len(q)]

\* set_flg, iset_flg
SetFlg(f, setptn) ==
    /\ TskCtxUnl \/ IntCtxUnl
    /\ f \in flgexist
    /\ FCommit(ServeQueue([FState EXCEPT !.flgptn[f] = @ \cup setptn], f))
    /\ UNCHANGED <<restVars, flgexist>>

ClrFlg(f, clrptn) ==
    /\ TskCtxUnl /\ f \in flgexist
    /\ flgptn' = [flgptn EXCEPT ![f] = @ \cap clrptn]
    /\ got' = {}
    /\ UNCHANGED <<vars, flgexist, winfo, wait_queue>>

\* Fault: tasks are let in whether there is one waiting or not.
MayAskAlways(f) == f \in flgexist

\* Without TA_WMUL the calls return E_ILUSE when a task is waiting.
MayAsk(f) == f \in flgexist /\ (f \in TaWmul \/ wait_queue[f] = <<>>)

TakePattern(f, c) ==
    /\ Met(flgptn[f], c)
    /\ flgptn' = [flgptn EXCEPT ![f] = LeftOver(f, @)]
    /\ got' = {<<runtsk, flgptn[f]>>}
    /\ UNCHANGED <<vars, flgexist, winfo, wait_queue>>

PolFlg(f, c) == TskCtxUnl /\ MayAsk(f) /\ TakePattern(f, c)

\* Fault: what the task waits for is not left for set_flg.
WaiFlgNoCond(f, c, timed) ==
    /\ DispatchState /\ MayAsk(f)
    /\ \/ TakePattern(f, c)
       \/ /\ ~Met(flgptn[f], c) /\ ~waifbd[runtsk]
          /\ WobjMakeWait(f, timed)
          /\ WinfoScope(winfo)
          /\ NothingSet
          /\ UNCHANGED restVars

\* wai_flg, twai_flg
WaiFlg(f, c, timed) ==
    /\ DispatchState /\ MayAsk(f)
    /\ \/ TakePattern(f, c)
       \/ /\ ~Met(flgptn[f], c) /\ ~waifbd[runtsk]
          /\ WobjMakeWait(f, timed)
          /\ WinfoScope([winfo EXCEPT ![runtsk] = c])
          /\ NothingSet
          /\ UNCHANGED restVars

IniFlg(f) ==
    /\ TskCtxUnl /\ f \in flgexist
    /\ FCommit([InitWaitQueue(FState, f) EXCEPT !.flgptn[f] = IflgPtn[f]])
    /\ UNCHANGED <<restVars, flgexist>>

DelFlg(f) ==
    /\ TskCtxUnl /\ f \in flgexist \cap DynFlg
    /\ FCommit(InitWaitQueue(FState, f))
    /\ flgexist' = flgexist \ {f}
    /\ UNCHANGED restVars

AcreFlg(f) ==
    /\ TskCtxUnl /\ f \in DynFlg \ flgexist
    /\ flgexist' = flgexist \cup {f}
    /\ flgptn' = [flgptn EXCEPT ![f] = IflgPtn[f]]
    /\ got' = {}
    /\ UNCHANGED <<vars, wait_queue, winfo>>

-----------------------------------------------------------------------------
FlgInit ==
    /\ Init
    /\ flgexist = FLG \ DynFlg
    /\ flgptn = IflgPtn
    /\ winfo = [t \in TASK |-> NoCond]
    /\ got = {}
    /\ wait_queue = [f \in FLG |-> <<>>]

FlgService(f) ==
    \/ \E p \in SUBSET BITS : SetFlg(f, p) \/ ClrFlg(f, p)
    \/ \E c \in COND : PolFlg(f, c) \/ \E timed \in BOOLEAN : WaiFlg(f, c, timed)
    \/ IniFlg(f) \/ DelFlg(f) \/ AcreFlg(f)

FlgOtherStep ==
    /\ \/ \E t \in TASK : WaitingTaskStep(t)
       \/ (ExtTsk \/ SchedulerStep) /\ UNCHANGED wait_queue
    /\ WinfoScope(winfo) /\ NothingSet

FlgNext == FlgOtherStep \/ \E f \in FLG : FlgService(f)

FlgSpec == FlgInit /\ [][FlgNext]_flgAllVars

-----------------------------------------------------------------------------
(***************************************************************************)
(* Properties                                                              *)
(***************************************************************************)

\* The type of the variables of this module.
FlgTypeOK ==
    /\ TypeOK
    /\ flgexist \in SUBSET FLG /\ flgptn \in [FLG -> SUBSET BITS]
    /\ \A t \in TASK : winfo[t] \in COND <=> \E f \in FLG : Contains(wait_queue[f], t)
    /\ wait_queue \in [FLG -> Seq(TASK)]

\* No task waits for a condition that the pattern meets, through all ways in
\* which bits are set, cleared by a wait or by clr_flg, and set anew; nobody
\* waits for an event flag that has been deleted.
NobodyWaitsMet ==
    \A f \in FLG : \A i \in DOMAIN wait_queue[f] :
        f \in flgexist /\ ~Met(flgptn[f], winfo[wait_queue[f][i]])

\* Without TA_WMUL no second task waits, whoever it is that comes.
OneWaits == \A f \in FLG \ TaWmul : Len(wait_queue[f]) <= 1

\* What event flags promise, with what the scheduler promises.
FlagsConsistent == FlgTypeOK /\ WaitsConsistent /\ NobodyWaitsMet /\ OneWaits

\* A task whose wait set_flg ends has seen a pattern that meets its condition,
\* every bit of which was there or has just been set.  The bits of a TA_CLR
\* flag are seen by one task: the first in the queue whose condition they meet.
Waits(f, t) == Contains(wait_queue[f], t)
ServesInTurn ==
    \A x \in got', f \in FLG : Waits(f, x[1]) =>
        /\ Met(x[2], winfo[x[1]])
        /\ f \in TaClr =>
              /\ flgptn'[f] = {} /\ got' = {x}
              /\ \A i, j \in DOMAIN wait_queue[f] :
                    i < j /\ wait_queue[f][j] = x[1] => ~Met(x[2], winfo[wait_queue[f][i]])

ServedInTurn == [][ServesInTurn]_flgAllVars
=============================================================================
