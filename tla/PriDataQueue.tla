------------------------------- MODULE PriDataQueue -------------------------------
(***************************************************************************)
(* Priority data queues (kernel/pridataq.c): the list of PriList, a queue  *)
(* of senders waiting for room and one of receivers waiting for data.      *)
(***************************************************************************)
EXTENDS WaitObject, PriList

CONSTANTS
    DynPdq,         \* priority data queues created at run time
    Cap,            \* pdqcnt of each
    DATA, DPRI      \* data, and the priorities from TMIN_DPRI to maxdpri

PDQ  == DOMAIN Cap
ITEM == DATA \X DPRI
Snd(d) == <<d, "snd">>
Rcv(d) == <<d, "rcv">>

\* TA_TPRI is about the senders; the receivers are always served in order.
PdqAssumption ==
    /\ DynPdq \subseteq PDQ /\ Cap \in [PDQ -> Nat]
    /\ WQUEUE = {Snd(d) : d \in PDQ} \cup {Rcv(d) : d \in PDQ}
    /\ TaTpri \subseteq {Snd(d) : d \in PDQ}

VARIABLES
    pdqexist,       \* priority data queues whose pdqatr is not TA_NOEXS
    pdqcb,          \* count, p_head, unused, p_freelist and the nodes at p_pdqmb
    winfo,          \* data and datapri of the WINFO_PDQ of each waiting sender
    delivered       \* <<task, item>> if the last step delivered one, else <<>>

pdqVars == <<pdqexist, pdqcb, winfo, delivered, wait_queue>>
allVars == <<vars, pdqVars>>

PState == [pdqcb |-> pdqcb, delivered |-> <<>>] @@ KState

\* The WINFO_PDQ is on the stack of the sender: it is gone when the wait ends.
WinfoScope(offered) ==
    winfo' = [t \in TASK |-> IF \E d \in PDQ : Contains(wait_queue'[Snd(d)], t)
                             THEN offered[t] ELSE NoItem]

PCommit(k) ==
    /\ Commit(k) /\ pdqcb' = k.pdqcb /\ delivered' = k.delivered
    /\ WinfoScope(winfo)

NoTransfer == UNCHANGED <<pdqexist, pdqcb>> /\ delivered' = <<>>

-----------------------------------------------------------------------------
CanSend(d) == wait_queue[Rcv(d)] # <<>> \/ pdqcb[d].count < Cap[d]

\* send_pridata, called when it returns true
SendPridata(k, d, x) ==
    IF k.wait_queue[Rcv(d)] # <<>>
    THEN LET t == Head(k.wait_queue[Rcv(d)])
         IN  WaitRelease([k EXCEPT !.delivered = <<t, x>>], t)
    ELSE [k EXCEPT !.pdqcb[d] = EnqueuePridata(@, Cap[d], x)]

CanReceive(d) == pdqcb[d].count > 0 \/ wait_queue[Snd(d)] # <<>>

\* receive_pridata, called when it returns true: the item of the first waiting
\* sender takes the place of the one that leaves.
ReceivePridata(k, d) ==
    LET q == k.pdqcb[d]
        left == DequeuePridata(q)
        t == Head(k.wait_queue[Snd(d)])
        out(x) == [k EXCEPT !.delivered = <<runtsk, x>>]
    IN  IF q.count = 0 THEN WaitRelease(out(winfo[t]), t)
        ELSE IF k.wait_queue[Snd(d)] = <<>> THEN [out(FirstItem(q)) EXCEPT !.pdqcb[d] = left]
        ELSE WaitRelease([out(FirstItem(q)) EXCEPT
                            !.pdqcb[d] = EnqueuePridata(left, Cap[d], winfo[t])], t)

-----------------------------------------------------------------------------
\* A transfer that does not have to wait
Transfer(k) == PCommit(k) /\ UNCHANGED <<restVars, pdqexist>>

\* psnd_pdq, ipsnd_pdq
PsndPdq(d, x) ==
    /\ TskCtxUnl \/ IntCtxUnl
    /\ d \in pdqexist /\ CanSend(d)
    /\ Transfer(SendPridata(PState, d, x))

\* Fault: the item is not left for whoever makes room.
SndPdqNoItem(d, x, timed) ==
    /\ DispatchState /\ d \in pdqexist
    /\ IF CanSend(d)
       THEN Transfer(SendPridata(PState, d, x))
       ELSE /\ ~waifbd[runtsk]
            /\ WobjMakeWait(Snd(d), timed)
            /\ WinfoScope(winfo)
            /\ NoTransfer
            /\ UNCHANGED restVars

\* snd_pdq, tsnd_pdq
SndPdq(d, x, timed) ==
    /\ DispatchState /\ d \in pdqexist
    /\ IF CanSend(d)
       THEN Transfer(SendPridata(PState, d, x))
       ELSE /\ ~waifbd[runtsk]
            /\ WobjMakeWait(Snd(d), timed)
            /\ WinfoScope([winfo EXCEPT ![runtsk] = x])
            /\ NoTransfer
            /\ UNCHANGED restVars

\* prcv_pdq
PrcvPdq(d) ==
    /\ TskCtxUnl /\ d \in pdqexist /\ CanReceive(d)
    /\ Transfer(ReceivePridata(PState, d))

\* rcv_pdq, trcv_pdq
RcvPdq(d, timed) ==
    /\ DispatchState /\ d \in pdqexist
    /\ IF CanReceive(d)
       THEN Transfer(ReceivePridata(PState, d))
       ELSE /\ ~waifbd[runtsk]
            /\ WobjMakeWait(Rcv(d), timed)
            /\ UNCHANGED winfo
            /\ NoTransfer
            /\ UNCHANGED restVars

\* Fault: only the receivers are released.
ClearedReceivers(d) == InitWaitQueue(PState, Rcv(d))

\* Both queues of waiting tasks are emptied; their calls return E_DLT.
Cleared(d) == InitWaitQueue(InitWaitQueue(PState, Snd(d)), Rcv(d))

IniPdq(d) ==
    /\ TskCtxUnl /\ d \in pdqexist
    /\ Transfer([Cleared(d) EXCEPT !.pdqcb[d] = EmptiedList(@)])

DelPdq(d) ==
    /\ TskCtxUnl /\ d \in pdqexist \cap DynPdq
    /\ PCommit(Cleared(d))
    /\ pdqexist' = pdqexist \ {d}
    /\ UNCHANGED restVars

\* Fault: the free nodes of the deleted queue are kept, but not those in use.
AcrePdqKeepsFree(d) ==
    /\ TskCtxUnl /\ d \in DynPdq \ pdqexist
    /\ pdqexist' = pdqexist \cup {d}
    /\ pdqcb' = [pdqcb EXCEPT ![d].count = 0, ![d].head = Null, ![d].unused = 0]
    /\ delivered' = <<>>
    /\ UNCHANGED <<vars, wait_queue, winfo>>

AcrePdq(d) ==
    /\ TskCtxUnl /\ d \in DynPdq \ pdqexist
    /\ pdqexist' = pdqexist \cup {d}
    /\ pdqcb' = [pdqcb EXCEPT ![d] = EmptiedList(@)]
    /\ delivered' = <<>>
    /\ UNCHANGED <<vars, wait_queue, winfo>>

-----------------------------------------------------------------------------
PdqInit ==
    /\ Init
    /\ pdqexist = PDQ \ DynPdq
    /\ pdqcb = [d \in PDQ |-> EmptyList(Cap[d])]
    /\ winfo = [t \in TASK |-> NoItem]
    /\ delivered = <<>>
    /\ wait_queue = [w \in WQUEUE |-> <<>>]

PdqService(d) ==
    \/ \E x \in ITEM : PsndPdq(d, x) \/ \E timed \in BOOLEAN : SndPdq(d, x, timed)
    \/ PrcvPdq(d) \/ IniPdq(d) \/ DelPdq(d) \/ AcrePdq(d)
    \/ \E timed \in BOOLEAN : RcvPdq(d, timed)

OtherStep ==
    /\ \/ \E t \in TASK : WaitingTaskStep(t)
       \/ (ExtTsk \/ SchedulerStep) /\ UNCHANGED wait_queue
    /\ WinfoScope(winfo) /\ NoTransfer

PdqNext == OtherStep \/ \E d \in PDQ : PdqService(d)

PdqSpec == PdqInit /\ [][PdqNext]_allVars

-----------------------------------------------------------------------------
(***************************************************************************)
(* Properties                                                              *)
(***************************************************************************)

\* The type of the variables of this module.
PdqTypeOK ==
    /\ TypeOK
    /\ pdqexist \in SUBSET PDQ
    /\ winfo \in [TASK -> ITEM \cup {NoItem}]
    /\ \A t \in TASK : winfo[t] \in ITEM <=> \E d \in PDQ : Contains(wait_queue[Snd(d)], t)
    /\ \A w \in WQUEUE : wait_queue[w] \in Seq(TASK)

\* In every queue the lists of data and of free nodes share no node, lose none
\* and agree with count and unused; the data are in the order of priority.
ListsConsistent == \A d \in PDQ : ListOk(pdqcb[d], Cap[d])

Channel == INSTANCE PriChannel WITH
    buffer <- [d \in PDQ |-> IF d \in pdqexist THEN Items(pdqcb[d], Cap[d]) ELSE <<>>],
    offers <- [d \in PDQ |-> [i \in DOMAIN wait_queue[Snd(d)] |-> winfo[wait_queue[Snd(d)][i]]]],
    waiting <- [d \in PDQ |-> wait_queue[Rcv(d)]],
    open <- pdqexist

\* A priority data queue is a channel that delivers the most urgent item it
\* holds, and the oldest of those; senders wait only for a full one, receivers
\* only for an empty one, and no item is lost or doubled when waits end early.
IsPriChannel == Channel!ChannelSpec
=============================================================================
