-------------------------------- MODULE DataQueue --------------------------------
(***************************************************************************)
(* Data queues (kernel/dataqueue.c) with the calls EV3RT adds to send      *)
(* several data at once (target/ev3_gcc/kernel_mod/src/dataqueue_mod.c).   *)
(*                                                                         *)
(* Each data queue has a ring buffer, a queue of senders waiting for room  *)
(* and one of receivers waiting for data.                                  *)
(***************************************************************************)
EXTENDS WaitObject, RingBuffer

CONSTANTS
    DynDtq,         \* data queues created at run time
    Cap             \* dtqcnt of each data queue

DTQ == DOMAIN Cap
Snd(d) == <<d, "snd">>
Rcv(d) == <<d, "rcv">>

\* TA_TPRI is about the senders; the receivers are always served in order.
ASSUME DtqAssumption ==
    /\ DynDtq \subseteq DTQ /\ Cap \in [DTQ -> Nat]
    /\ WQUEUE = {Snd(d) : d \in DTQ} \cup {Rcv(d) : d \in DTQ}
    /\ TaTpri \subseteq {Snd(d) : d \in DTQ}

VARIABLES
    dtqexist,       \* data queues whose dtqatr is not TA_NOEXS
    dtqcb,          \* p_dtqmb, head, tail and count
    winfo,          \* the data field of the WINFO_DTQ of each waiting sender
    delivered       \* <<task, datum>> for every datum the last step delivered

dtqVars == <<dtqexist, dtqcb, winfo, delivered, wait_queue>>
allVars == <<vars, dtqVars>>

DState == [ready |-> ready, tstat |-> tstat, priority |-> priority, tmevt |-> tmevt,
           wait_queue |-> wait_queue, dspreq |-> FALSE, dtqcb |-> dtqcb, delivered |-> <<>>]

\* The WINFO_DTQ is on the stack of the sender: it is gone when the wait ends.
WinfoScope(offered) ==
    winfo' = [t \in TASK |-> IF \E d \in DTQ : Contains(wait_queue'[Snd(d)], t)
                             THEN offered[t] ELSE NoData]

DCommit(k) ==
    /\ Commit(k) /\ dtqcb' = k.dtqcb /\ delivered' = k.delivered
    /\ WinfoScope(winfo)

NoTransfer == UNCHANGED <<dtqexist, dtqcb>> /\ delivered' = <<>>

-----------------------------------------------------------------------------
CanSend(k, d) == k.wait_queue[Rcv(d)] # <<>> \/ k.dtqcb[d].count < Cap[d]

\* The first waiting receiver gets the datum.
HandOver(k, d, x) ==
    LET t == Head(k.wait_queue[Rcv(d)])
    IN  WaitRelease([k EXCEPT !.delivered = Append(@, <<t, x>>)], t)

\* send_data; it stores nothing when it returns false.
SendData(k, d, x) ==
    IF k.wait_queue[Rcv(d)] # <<>> THEN HandOver(k, d, x)
    ELSE IF k.dtqcb[d].count < Cap[d]
    THEN [k EXCEPT !.dtqcb[d] = EnqueueData(@, Cap[d], x)]
    ELSE k

ForceSendData(k, d, x) ==
    IF k.wait_queue[Rcv(d)] # <<>> THEN HandOver(k, d, x)
    ELSE [k EXCEPT !.dtqcb[d] = ForceEnqueueData(@, Cap[d], x)]

CanReceive(d) == dtqcb[d].count > 0 \/ wait_queue[Snd(d)] # <<>>

\* Fault: a waiting sender is not let in when a datum leaves the full buffer.
ReceiveDataStrandsSender(k, d) ==
    LET q == k.dtqcb[d]
        t == Head(k.wait_queue[Snd(d)])
    IN  IF q.count > 0
        THEN [k EXCEPT !.delivered = <<<<runtsk, FirstData(q)>>>>, !.dtqcb[d] = DequeueData(q, Cap[d])]
        ELSE WaitRelease([k EXCEPT !.delivered = <<<<runtsk, winfo[t]>>>>], t)

\* Fault: a waiting sender is served before the data in the buffer.
ReceiveDataOvertakes(k, d) ==
    LET q == k.dtqcb[d]
        t == Head(k.wait_queue[Snd(d)])
        out(x) == [k EXCEPT !.delivered = <<<<runtsk, x>>>>]
    IN  IF k.wait_queue[Snd(d)] # <<>> THEN WaitRelease(out(winfo[t]), t)
        ELSE [out(FirstData(q)) EXCEPT !.dtqcb[d] = DequeueData(q, Cap[d])]

\* receive_data, called when it returns true: the datum of the first waiting
\* sender takes the place of the one that leaves the buffer.
ReceiveData(k, d) ==
    LET q == k.dtqcb[d]
        left == DequeueData(q, Cap[d])
        t == Head(k.wait_queue[Snd(d)])
        out(x) == [k EXCEPT !.delivered = <<<<runtsk, x>>>>]
    IN  IF q.count = 0 THEN WaitRelease(out(winfo[t]), t)
        ELSE IF k.wait_queue[Snd(d)] = <<>> THEN [out(FirstData(q)) EXCEPT !.dtqcb[d] = left]
        ELSE WaitRelease([out(FirstData(q)) EXCEPT
                             !.dtqcb[d] = EnqueueData(left, Cap[d], winfo[t])], t)

-----------------------------------------------------------------------------
\* A transfer that does not have to wait
Transfer(k) == DCommit(k) /\ UNCHANGED <<restVars, dtqexist>>

\* psnd_dtq, ipsnd_dtq
PsndDtq(d, x) ==
    /\ TskCtxUnl \/ IntCtxUnl
    /\ d \in dtqexist /\ CanSend(DState, d)
    /\ Transfer(SendData(DState, d, x))

\* snd_dtq, tsnd_dtq
SndDtq(d, x, timed) ==
    /\ DispatchState /\ d \in dtqexist
    /\ IF CanSend(DState, d)
       THEN Transfer(SendData(DState, d, x))
       ELSE /\ ~waifbd[runtsk]
            /\ WobjMakeWait(Snd(d), timed)
            /\ WinfoScope([winfo EXCEPT ![runtsk] = x])
            /\ NoTransfer
            /\ UNCHANGED restVars

\* fsnd_dtq, ifsnd_dtq
FsndDtq(d, x) ==
    /\ TskCtxUnl \/ IntCtxUnl
    /\ d \in dtqexist /\ Cap[d] > 0
    /\ Transfer(ForceSendData(DState, d, x))

\* Fault: the room is checked for one datum only.
HasRoomForOne(d, n) == dtqcb[d].count + 1 <= Cap[d]

HasRoom(d, n) == dtqcb[d].count + n <= Cap[d]

\* The loop of psnd_dtq_ndata
SendNdata(k, d, s) ==
    LET sent[n \in 0 .. Len(s)] == IF n = 0 THEN k ELSE SendData(sent[n - 1], d, s[n])
    IN  sent[Len(s)]

\* psnd_dtq_ndata, ipsnd_dtq_ndata: all data of s or none
PsndDtqNdata(d, s) ==
    /\ TskCtxUnl \/ IntCtxUnl
    /\ d \in dtqexist /\ HasRoom(d, Len(s))
    /\ Transfer(SendNdata(DState, d, s))

\* prcv_dtq
PrcvDtq(d) ==
    /\ TskCtxUnl /\ d \in dtqexist /\ CanReceive(d)
    /\ Transfer(ReceiveData(DState, d))

\* rcv_dtq, trcv_dtq
RcvDtq(d, timed) ==
    /\ DispatchState /\ d \in dtqexist
    /\ IF CanReceive(d)
       THEN Transfer(ReceiveData(DState, d))
       ELSE /\ ~waifbd[runtsk]
            /\ WobjMakeWait(Rcv(d), timed)
            /\ UNCHANGED winfo
            /\ NoTransfer
            /\ UNCHANGED restVars

\* Fault: only the senders are released.
ClearedSenders(d) == InitWaitQueue(DState, Snd(d))

\* Both queues of waiting tasks are emptied; their calls return E_DLT.
Cleared(d) == InitWaitQueue(InitWaitQueue(DState, Snd(d)), Rcv(d))

IniDtq(d) ==
    /\ TskCtxUnl /\ d \in dtqexist
    /\ Transfer([Cleared(d) EXCEPT !.dtqcb[d] = Emptied(@)])

DelDtq(d) ==
    /\ TskCtxUnl /\ d \in dtqexist \cap DynDtq
    /\ DCommit(Cleared(d))
    /\ dtqexist' = dtqexist \ {d}
    /\ UNCHANGED restVars

\* Fault: the indexes of the deleted data queue are kept.
AcreDtqKeepsIndexes(d) ==
    /\ TskCtxUnl /\ d \in DynDtq \ dtqexist
    /\ dtqexist' = dtqexist \cup {d}
    /\ delivered' = <<>>
    /\ UNCHANGED <<vars, wait_queue, winfo, dtqcb>>

AcreDtq(d) ==
    /\ TskCtxUnl /\ d \in DynDtq \ dtqexist
    /\ dtqexist' = dtqexist \cup {d}
    /\ dtqcb' = [dtqcb EXCEPT ![d] = Emptied(@)]
    /\ delivered' = <<>>
    /\ UNCHANGED <<vars, wait_queue, winfo>>

-----------------------------------------------------------------------------
DtqInit ==
    /\ Init
    /\ dtqexist = DTQ \ DynDtq
    /\ dtqcb = [d \in DTQ |-> EmptyRing(Cap[d])]
    /\ winfo = [t \in TASK |-> NoData]
    /\ delivered = <<>>
    /\ wait_queue = [w \in WQUEUE |-> <<>>]

DtqService(d) ==
    \/ \E x \in DATA : PsndDtq(d, x) \/ FsndDtq(d, x)
    \/ \E x, y \in DATA : PsndDtqNdata(d, <<x, y>>)
    \/ \E x \in DATA, b \in BOOLEAN : SndDtq(d, x, b)
    \/ PrcvDtq(d) \/ IniDtq(d) \/ DelDtq(d) \/ AcreDtq(d)
    \/ \E b \in BOOLEAN : RcvDtq(d, b)

\* A task that waits in a queue is released, ended or given another priority.
WaitingTaskService(t) ==
    /\ WaitingTaskStep(t)
    /\ WinfoScope(winfo)
    /\ NoTransfer

DtqNext ==
    \/ \E d \in DTQ : DtqService(d)
    \/ \E t \in TASK : WaitingTaskService(t)
    \/ (ExtTsk \/ SchedulerStep) /\ NoTransfer /\ UNCHANGED <<winfo, wait_queue>>

DtqSpec == DtqInit /\ [][DtqNext]_allVars

-----------------------------------------------------------------------------
(***************************************************************************)
(* Properties                                                              *)
(***************************************************************************)

\* The type of the variables of this module; the indexes of every buffer
\* agree with its count.
DtqTypeOK ==
    /\ TypeOK
    /\ dtqexist \in SUBSET DTQ
    /\ \A d \in DTQ : RingOk(dtqcb[d], Cap[d])
    /\ winfo \in [TASK -> DATA \cup {NoData}]
    /\ \A d \in DTQ, t \in TASK : Contains(wait_queue[Snd(d)], t) => winfo[t] \in DATA
    /\ \A w \in WQUEUE : wait_queue[w] \in Seq(TASK)

\* Once the room has been checked every send_data of psnd_dtq_ndata succeeds,
\* as its assert(ret) claims, also when some of the data go to receivers.
NdataAccepted ==
    \A d \in dtqexist, x \in DATA :
        HasRoom(d, 2) => CanSend(DState, d) /\ CanSend(SendData(DState, d, x), d)

\* The variables keep their types, and the scheduler its promises, while one call
\* moves several tasks.
DtqConsistent == DtqTypeOK /\ WaitsConsistent /\ NdataAccepted

\* No sender waits while there is room or a receiver, no receiver while there
\* is a datum, whichever way room and data came about; nobody waits for a data
\* queue that has been deleted.
NobodyWaitsInVain ==
    \A d \in DTQ :
        /\ wait_queue[Snd(d)] # <<>> => dtqcb[d].count = Cap[d] /\ wait_queue[Rcv(d)] = <<>>
        /\ wait_queue[Rcv(d)] # <<>> => dtqcb[d].count = 0
        /\ d \notin dtqexist => wait_queue[Snd(d)] = <<>> /\ wait_queue[Rcv(d)] = <<>>

Offered(d) == [i \in DOMAIN wait_queue[Snd(d)] |-> winfo[wait_queue[Snd(d)][i]]]

Stream == [d \in DTQ |-> IF d \in dtqexist THEN Contents(dtqcb[d], Cap[d]) \o Offered(d) ELSE <<>>]

Receivers == [d \in DTQ |-> wait_queue[Rcv(d)]]

Channel == INSTANCE FifoChannel WITH stream <- Stream, waiting <- Receivers, open <- dtqexist

\* The data queue is a first-in first-out channel to its tasks: the buffer,
\* then the data of the waiting senders, are the stream of FifoChannel.
IsFifoChannel == Channel!ChannelSpec
=============================================================================
