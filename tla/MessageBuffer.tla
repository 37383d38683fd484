------------------------------ MODULE MessageBuffer ------------------------------
(***************************************************************************)
(* Message buffers (extension/messagebuf/kernel/messagebuf.c): the ring of *)
(* MessageRing, a queue of senders waiting for room and one of receivers.  *)
(* A sender that waits may be in the way of others.  So this kernel calls  *)
(* hooks in the message buffer whenever one leaves the queue early or      *)
(* changes its place, and the first ones that fit are let in.              *)
(***************************************************************************)
EXTENDS WaitObject, MessageRing

CONSTANTS
    MbfSz,      \* mbfsz of each message buffer, a multiple of WORD
    MSG,        \* messages, up to the length maxmsz
    NoMsg

MBF    == DOMAIN MbfSz
Snd(b) == <<b, "snd">>
Rcv(b) == <<b, "rcv">>

\* TA_TPRI is about the senders; the receivers are always served in order.
MbfAssumption ==
    /\ \A b \in MBF : MbfSz[b] \in Nat /\ MbfSz[b] % WORD = 0
    /\ WQUEUE = {Snd(b) : b \in MBF} \cup {Rcv(b) : b \in MBF}
    /\ TaTpri \subseteq {Snd(b) : b \in MBF}

VARIABLES
    mbfcb,      \* fmbfsz, head, tail, smbfcnt, and the memory at mbfmb
    winfo,      \* msg and msgsz of the WINFO_MBF of each waiting sender
    delivered   \* <<task, message>> if the last step delivered one, else <<>>

mbfVars == <<mbfcb, winfo, delivered, wait_queue>>
allVars == <<vars, mbfVars>>

MState == [mbfcb |-> mbfcb, delivered |-> <<>>] @@ KState

\* The WINFO_MBF is on the stack of the sender: it is gone when the wait ends.
WinfoScope(offered) ==
    winfo' = [t \in TASK |-> IF \E b \in MBF : Contains(wait_queue'[Snd(b)], t)
                             THEN offered[t] ELSE NoMsg]

MCommit(k) ==
    /\ Commit(k) /\ mbfcb' = k.mbfcb /\ delivered' = k.delivered
    /\ WinfoScope(winfo)

NoTransfer == UNCHANGED mbfcb /\ delivered' = <<>>

-----------------------------------------------------------------------------
Fits(k, b, msg)  == AllocSz(Len(msg)) <= k.mbfcb[b].fmbfsz
Store(k, b, msg) == [k EXCEPT !.mbfcb[b] = EnqueueMessage(@, MbfSz[b], msg)]

\* Fault: only one sender is let in.
SignalOne(k, b) ==
    LET q == k.wait_queue[Snd(b)]
    IN  IF q # <<>> /\ Fits(k, b, winfo[Head(q)])
        THEN WaitRelease(Store(k, b, winfo[Head(q)]), Head(q)) ELSE k

\* messagebuf_signal: one whose predecessor remains is not the first.
Signal(k, b) ==
    LET enter(n, t) == IF Head(n.wait_queue[Snd(b)]) = t /\ Fits(n, b, winfo[t])
                       THEN WaitRelease(Store(n, b, winfo[t]), t) ELSE n
    IN  FoldLeft(enter, k, k.wait_queue[Snd(b)])

\* have_precedence
HavePrecedence(b) ==
    wait_queue[Snd(b)] # <<>> =>
        Snd(b) \in TaTpri /\ priority[Head(wait_queue[Snd(b)])] > priority[runtsk]

CanSend(b, msg) ==
    wait_queue[Rcv(b)] # <<>> \/ (HavePrecedence(b) /\ Fits(MState, b, msg))

\* send_message, called when it returns true
SendMessage(k, b, msg) ==
    IF k.wait_queue[Rcv(b)] # <<>>
    THEN LET t == Head(k.wait_queue[Rcv(b)])
         IN  WaitRelease([k EXCEPT !.delivered = <<t, msg>>], t)
    ELSE Store(k, b, msg)

CanReceive(b) == mbfcb[b].smbfcnt > 0 \/ wait_queue[Snd(b)] # <<>>

\* receive_message, called when it returns a size: messagebuf_signal follows
\* a message taken from memory, not one taken from a sender.
ReceiveMessage(k, b) ==
    LET m == k.mbfcb[b]
        t == Head(k.wait_queue[Snd(b)])
        out(msg) == [k EXCEPT !.delivered = <<runtsk, msg>>]
    IN  IF m.smbfcnt > 0
        THEN Signal([out(FirstMessage(m, MbfSz[b])) EXCEPT
                        !.mbfcb[b] = DequeueMessage(@, MbfSz[b])], b)
        ELSE WaitRelease(out(winfo[t]), t)

-----------------------------------------------------------------------------
\* A transfer that does not have to wait
Transfer(k) == MCommit(k) /\ UNCHANGED restVars

PsndMbf(b, msg) ==
    /\ TskCtxUnl /\ CanSend(b, msg)
    /\ Transfer(SendMessage(MState, b, msg))

\* Fault: the message is not left for whoever makes room.
SndMbfNoMsg(b, msg, timed) ==
    /\ DispatchState
    /\ IF CanSend(b, msg)
       THEN Transfer(SendMessage(MState, b, msg))
       ELSE /\ ~waifbd[runtsk]
            /\ WobjMakeWait(Snd(b), timed)
            /\ WinfoScope(winfo)
            /\ NoTransfer
            /\ UNCHANGED restVars

\* snd_mbf, tsnd_mbf
SndMbf(b, msg, timed) ==
    /\ DispatchState
    /\ IF CanSend(b, msg)
       THEN Transfer(SendMessage(MState, b, msg))
       ELSE /\ ~waifbd[runtsk]
            /\ WobjMakeWait(Snd(b), timed)
            /\ WinfoScope([winfo EXCEPT ![runtsk] = msg])
            /\ NoTransfer
            /\ UNCHANGED restVars

PrcvMbf(b) ==
    /\ TskCtxUnl /\ CanReceive(b)
    /\ Transfer(ReceiveMessage(MState, b))

\* rcv_mbf, trcv_mbf
RcvMbf(b, timed) ==
    /\ DispatchState
    /\ IF CanReceive(b)
       THEN Transfer(ReceiveMessage(MState, b))
       ELSE /\ ~waifbd[runtsk]
            /\ WobjMakeWait(Rcv(b), timed)
            /\ UNCHANGED winfo
            /\ NoTransfer
            /\ UNCHANGED restVars

\* Both queues of waiting tasks are emptied; their calls return E_DLT.
IniMbf(b) ==
    /\ TskCtxUnl
    /\ LET cleared == InitWaitQueue(InitWaitQueue(MState, Snd(b)), Rcv(b))
       IN  Transfer([cleared EXCEPT !.mbfcb[b] = EmptiedRing(@, MbfSz[b])])

-----------------------------------------------------------------------------
\* wait_dequeue_wobj of this kernel, with the hook messagebuf_dequeue_wobj
\* Fault: the hook is missing.
DequeueWobjNoHook(k, t) == WaitDequeue(k, t)

DequeueWobj(k, t) ==
    LET from == {b \in MBF : Contains(k.wait_queue[Snd(b)], t)}
    IN  IF from = {} THEN WaitDequeue(k, t)
        ELSE Signal(WaitDequeue(k, t), CHOOSE b \in from : TRUE)

\* wait_release and wait_tmout
Release(t) == Transfer(MakeNonWaitK(DequeueWobj(MState, t), t))

RelWaiMbf(t)    == (TskCtxUnl \/ IntCtxUnl) /\ Queued(t) /\ Release(t)
WaitTmoutMbf(t) == IntCtxUnl /\ t \in tmevt /\ Queued(t) /\ Release(t)

TerTskMbf(t) ==
    /\ TskCtxUnl /\ t \in exist /\ t # runtsk /\ ~Dormant(t)
    /\ MCommit(MakeDormantK(IF Queued(t) THEN DequeueWobj(MState, t)
                            ELSE LeaveQueues(MState, t), t))
    /\ DormantFields(t)
    /\ UNCHANGED modeVars

\* wobj_change_priority of this kernel, with messagebuf_change_priority
\* Fault: the hook is missing.
ChangePriorityNoHook(k, t, newpri) == ChangePriorityK(k, t, newpri, FALSE)

ChangePriorityMbf(k, t, newpri) ==
    LET n == ChangePriorityK(k, t, newpri, FALSE)
        moved == {b \in MBF : Snd(b) \in TaTpri /\ Contains(n.wait_queue[Snd(b)], t)}
    IN  IF moved = {} THEN n ELSE Signal(n, CHOOSE b \in moved : TRUE)

ChgPriMbf(t, newbpri) ==
    /\ TskCtxUnl /\ t \in exist /\ ~Dormant(t)
    /\ newbpri >= MinPriority[runtsk]
    /\ bpriority' = [bpriority EXCEPT ![t] = newbpri]
    /\ MCommit(ChangePriorityMbf(MState, t, newbpri))
    /\ UNCHANGED <<exist, ipriority, actque, wupque, waifbd, modeVars>>

-----------------------------------------------------------------------------
MbfInit ==
    /\ Init
    /\ mbfcb = [b \in MBF |-> EmptyRing(MbfSz[b])]
    /\ winfo = [t \in TASK |-> NoMsg]
    /\ delivered = <<>>
    /\ wait_queue = [w \in WQUEUE |-> <<>>]

MbfService(b) ==
    \/ \E msg \in MSG : PsndMbf(b, msg) \/ \E timed \in BOOLEAN : SndMbf(b, msg, timed)
    \/ PrcvMbf(b) \/ IniMbf(b)
    \/ \E timed \in BOOLEAN : RcvMbf(b, timed)

OtherStep ==
    /\ (ExtTsk \/ SchedulerStep) /\ UNCHANGED <<wait_queue, winfo>>
    /\ NoTransfer

MbfNext ==
    \/ OtherStep
    \/ \E b \in MBF : MbfService(b)
    \/ \E t \in TASK : RelWaiMbf(t) \/ WaitTmoutMbf(t) \/ TerTskMbf(t)
                       \/ \E p \in PRI : ChgPriMbf(t, p)

MbfSpec == MbfInit /\ [][MbfNext]_allVars

-----------------------------------------------------------------------------
(***************************************************************************)
(* Properties                                                              *)
(***************************************************************************)

\* The type of the variables of this module.
MbfTypeOK ==
    /\ TypeOK
    /\ winfo \in [TASK -> MSG \cup {NoMsg}]
    /\ \A t \in TASK : winfo[t] \in MSG <=> \E b \in MBF : Contains(wait_queue[Snd(b)], t)
    /\ \A w \in WQUEUE : wait_queue[w] \in Seq(TASK)

\* Wherever the end of the memory cuts them, the messages follow each other
\* without a gap up to tail, and what they do not take is free.
RingsConsistent == \A b \in MBF : RingOk(mbfcb[b], MbfSz[b])

\* A task that waits to send waits for room: the message of the first does not
\* fit ("stored if it can be", messagebuf_signal), also when one before it was
\* terminated, timed out, was released or changed its priority.
FirstDoesNotFit ==
    \A b \in MBF : wait_queue[Snd(b)] # <<>> =>
                       ~Fits(MState, b, winfo[Head(wait_queue[Snd(b)])])

Channel == INSTANCE MessageChannel WITH
    Cap <- MbfSz, Size <- LAMBDA msg : AllocSz(Len(msg)),
    buffer <- [b \in MBF |-> Messages(mbfcb[b], MbfSz[b])],
    offers <- [b \in MBF |-> [i \in DOMAIN wait_queue[Snd(b)] |-> winfo[wait_queue[Snd(b)][i]]]],
    waiting <- [b \in MBF |-> wait_queue[Rcv(b)]]

\* A message buffer delivers whole messages, each once and in the order in
\* which they came in; a waiting sender comes in as soon as its turn and its
\* message allow it, whatever ended the wait of the others.
IsMessageChannel == Channel!ChannelSpec
=============================================================================
