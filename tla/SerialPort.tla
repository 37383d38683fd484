------------------------------ MODULE SerialPort ------------------------------
(***************************************************************************)
(* The serial interface driver (syssvc/serial.c), the receive callback for *)
(* Bluetooth (kernel_mod/src/serial_mod.c) and the ports below them        *)
(* (target_serial.c, target_serial_dbsio.c).                               *)
(*                                                                         *)
(* Tasks write and read strings.  A buffer for each direction is shared    *)
(* with the callbacks; a semaphore for each direction stands for "there is *)
(* room" and "there is a character" and keeps one task at a time in the    *)
(* loop of a call.  On the UART port interrupts run both callbacks.  On    *)
(* the Bluetooth ports a cyclic handler runs the one for sending and the   *)
(* Bluetooth task, step by step, the one for receiving.                    *)
(***************************************************************************)
EXTENDS Naturals, Sequences, FiniteSets, SequencesExt

CONSTANTS
    Writers, Readers,   \* the tasks that call serial_wri_dat and serial_rea_dat
    PORT,               \* "uart", "bt" or "dbsio"
    SndSize, RcvSize,   \* snd_bufsz and rcv_bufsz
    DevSize,            \* characters the device takes before it is ready again
    CHAR, CR, LF, FC_STOP, FC_START, NoChar,
    LINE,               \* the characters that arrive
    TEXTS, LENS,        \* what is written, and how much is read, in one call
    IOCTL,              \* the settings serial_ctl_por makes
    Released,           \* the waits that rel_wai hits: "wai_snd", "wai_rcv", "wai_echo"
    UintMax             \* the largest uint_t

\* What the constants must satisfy
SerialAssumption ==
    /\ PORT \in {"uart", "bt", "dbsio"}
    /\ SndSize \in Nat \ {0} /\ RcvSize \in Nat \ {0} /\ DevSize \in Nat \ {0}
    /\ {CR, LF, FC_STOP, FC_START} \cup LINE \subseteq CHAR /\ NoChar \notin CHAR
    /\ Writers \cap Readers = {} /\ UintMax >= SndSize

TASK == Writers \cup Readers
Flags == {"ECHO", "CRLF", "FCSND", "FCANY", "FCRCV"}

VARIABLES
    port,       \* SPCB and SIOPCB
    ioctl,
    semcnt, semq,   \* the semaphores "snd" and "rcv": counts and waiting tasks
    call,       \* where each task is in its call
    bt,         \* where the task is that has disabled dispatching: in sio_rdy_rcv (the
                \* Bluetooth task, with its local c), serial_opn_por or serial_cls_por
    out,        \* the characters of texts the last step gave to the device
    taken,      \* the characters the last step gave to a reader
    arrived,    \* the character that arrived in the last step
    torn        \* a call and the port have come apart (see Tears)

serialVars == <<port, ioctl, semcnt, semq, call, bt, out, taken, arrived, torn>>

INSTANCE RingBuffer WITH DATA <- CHAR, NoData <- NoChar

BUFCNT_STOP == (RcvSize * 3) \div 4
BUFCNT_START == RcvSize \div 2

Out == [pc |-> "out", text |-> <<>>, left |-> 0, empty |-> FALSE]

Queued(t) == \E m \in {"snd", "rcv"} : Contains(semq[m], t)

\* The calls that have the semaphore m in hand; a reader keeps "rcv" while it echoes.
Holds(t, m) ==
    IF m = "snd" THEN call[t].pc \in {"chr", "lf", "sig_snd"}
    ELSE \/ call[t].pc \in {"rea", "sig_rcv"}
         \/ t \in Readers /\ ~call[t].empty
            /\ call[t].pc \in {"wai_snd", "chr", "wai_lf", "lf", "sig_snd"}

\* A step threads this record through the functions it calls.
State == [port |-> port, semcnt |-> semcnt, semq |-> semq, call |-> call,
          out |-> <<>>, taken |-> <<>>, arrived |-> NoChar]

\* The semaphores do not promise anything once a call that has one in hand goes on
\* with the port closed, or is still there when the port is opened again; once rel_wai
\* ends an echo of a reader that keeps "rcv"; and once the cyclic handler sends between
\* the assignments with which the port is opened.
Tears(s) ==
    LET holds(t) == Holds(t, "snd") \/ Holds(t, "rcv")
    IN  \/ /\ ~port.openflag
           /\ \E t \in TASK : /\ s.port.openflag \/ (s.call[t] # call[t] /\ ~Queued(t))
                             /\ holds(t)
        \/ port.openflag /\ \E t \in TASK : s.call[t] = Out /\ Queued(t) /\ holds(t)
        \/ bt.pc = "opn_snd" /\ s.port.snd.head # port.snd.head

Commit(s) ==
    /\ port' = s.port /\ semcnt' = s.semcnt /\ semq' = s.semq /\ call' = s.call
    /\ out' = s.out /\ taken' = s.taken /\ arrived' = s.arrived
    /\ torn' = (torn \/ Tears(s))

-----------------------------------------------------------------------------
\* The two semaphores, of a maximum of one

\* Where a task goes on that gets the semaphore it asks for
Granted(pc) == CASE pc = "wai_snd" -> "chr" [] pc = "wai_lf" -> "lf" [] pc = "wai_rcv" -> "rea"

SemOf(pc) == IF pc = "wai_rcv" THEN "rcv" ELSE "snd"

\* sig_sem and isig_sem; their E_QOVR makes every caller set errorflag.
SigSem(s, m) ==
    IF s.semq[m] # <<>>
    THEN [s EXCEPT !.semq[m] = Tail(@), !.call[Head(s.semq[m])].pc = Granted(@)]
    ELSE IF s.semcnt[m] = 0 THEN [s EXCEPT !.semcnt[m] = 1]
    ELSE [s EXCEPT !.port.errorflag = TRUE]

\* ini_sem: the tasks that wait get E_DLT and return.
IniSem(s, m, n) ==
    [s EXCEPT !.semcnt[m] = n, !.semq[m] = <<>>,
              !.call = [t \in TASK |-> IF Contains(s.semq[m], t) THEN Out ELSE @[t]]]

-----------------------------------------------------------------------------
\* The device

\* serial_snd_chr: a character the device cannot take asks for the callback.
\* dbsio_snd_chr asserts that this does not happen.
SndChr(s, c) ==
    IF s.port.room > 0
    THEN [s EXCEPT !.port.room = @ - 1, !.out = Append(@, c),
                   !.port.told = IF c \in {FC_STOP, FC_START} THEN c ELSE @]
    ELSE [s EXCEPT !.port.snd_cbr = TRUE, !.port.failed = @ \/ PORT = "dbsio"]

\* serial_snd_chr of a STOP or START of the driver's own, which is kept if the device
\* is busy
SndFlowChr(s, c) ==
    LET n == [SndChr(s, c) EXCEPT !.out = s.out]
    IN  IF s.port.room > 0 THEN n ELSE [n EXCEPT !.port.rcv_fc_chr = c]

Uncount(n) == IF n = 0 THEN UintMax ELSE n - 1

\* Fault: the buffer is looked at after the character has left it.
LeaveSndTooLate(s) ==
    LET n == [s EXCEPT !.port.snd = DequeueData(@, SndSize)]
    IN  IF n.port.snd.count = SndSize THEN SigSem(n, "snd") ELSE n

\* A character has been sent from the buffer.
LeaveSnd(s) ==
    LET n == IF s.port.snd.count = SndSize THEN SigSem(s, "snd") ELSE s
    IN  [n EXCEPT !.port.snd = DequeueData(@, SndSize)]

\* sio_irdy_snd
IrdySnd(s) ==
    IF s.port.rcv_fc_chr # NoChar
    THEN [SndChr(s, s.port.rcv_fc_chr) EXCEPT !.port.rcv_fc_chr = NoChar, !.out = s.out]
    ELSE IF ~s.port.snd_stopped /\ s.port.snd.count > 0
    THEN LeaveSnd(SndChr(s, FirstData(s.port.snd)))
    ELSE [s EXCEPT !.port.snd_cbr = FALSE]

\* Conditions of the callbacks for receiving c, in their order
Stops(c) == "FCSND" \in ioctl /\ c = FC_STOP
Restarts(c) == port.snd_stopped /\ (c = FC_START \/ "FCANY" \in ioctl)
Ignored(c) == "FCSND" \in ioctl /\ c = FC_START
RcvFull == port.rcv.count = RcvSize

Stores(c) == ~Stops(c) /\ ~Restarts(c) /\ ~Ignored(c) /\ ~RcvFull

NeedsStop(s) == "FCRCV" \in ioctl /\ ~s.port.rcv_stopped /\ s.port.rcv.count >= BUFCNT_STOP

\* The end of the callbacks: STOP is sent when the buffer fills.
SendStop(s) == [SndFlowChr(s, FC_STOP) EXCEPT !.port.rcv_stopped = TRUE]

-----------------------------------------------------------------------------
\* The UART port: its interrupt handler uart_sio_isr

UartRestart ==
    LET s == [State EXCEPT !.port.snd_stopped = FALSE]
        n == SndChr(s, FirstData(s.port.snd))
    IN  IF port.snd.count = 0 THEN s ELSE IF port.room > 0 THEN LeaveSnd(n) ELSE n

UartStore(c) ==
    LET n == [IF port.rcv.count = 0 THEN SigSem(State, "rcv") ELSE State
                  EXCEPT !.port.rcv = EnqueueData(@, RcvSize, c)]
    IN  IF NeedsStop(n) THEN SendStop(n) ELSE n

\* sio_irdy_rcv
UartRcv(c) ==
    /\ PORT = "uart" /\ port.openflag
    /\ LET s == IF Stops(c) THEN [State EXCEPT !.port.snd_stopped = TRUE]
                ELSE IF Restarts(c) THEN UartRestart
                ELSE IF Stores(c) THEN UartStore(c) ELSE State
       IN  Commit([s EXCEPT !.arrived = c])
    /\ UNCHANGED <<ioctl, bt>>

\* The transmitter is empty: uart_tx_fifo_sem is 16 again.
UartSnd ==
    /\ PORT = "uart" /\ port.openflag /\ port.snd_cbr
    /\ Commit(IrdySnd([State EXCEPT !.port.room = DevSize]))
    /\ UNCHANGED <<ioctl, bt>>

-----------------------------------------------------------------------------
\* The Bluetooth ports.  bt_rcv_handler and dbsio_recv_fill disable dispatching
\* while sio_rdy_rcv runs; the cyclic handler may come at any step of it.

Bluetooth == PORT # "uart"

BtAt(pc) == Bluetooth /\ bt.pc = pc /\ UNCHANGED ioctl
BtGo(pc, c) == bt' = [pc |-> pc, c |-> c]
BtDone == BtGo("idle", NoChar)

\* sio_rdy_rcv up to the store or to the end of its flow control
BtReceive(c) ==
    /\ BtAt("idle") /\ port.openflag
    /\ LET s == [State EXCEPT !.arrived = c]
       IN  \/ /\ Stops(c)
              /\ Commit([s EXCEPT !.port.snd_stopped = TRUE]) /\ BtDone
           \/ /\ ~Stops(c) /\ Restarts(c)
              /\ Commit([s EXCEPT !.port.snd_stopped = FALSE]) /\ BtGo("peek", NoChar)
           \/ /\ Stores(c)
              /\ Commit([s EXCEPT !.port.rcv.mb[port.rcv.tail] = c,
                                  !.port.rcv.tail = NextIndex(@, RcvSize)])
              /\ BtGo("signal", NoChar)
           \/ ~Stops(c) /\ ~Restarts(c) /\ ~Stores(c) /\ Commit(s) /\ BtDone

BtPeek ==
    /\ BtAt("peek") /\ Commit(State)
    /\ IF port.snd.count > 0 THEN BtGo("send", FirstData(port.snd)) ELSE BtDone

\* serial_snd_chr of the character read before
BtSend ==
    /\ BtAt("send") /\ Commit(SndChr(State, bt.c))
    /\ IF port.room > 0 THEN BtGo("advance", NoChar) ELSE BtDone

BtAdvance ==
    /\ BtAt("advance")
    /\ LET s == [State EXCEPT !.port.snd.head = NextIndex(@, SndSize)]
       IN  Commit(IF port.snd.count = SndSize THEN SigSem(s, "snd") ELSE s)
    /\ BtGo("uncount", NoChar)

BtUncount ==
    /\ BtAt("uncount") /\ Commit([State EXCEPT !.port.snd.count = Uncount(@)]) /\ BtDone

BtSignal ==
    /\ BtAt("signal") /\ Commit(IF port.rcv.count = 0 THEN SigSem(State, "rcv") ELSE State)
    /\ BtGo("count", NoChar)

BtCount ==
    /\ BtAt("count")
    /\ LET s == [State EXCEPT !.port.rcv.count = @ + 1]
       IN  Commit(s) /\ IF NeedsStop(s) THEN BtGo("stop", NoChar) ELSE BtDone

BtStop == BtAt("stop") /\ Commit(SendStop(State)) /\ BtDone

\* bt_fetch_snd_buf and dbsio_next_send_buffer: the Bluetooth task takes the
\* buffer that was filled and gives the other one.
BtFetch ==
    /\ BtAt("idle") /\ Commit([State EXCEPT !.port.room = DevSize]) /\ UNCHANGED bt

\* bt_sio_cyc and dbsio_cyc send until the buffer is full or there is nothing
\* left; the callback is not disabled when the port is closed.
BtCyc ==
    /\ Bluetooth /\ port.snd_cbr /\ port.room > 0
    /\ Commit(FoldLeft(LAMBDA s, i : IF s.port.snd_cbr /\ s.port.room > 0 THEN IrdySnd(s) ELSE s,
                       State, [i \in 1 .. DevSize + 1 |-> i]))
    /\ UNCHANGED <<ioctl, bt>>

-----------------------------------------------------------------------------
\* Service calls of the tasks

\* No other task runs while one has dispatching disabled.
Dispatching == bt.pc = "idle"

At(t, pcs) == Dispatching /\ call[t].pc \in pcs /\ ~Queued(t) /\ UNCHANGED <<ioctl, bt>>

SerialWriDat(t, text) ==
    /\ At(t, {"out"}) /\ port.openflag /\ ~port.errorflag
    /\ Commit([State EXCEPT !.call[t] = [Out EXCEPT !.pc = "wai_snd", !.text = text]])

SerialReaDat(t, len) ==
    /\ At(t, {"out"}) /\ port.openflag /\ ~port.errorflag
    /\ Commit([State EXCEPT !.call[t] = [Out EXCEPT !.pc = "wai_rcv", !.left = len]])

WaiSem(t) ==
    /\ At(t, {"wai_snd", "wai_lf", "wai_rcv"})
    /\ LET m == SemOf(call[t].pc)
       IN  Commit(IF semcnt[m] > 0
                  THEN [State EXCEPT !.semcnt[m] = @ - 1, !.call[t].pc = Granted(@)]
                  ELSE [State EXCEPT !.semq[m] = Append(@, t)])

\* Whether a character goes to the device and not to the buffer
SendsDirectly(s) == s.port.snd.count = 0 /\ ~s.port.snd_stopped /\ s.port.room > 0

\* Fault: what serial_snd_chr returns is not looked at.
PutChrUnchecked(s, c) ==
    IF s.port.snd.count = 0 /\ ~s.port.snd_stopped THEN SndChr(s, c)
    ELSE [s EXCEPT !.port.snd = EnqueueData(@, SndSize, c)]

\* serial_wri_chr with the CPU locked
PutChr(s, c) ==
    IF SendsDirectly(s) THEN SndChr(s, c)
    ELSE [IF s.port.snd.count = 0 /\ ~s.port.snd_stopped THEN SndChr(s, c) ELSE s
              EXCEPT !.port.snd = EnqueueData(@, SndSize, c)]

BufferFull(s) == s.port.snd.count = SndSize

\* Where serial_rea_dat goes on after a character and its echo
NextRead(r) ==
    IF r.left > 0 THEN [r EXCEPT !.pc = IF r.empty THEN "wai_rcv" ELSE "rea"]
    ELSE IF r.empty THEN Out ELSE [r EXCEPT !.pc = "sig_rcv"]

\* Where a task goes on after a character is written; full is buffer_full.
AfterChr(t, r, full) ==
    IF t \in Readers THEN (IF full THEN NextRead([r EXCEPT !.text = <<>>])
                           ELSE [r EXCEPT !.pc = "sig_snd", !.text = <<>>])
    ELSE IF r.text # <<>> THEN [r EXCEPT !.pc = IF full THEN "wai_snd" ELSE "chr"]
    ELSE IF full THEN Out ELSE [r EXCEPT !.pc = "sig_snd"]

WriteLast(t, c) ==
    LET s == PutChr(State, c)
    IN  Commit([s EXCEPT !.call[t] = AfterChr(t, [@ EXCEPT !.text = Tail(@)], BufferFull(s))])

\* serial_wri_chr; LF is preceded by a CR.
WriChr(t) ==
    /\ At(t, {"chr"})
    /\ LET s == PutChr(State, CR)
       IN  IF Head(call[t].text) = LF /\ "CRLF" \in ioctl
           THEN Commit([s EXCEPT !.call[t].pc = IF BufferFull(s) THEN "wai_lf" ELSE "lf"])
           ELSE WriteLast(t, Head(call[t].text))

WriLf(t) == At(t, {"lf"}) /\ WriteLast(t, LF)

NeedsStart(s) == s.port.rcv_stopped /\ s.port.rcv.count <= BUFCNT_START

SendStart(s) == [SndFlowChr(s, FC_START) EXCEPT !.port.rcv_stopped = FALSE]

\* serial_rea_chr, then the echo if there is to be one
ReaChr(t) ==
    /\ At(t, {"rea"})
    /\ LET c == FirstData(port.rcv)
           s == [State EXCEPT !.port.rcv = [DequeueData(@, RcvSize) EXCEPT
                                                !.count = Uncount(port.rcv.count)],
                            !.taken = <<c>>]
           n == IF NeedsStart(s) THEN SendStart(s) ELSE s
           r == [call[t] EXCEPT !.left = @ - 1, !.empty = s.port.rcv.count = 0]
       IN  Commit([n EXCEPT !.call[t] =
                       IF "ECHO" \in ioctl THEN [r EXCEPT !.pc = "wai_snd", !.text = <<c>>]
                       ELSE NextRead(r)])

SigSnd(t) ==
    /\ At(t, {"sig_snd"})
    /\ Commit(SigSem([State EXCEPT !.call[t] = IF t \in Readers THEN NextRead(@) ELSE Out], "snd"))

SigRcv(t) ==
    /\ At(t, {"sig_rcv"})
    /\ Commit(SigSem([State EXCEPT !.call[t] = Out], "rcv"))

\* rel_wai of a task that waits for a semaphore: its call returns.
WaitKind(t) == IF t \in Readers /\ call[t].pc # "wai_rcv" THEN "wai_echo"
               ELSE IF t \in Readers THEN "wai_rcv" ELSE "wai_snd"

RelWai(t) ==
    /\ Dispatching /\ Queued(t) /\ WaitKind(t) \in Released
    /\ Commit([State EXCEPT !.semq = [m \in {"snd", "rcv"} |-> Remove(@[m], t)], !.call[t] = Out])
    /\ UNCHANGED <<ioctl, bt>>

SerialCtlPor(f) ==
    /\ Dispatching /\ port.openflag /\ ~port.errorflag /\ ioctl # f
    /\ ioctl' = f /\ Commit(State) /\ UNCHANGED bt

-----------------------------------------------------------------------------
\* Opening and closing with dispatching disabled.  On a Bluetooth port the callback is
\* not disabled by closing, so the cyclic handler may come between any two steps.

DspOff(pc) == bt.pc = pc

\* serial_opn_por: dis_dsp and the assignments up to rcv_stopped
SerialOpnPor ==
    /\ Dispatching /\ ~port.openflag
    /\ ioctl' = {"ECHO", "CRLF", "FCSND", "FCRCV"}
    /\ Commit([State EXCEPT !.port.rcv = Emptied(@), !.port.rcv_fc_chr = NoChar,
                            !.port.rcv_stopped = FALSE])
    /\ BtGo("opn_rcv", NoChar)

\* snd_read_ptr
OpnSndHead ==
    /\ DspOff("opn_rcv") /\ Commit([State EXCEPT !.port.snd.head = 0])
    /\ BtGo("opn_snd", NoChar) /\ UNCHANGED ioctl

\* snd_write_ptr, snd_count and snd_stopped
OpnSndCount ==
    /\ DspOff("opn_snd")
    /\ Commit([State EXCEPT !.port.snd.tail = 0, !.port.snd.count = 0, !.port.snd_stopped = FALSE])
    /\ BtGo("opn_por", NoChar) /\ UNCHANGED ioctl

\* With the CPU locked sio_opn_por and the flags, then ena_dsp.  uart_opn_por clears
\* uart_tx_fifo_sem and its callbacks, and the other side may send.
OpnPor ==
    /\ DspOff("opn_por")
    /\ Commit([State EXCEPT !.port.openflag = TRUE, !.port.errorflag = FALSE,
                            !.port.told = NoChar,
                            !.port.room = IF PORT = "uart" THEN 0 ELSE @,
                            !.port.snd_cbr = PORT = "bt" /\ @])
    /\ BtDone /\ UNCHANGED ioctl

\* serial_cls_por: with the CPU locked sio_cls_por, which empties the buffer of a
\* Bluetooth port, and openflag
SerialClsPor ==
    /\ Dispatching /\ port.openflag
    /\ Commit([State EXCEPT !.port.openflag = FALSE,
                            !.port.room = IF Bluetooth THEN DevSize ELSE @,
                            !.port.snd_cbr = PORT # "dbsio" /\ @])
    /\ BtGo("cls_snd", NoChar) /\ UNCHANGED ioctl

\* ini_sem of the sending semaphore
ClsSnd ==
    /\ DspOff("cls_snd") /\ Commit(IniSem(State, "snd", 1))
    /\ BtGo("cls_rcv", NoChar) /\ UNCHANGED ioctl

\* ini_sem of the receiving semaphore, and ena_dsp
ClsRcv ==
    /\ DspOff("cls_rcv") /\ Commit(IniSem(State, "rcv", 0)) /\ BtDone /\ UNCHANGED ioctl

-----------------------------------------------------------------------------
SerialInit ==
    /\ port = [openflag |-> FALSE, errorflag |-> FALSE, room |-> DevSize, snd_cbr |-> FALSE,
               failed |-> FALSE, rcv |-> EmptyRing(RcvSize), rcv_fc_chr |-> NoChar,
               rcv_stopped |-> FALSE, snd |-> EmptyRing(SndSize), snd_stopped |-> FALSE,
               told |-> NoChar]
    /\ ioctl = {}
    /\ semcnt = [m \in {"snd", "rcv"} |-> IF m = "snd" THEN 1 ELSE 0]
    /\ semq = [m \in {"snd", "rcv"} |-> <<>>]
    /\ call = [t \in TASK |-> Out]
    /\ bt = [pc |-> "idle", c |-> NoChar]
    /\ out = <<>> /\ taken = <<>> /\ arrived = NoChar /\ torn = FALSE

TaskStep(t) == WaiSem(t) \/ WriChr(t) \/ WriLf(t) \/ ReaChr(t) \/ SigSnd(t) \/ SigRcv(t)

TaskCall ==
    \/ \E t \in Writers, x \in TEXTS : SerialWriDat(t, x)
    \/ \E t \in Readers, n \in LENS : SerialReaDat(t, n)
    \/ \E t \in TASK : RelWai(t)
    \/ \E f \in IOCTL : SerialCtlPor(f)
    \/ SerialOpnPor \/ SerialClsPor

\* The task that has disabled dispatching goes on.
PorStep == OpnSndHead \/ OpnSndCount \/ OpnPor \/ ClsSnd \/ ClsRcv

BtStep == BtPeek \/ BtSend \/ BtAdvance \/ BtUncount \/ BtSignal \/ BtCount \/ BtStop

SerialNext ==
    \/ TaskCall
    \/ \E t \in TASK : TaskStep(t)
    \/ \E c \in LINE : UartRcv(c) \/ BtReceive(c)
    \/ UartSnd \/ PorStep \/ BtStep \/ BtFetch \/ BtCyc

SerialSpec == SerialInit /\ [][SerialNext]_serialVars

\* Interrupts and the cyclic handler come again and again, and a task that can
\* go on does.
SerialFairness ==
    /\ WF_serialVars(UartSnd) /\ WF_serialVars(BtCyc) /\ WF_serialVars(BtFetch)
    /\ WF_serialVars(BtStep) /\ WF_serialVars(PorStep)
    /\ \A t \in TASK : WF_serialVars(TaskStep(t))

FairSpec == SerialSpec /\ SerialFairness

-----------------------------------------------------------------------------
(***************************************************************************)
(* Properties                                                              *)
(***************************************************************************)

\* The type of the variables; the indexes of both buffers agree with their
\* counts when the Bluetooth task is not inside sio_rdy_rcv.
SerialTypeOK ==
    /\ ioctl \in SUBSET Flags
    /\ semcnt \in [{"snd", "rcv"} -> {0, 1}]
    /\ semq \in [{"snd", "rcv"} -> Seq(TASK)]
    /\ \A t \in TASK : /\ call[t].pc \in {"out", "wai_snd", "chr", "wai_lf", "lf", "sig_snd",
                                          "wai_rcv", "rea", "sig_rcv"}
                       /\ call[t].text \in Seq(CHAR) /\ call[t].left \in Nat
                       /\ call[t].empty \in BOOLEAN
    /\ port.room \in 0 .. DevSize
    /\ bt.pc = "idle" => RingOk(port.snd, SndSize) /\ RingOk(port.rcv, RcvSize)

Tokens(m) == semcnt[m] + Cardinality({t \in TASK : Holds(t, m)})

\* While the port is open the sending semaphore is free or held by one task
\* exactly when there is room in the buffer, the receiving semaphore exactly
\* when there is a character: no task waits in vain and none goes on in vain.
TokensMatchBuffers ==
    port.openflag /\ bt.pc = "idle" =>
        /\ Tokens("snd") = IF port.snd.count < SndSize THEN 1 ELSE 0
        /\ Tokens("rcv") = IF port.rcv.count > 0 THEN 1 ELSE 0

\* No signal exceeds the maximum of its semaphore, so that the port never
\* refuses service because of errorflag.
NeverInError == port.openflag => ~port.errorflag

Pending == Contents(port.snd, SndSize)

\* A character of sio_rdy_rcv is there when it is stored, before it is counted.
Unread == Contents([port.rcv EXCEPT !.count = IF bt.pc \in {"signal", "count"} THEN @ + 1 ELSE @],
                   RcvSize)

\* The characters that the calls have written in a step, as their texts tell: what is
\* left of a text is shorter, or the CR of a line has come before its LF.
Written ==
    LET writes(t) == call[t].pc \in {"chr", "lf"} /\ call'[t] # call[t]
    IN  IF \E t \in TASK : writes(t)
        THEN LET t == CHOOSE t \in TASK : writes(t)
             IN  <<IF call'[t].pc \in {"lf", "wai_lf"} THEN CR ELSE Head(call[t].text)>>
        ELSE <<>>

\* The character a step has brought, unless it is for flow control or the buffer is full
Received ==
    LET forFlow == \/ "FCSND" \in ioctl /\ arrived' \in {FC_STOP, FC_START}
                   \/ port.snd_stopped /\ (arrived' = FC_START \/ "FCANY" \in ioctl)
    IN  IF arrived' = NoChar \/ forFlow \/ Len(Unread) = RcvSize THEN <<>> ELSE <<arrived'>>

\* Every character that is written goes to the device once, in the order of writing,
\* and every character that arrives while there is room is read once, in the order of
\* arrival, whoever moves it; only closing the port drops any.
MovesInOrder ==
    port.openflag /\ port.openflag' /\ ~torn' =>
        /\ out' \o Pending' = Pending \o Written
        /\ taken' \o Unread' = Unread \o Received
OnceAndInOrder == [][MovesInOrder]_serialVars

Told == IF port.rcv_fc_chr # NoChar THEN port.rcv_fc_chr ELSE port.told

\* "Has STOP been sent?": the other side has been told, or will be told next,
\* what rcv_stopped says.
OtherSideKnows == port.openflag /\ bt.pc = "idle" => (port.rcv_stopped <=> Told = FC_STOP)

\* Sending has been resumed: the callback is there for the characters that wait.
PendingIsServed == port.openflag /\ port.snd.count > 0 /\ ~port.snd_stopped => port.snd_cbr

\* The comment on the echo of serial_rea_dat: a task released from its wait may
\* simply return.  So the characters that arrived can still be read.
UnreadCanBeRead == port.openflag /\ port.rcv.count > 0 => Tokens("rcv") = 1

\* A call that writes on an open port returns, or the port is closed, as long as nothing
\* has torn the call from the port and no STOP arrives (neither for ever nor followed
\* by START).
WritesReturn ==
    LET writing(t) == port.openflag /\ ~torn /\ call[t].pc # "out"
    IN  \A t \in Writers : writing(t) ~> ~writing(t)
=============================================================================
