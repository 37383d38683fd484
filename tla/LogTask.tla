--------------------------------- MODULE LogTask ---------------------------------
(***************************************************************************)
(* The log task (syssvc/logtask.c) with the system log.  Tasks and         *)
(* handlers log while it copies the entries to its serial port, another    *)
(* task waits in logtask_flush, and the kernel may terminate at any time.  *)
(*                                                                         *)
(* An entry is its number, counted from 1.  The port takes whole messages; *)
(* SerialPort has what happens inside it.                                  *)
(***************************************************************************)
EXTENDS LogBuffer, FiniteSets, Functions

CONSTANTS
    MaxLog,         \* bound: entries recorded
    PORTSIZE,       \* messages the send buffer of the port takes
    LogUptoNotice,  \* the masks the log task sets
    LogUptoEmerg

ASSUME EntryAssumption ==
    /\ MaxLog \in Nat /\ PORTSIZE \in Nat
    /\ DATA = 1 .. MaxLog /\ NoData = 0
    /\ LogUptoEmerg \subseteq LogUptoNotice /\ LogUptoNotice \subseteq PRIO

VARIABLES
    written,        \* the number of entries recorded
    lostnos,        \* those lost
    hidden,         \* the entries of a logtype below LOG_TYPE_COMMENT
    logtask, logbuf, lostlog,   \* where the log task is, its variables
    port, sent,     \* the messages given to the port, the number that left it
    low,            \* what logtask_terminate has put out
    flush, count,   \* where the task in logtask_flush is, its parameter
    mark,           \* written, when it last counted the entries
    kernel

ltVars    == <<logtask, logbuf, lostlog>>
flushVars == <<flush, count, mark>>
vars      == <<logVars, written, lostnos, hidden, ltVars, port, sent, low, flushVars, kernel>>

Message(n)     == [entry |-> n, lost |-> 0]
LostMessage(k) == [entry |-> 0, lost |-> k]

Running == kernel = "running"

\* Fault: it does not wait.
PutAlways(m) == port' = Append(port, m)

\* serial_wri_dat waits while the send buffer is full.
Put(m) == Len(port) - sent < PORTSIZE /\ port' = Append(port, m)

-----------------------------------------------------------------------------
\* A task or a handler logs an entry.
Log(prio) ==
    /\ Running
    /\ prio \in syslog_logmask => written < MaxLog
    /\ WriLog(written + 1, prio)
    /\ IF prio \in syslog_logmask
       THEN /\ written' = written + 1
            /\ lostnos' = IF syslog_buffer.count < SIZE THEN lostnos
                          ELSE lostnos \cup {FirstData(syslog_buffer)}
       ELSE UNCHANGED <<written, lostnos>>
    /\ UNCHANGED <<hidden, port, sent, low, flushVars, kernel>>

Writes(prio) == Log(prio) /\ UNCHANGED ltVars

\* Fault: the mask of what is put out at once is set first.
LtStartsLowFirst ==
    /\ Running
    /\ \/ /\ logtask = "start" /\ MskLogSecond(LogUptoEmerg) /\ logtask' = "msk"
          /\ UNCHANGED <<written, lostnos>>
       \/ /\ logtask = "msk" /\ MskLogFirst(LogUptoNotice) /\ logtask' = "rea"
          /\ UNCHANGED <<written, lostnos>>
    /\ UNCHANGED <<logbuf, lostlog, hidden, port, sent, low, flushVars, kernel>>

\* logtask_main, up to its loop; the entry it logs itself is one of Writes.
LtStarts ==
    /\ Running
    /\ \/ /\ logtask = "start" /\ MskLogFirst(LogUptoNotice) /\ logtask' = "msk"
          /\ UNCHANGED <<written, lostnos>>
       \/ /\ logtask = "msk" /\ MskLogSecond(LogUptoEmerg) /\ logtask' = "rea"
          /\ UNCHANGED <<written, lostnos>>
    /\ UNCHANGED <<logbuf, lostlog, hidden, port, sent, low, flushVars, kernel>>

\* Fault: what was lost before an entry that is not printed is forgotten.
LtReadsForgets ==
    /\ Running /\ logtask = "rea" /\ ReaLog
    /\ logbuf' = rea'[1]
    /\ lostlog' = rea'[2]
    /\ logtask' = IF logbuf' \in hidden THEN "rea" ELSE IF lostlog' > 0 THEN "lost" ELSE "print"
    /\ UNCHANGED <<written, lostnos, hidden, port, sent, low, flushVars, kernel>>

\* The inner loop of logtask_main: an entry is read,
LtReads ==
    /\ Running /\ logtask = "rea" /\ ReaLog
    /\ logbuf' = rea'[1]
    /\ lostlog' = lostlog + rea'[2]
    /\ logtask' = IF logbuf' \in hidden THEN "rea" ELSE IF lostlog' > 0 THEN "lost" ELSE "print"
    /\ UNCHANGED <<written, lostnos, hidden, port, sent, low, flushVars, kernel>>

\* the losses are told,
LtTellsLoss ==
    /\ Running /\ logtask = "lost"
    /\ Put(LostMessage(lostlog)) /\ lostlog' = 0 /\ logtask' = "print"
    /\ UNCHANGED <<logVars, written, lostnos, hidden, logbuf, sent, low, flushVars, kernel>>

\* and the entry is printed.
LtPrints ==
    /\ Running /\ logtask = "print"
    /\ Put(Message(logbuf)) /\ logtask' = "rea"
    /\ UNCHANGED <<logVars, written, lostnos, hidden, logbuf, lostlog, sent, low, flushVars, kernel>>

\* Fault: what was lost before an entry that is not printed is told only with the next.
LtRestsUntold ==
    /\ Running /\ logtask = "rea" /\ syslog_buffer.count = 0
    /\ lostlog' = 0 /\ logtask' = "dly"
    /\ UNCHANGED <<logVars, written, lostnos, hidden, logbuf, port, sent, low, flushVars, kernel>>

\* The end of the loop, once nothing is left to read: it goes on after LOGTASK_INTERVAL.
LtRests ==
    /\ Running /\ logtask = "rea" /\ syslog_buffer.count = 0
    /\ IF lostlog > 0 THEN Put(LostMessage(lostlog)) ELSE UNCHANGED port
    /\ lostlog' = 0 /\ logtask' = "dly"
    /\ UNCHANGED <<logVars, written, lostnos, hidden, logbuf, sent, low, flushVars, kernel>>

LtResumes ==
    /\ Running /\ logtask = "dly" /\ logtask' = "rea"
    /\ UNCHANGED <<logVars, written, lostnos, hidden, logbuf, lostlog, port, sent, low, flushVars, kernel>>

LogTaskStep == LtStarts \/ LtReads \/ LtTellsLoss \/ LtPrints \/ LtRests \/ LtResumes

\* A message has left the port.
Sends ==
    /\ Running /\ sent < Len(port) /\ sent' = sent + 1
    /\ UNCHANGED <<logVars, written, lostnos, hidden, ltVars, port, low, flushVars, kernel>>

-----------------------------------------------------------------------------
\* logtask_flush is called,
FlushCalled(c) ==
    /\ Running /\ flush = "idle"
    /\ flush' = "ref" /\ count' = c /\ mark' = 0
    /\ UNCHANGED <<logVars, written, lostnos, hidden, ltVars, port, sent, low, kernel>>

\* Fault: fewer entries than count are waited for.
FlushRefsFewer ==
    /\ Running /\ flush = "ref"
    /\ flush' = IF syslog_buffer.count >= count THEN "dly"
                ELSE IF count = 0 THEN "por" ELSE "idle"
    /\ mark' = written
    /\ UNCHANGED <<logVars, written, lostnos, hidden, ltVars, port, sent, low, count, kernel>>

\* counts the entries in the log,
FlushRefs ==
    /\ Running /\ flush = "ref"
    /\ flush' = IF syslog_buffer.count > count THEN "dly"
                ELSE IF count = 0 THEN "por" ELSE "idle"
    /\ mark' = written
    /\ UNCHANGED <<logVars, written, lostnos, hidden, ltVars, port, sent, low, count, kernel>>

\* then, if it waits for all of them, the messages in the port,
FlushRefsPort ==
    /\ Running /\ flush = "por"
    /\ flush' = IF sent = Len(port) THEN "idle" ELSE "dly"
    /\ UNCHANGED <<logVars, written, lostnos, hidden, ltVars, port, sent, low, count, mark, kernel>>

\* Fault: it looks at the port alone when it wakes up.
FlushWakesAtPort ==
    /\ Running /\ flush = "dly"
    /\ flush' = IF count = 0 THEN "por" ELSE "ref"
    /\ UNCHANGED <<logVars, written, lostnos, hidden, ltVars, port, sent, low, count, mark, kernel>>

\* and waits for LOGTASK_FLUSH_WAIT.
FlushWakes ==
    /\ Running /\ flush = "dly" /\ flush' = "ref"
    /\ UNCHANGED <<logVars, written, lostnos, hidden, ltVars, port, sent, low, count, mark, kernel>>

\* The task is released from that wait: logtask_flush fails.
FlushReleased ==
    /\ Running /\ flush = "dly" /\ flush' = "idle"
    /\ UNCHANGED <<logVars, written, lostnos, hidden, ltVars, port, sent, low, count, mark, kernel>>

FlushStep == FlushRefs \/ FlushRefsPort \/ FlushWakes

-----------------------------------------------------------------------------
\* The kernel terminates: no task and no handler runs any more.
ExtKer ==
    /\ Running /\ kernel' = "terminating"
    /\ UNCHANGED <<logVars, written, lostnos, hidden, ltVars, port, sent, low, flushVars>>

\* logtask_terminate: what the port has left is put out,
TerminateGets ==
    /\ kernel = "terminating" /\ sent + Len(low) < Len(port)
    /\ low' = Append(low, port[sent + Len(low) + 1])
    /\ UNCHANGED <<logVars, written, lostnos, hidden, ltVars, port, sent, flushVars, kernel>>

\* Fault: the entries in the log are put out before what the port has left.
TerminateReadsFirst ==
    /\ kernel = "terminating" /\ ReaLog
    /\ low' = low \o (IF rea'[2] > 0 THEN <<LostMessage(rea'[2])>> ELSE <<>>)
                  \o (IF rea'[1] \in hidden THEN <<>> ELSE <<Message(rea'[1])>>)
    /\ UNCHANGED <<written, lostnos, hidden, ltVars, port, sent, flushVars, kernel>>

\* then the entries in the log.
TerminateReads ==
    /\ kernel = "terminating" /\ sent + Len(low) >= Len(port) /\ ReaLog
    /\ low' = low \o (IF rea'[2] > 0 THEN <<LostMessage(rea'[2])>> ELSE <<>>)
                  \o (IF rea'[1] \in hidden THEN <<>> ELSE <<Message(rea'[1])>>)
    /\ UNCHANGED <<written, lostnos, hidden, ltVars, port, sent, flushVars, kernel>>

TerminateEnds ==
    /\ kernel = "terminating" /\ sent + Len(low) >= Len(port) /\ syslog_buffer.count = 0
    /\ kernel' = "terminated"
    /\ UNCHANGED <<logVars, written, lostnos, hidden, ltVars, port, sent, low, flushVars>>

-----------------------------------------------------------------------------
Init ==
    /\ LogInit
    /\ written = 0 /\ lostnos = {} /\ hidden \in SUBSET (1 .. MaxLog)
    /\ logtask = "start" /\ logbuf = 0 /\ lostlog = 0
    /\ port = <<>> /\ sent = 0 /\ low = <<>>
    /\ flush = "idle" /\ count = 0 /\ mark = 0
    /\ kernel = "running"

Next ==
    \/ \E prio \in PRIO : Writes(prio)
    \/ LogTaskStep \/ Sends
    \/ \E c \in 0 .. SIZE : FlushCalled(c)
    \/ FlushStep \/ FlushReleased
    \/ ExtKer \/ TerminateGets \/ TerminateReads \/ TerminateEnds

\* Tasks that are ready run in the end, delays end and the port sends.
Fairness == WF_vars(LogTaskStep) /\ WF_vars(Sends) /\ WF_vars(FlushStep)

Spec == Init /\ [][Next]_vars /\ Fairness

-----------------------------------------------------------------------------
(***************************************************************************)
(* Properties                                                              *)
(***************************************************************************)

\* The type of the variables; the port never holds more than it takes.
LogTaskTypeOK ==
    /\ written \in 0 .. MaxLog /\ lostnos \subseteq 1 .. written
    /\ syslog_logmask \subseteq PRIO /\ syslog_lowmask \subseteq PRIO
    /\ logtask \in {"start", "msk", "rea", "lost", "print", "dly"}
    /\ logbuf \in 0 .. written /\ lostlog \in 0 .. written
    /\ flush \in {"idle", "ref", "por", "dly"} /\ count \in 0 .. SIZE /\ mark \in 0 .. written
    /\ sent \in 0 .. Len(port) /\ Len(port) - sent <= PORTSIZE
    /\ \A i \in DOMAIN port : port[i] \in [entry : 0 .. written, lost : 0 .. written]
    /\ kernel \in {"running", "terminating", "terminated"}

\* From start-up on an entry of a priority to be recorded is recorded or put out at
\* once, also one that is logged between the two assignments of syslog_msk_log.
NoneUnheard == LogUptoNotice \subseteq syslog_logmask \cup syslog_lowmask

\* The losses that a sequence of messages tells, one by one, and how many they are
\* The losses that a sequence of messages tells, one by one, and how many they are
Told(out) == UNION {{i} \X (1 .. out[i].lost) : i \in DOMAIN out}
Lost(out) == Cardinality(Told(out))
Printed(out) == {m.entry : m \in Range(out)} \ {0}

\* The log task has read the entry and not yet printed it.
InHand == IF logtask \in {"lost", "print"} THEN {logbuf} ELSE {}

\* Every entry lost has been told of, or is about to be.
LossesAdd == Running => Lost(port) + lostlog + syslog_lost = Cardinality(lostnos)

\* On the port the entries follow one another in order, none is missing but those not
\* to be printed, and what was lost is told right before the entry it preceded: at
\* each entry the losses told so far are those before it.
ToldInPlace ==
    \A i \in DOMAIN port :
        LET n == port[i].entry
            before == SubSeq(port, 1, i - 1)
        IN  n > 0 =>
            /\ Printed(before) = (1 .. n - 1) \ (lostnos \cup hidden)
            /\ Lost(before) = Cardinality(lostnos \cap (1 .. n - 1))

\* When logtask_flush(0) succeeds, every entry recorded before it found the log
\* empty has left the port or was lost: but for one the log task has just read, which
\* is in neither of the two buffers that logtask_flush looks at.
FlushesAll ==
    flush = "por" /\ flush' = "idle" =>
        (1 .. mark) \ (lostnos \cup hidden)
            \subseteq Printed(SubSeq(port, 1, sent)) \cup InHand

\* What has left the port, and what logtask_terminate put out after it
Output == SubSeq(port, 1, sent) \o low

\* The entries in a sequence of messages are in the order they were recorded.
InOrder(out) ==
    \A i, j \in DOMAIN out :
        i < j /\ out[i].entry > 0 /\ out[j].entry > 0 => out[i].entry < out[j].entry

\* Once logtask_terminate has ended every entry was put out by it or sent before, in
\* order, but for one the log task had in hand.
TerminatedIsOut ==
    kernel = "terminated" =>
        /\ (1 .. written) \ (lostnos \cup hidden) \subseteq Printed(Output) \cup InHand
        /\ InOrder(Output)

\* From the first assignment of syslog_msk_log on nothing that is logged goes unheard,
\* and what comes out of the port and of logtask_terminate is the log, in order.
LogTaskIsHonest ==
    LogTaskTypeOK /\ NoneUnheard /\ LossesAdd /\ ToldInPlace /\ TerminatedIsOut

\* Entry n has been sent, told lost, or is not to be printed and has been read.
Settled(n) ==
    LET out == SubSeq(port, 1, sent)
    IN  \/ n \in Printed(out)
        \/ n \in lostnos /\ Lost(out) >= Cardinality(lostnos \cap (1 .. n))
        \/ n \in hidden \ Range(Contents(syslog_buffer, SIZE))

\* Whatever is recorded comes out of the port in the end, or its loss does.
RecordedIsHeard ==
    \A n \in 1 .. MaxLog : written >= n /\ Running ~> Settled(n) \/ ~Running

\* A task in logtask_flush leaves it, once no more is logged than the log task copies.
FlushReturns == flush # "idle" /\ Running ~> flush = "idle" \/ ~Running
=============================================================================
