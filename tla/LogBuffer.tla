-------------------------------- MODULE LogBuffer --------------------------------
(***************************************************************************)
(* The system log (syssvc/syslog.c).  Its buffer is a ring like that of a  *)
(* data queue; every call works with interrupts locked out, but msk_log.   *)
(***************************************************************************)
EXTENDS RingBuffer

CONSTANTS
    TCNT_SYSLOG_BUFFER,
    PRIO                    \* the priorities of log entries

ASSUME LogAssumption ==
    /\ TCNT_SYSLOG_BUFFER \in Nat \ {0}
    /\ NoData \notin DATA

VARIABLES
    syslog_buffer,          \* with syslog_count, syslog_head and syslog_tail
    syslog_lost,
    syslog_logmask,         \* the priorities to be recorded,
    syslog_lowmask,         \* those put out at once: the complement of syslog_lowmask_not
    rea                     \* the last entry read and the value returned with it, or <<>>

bufVars  == <<syslog_buffer, syslog_lost, rea>>
maskVars == <<syslog_logmask, syslog_lowmask>>
logVars  == <<bufVars, maskVars>>

SIZE == TCNT_SYSLOG_BUFFER

\* syslog_initialize, and the memory as it is at start
LogInit ==
    /\ syslog_buffer = EmptyRing(SIZE)
    /\ syslog_lost = 0
    /\ syslog_logmask = {} /\ syslog_lowmask = PRIO
    /\ rea = <<>>

\* Fault: a full buffer is not told from one with room left.
RecordUncounted(x) ==
    /\ syslog_buffer' = ForceEnqueueData(syslog_buffer, SIZE, x)
    /\ UNCHANGED syslog_lost

\* The entry is recorded; when the buffer is full the oldest one is lost.
Record(x) ==
    /\ syslog_buffer' = ForceEnqueueData(syslog_buffer, SIZE, x)
    /\ syslog_lost' = IF syslog_buffer.count < SIZE THEN syslog_lost ELSE syslog_lost + 1

\* syslog_wri_log, but for what it puts out at once
WriLog(x, prio) ==
    /\ IF prio \in syslog_logmask THEN Record(x) ELSE UNCHANGED <<syslog_buffer, syslog_lost>>
    /\ UNCHANGED <<maskVars, rea>>

\* Fault: the count of lost entries is not reset.
ReaLogKeepsLost ==
    /\ syslog_buffer.count > 0
    /\ syslog_buffer' = DequeueData(syslog_buffer, SIZE)
    /\ rea' = <<FirstData(syslog_buffer), syslog_lost>>
    /\ UNCHANGED <<syslog_lost, maskVars>>

\* syslog_rea_log that finds an entry
ReaLog ==
    /\ syslog_buffer.count > 0
    /\ syslog_buffer' = DequeueData(syslog_buffer, SIZE)
    /\ rea' = <<FirstData(syslog_buffer), syslog_lost>>
    /\ syslog_lost' = 0
    /\ UNCHANGED maskVars

\* The two assignments of syslog_msk_log, with interrupts enabled
MskLogFirst(logmask) ==
    syslog_logmask' = logmask /\ UNCHANGED <<bufVars, syslog_lowmask>>

MskLogSecond(lowmask) ==
    syslog_lowmask' = lowmask /\ UNCHANGED <<bufVars, syslog_logmask>>

LogNext ==
    \/ \E x \in DATA, prio \in PRIO : WriLog(x, prio)
    \/ ReaLog
    \/ \E mask \in SUBSET PRIO : MskLogFirst(mask) \/ MskLogSecond(mask)

LogSpec == LogInit /\ [][LogNext]_logVars

-----------------------------------------------------------------------------
(***************************************************************************)
(* Properties                                                              *)
(***************************************************************************)

\* The indexes of the buffer agree with the count, and every entry counted has
\* been written.
BufferConsistent == RingOk(syslog_buffer, SIZE) /\ syslog_lost \in Nat

Lossy == INSTANCE LossyLog WITH
            ENTRY <- DATA, Nothing <- <<>>,
            pending <- Contents(syslog_buffer, SIZE), missed <- syslog_lost, read <- rea

\* The buffer gives out its entries in the order they were recorded, loses only the
\* oldest ones and tells the reader exactly how many.
IsLossyLog == Lossy!Spec
=============================================================================
