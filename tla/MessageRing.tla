------------------------------ MODULE MessageRing ------------------------------
(***************************************************************************)
(* The memory of a message buffer, a ring that holds for each message its  *)
(* size in a word, and its bytes rounded up to words; either may be the    *)
(* last before the end, and a message may go on at the beginning           *)
(* (enqueue_message and dequeue_message of                                 *)
(* extension/messagebuf/kernel/messagebuf.c).  A message is the sequence   *)
(* of its bytes, and a ring m has the fields of the MBFCB but the queues.  *)
(***************************************************************************)
EXTENDS Naturals, Sequences, SequencesExt

CONSTANT WORD   \* sizeof(uint_t)

WordAssumption == WORD \in Nat \ {0}

EmptyRing(mbfsz) ==
    [fmbfsz |-> mbfsz, head |-> 0, tail |-> 0, smbfcnt |-> 0,
     mbuf |-> <<>>]       \* what has been written so far

EmptiedRing(m, mbfsz) == [m EXCEPT !.fmbfsz = mbfsz, !.head = 0, !.tail = 0, !.smbfcnt = 0]

RoundSz(n)   == ((n + WORD - 1) \div WORD) * WORD      \* TOPPERS_ROUND_SZ
AllocSz(len) == WORD + RoundSz(len)

Advance(p, n, mbfsz) == IF p + n >= mbfsz THEN 0 ELSE p + n

\* Where byte i of a message is whose first byte is at start.
ByteAt(start, i, mbfsz) == IF start + i - 1 < mbfsz THEN start + i - 1 ELSE start + i - 1 - mbfsz

\* What follows a message: its rest is rounded up where its last byte is.
\* Fault: a message that is cut at the end of the memory counts as a whole.
AfterWhole(start, len, mbfsz) == Advance(start, RoundSz(len), mbfsz)

After(start, len, mbfsz) ==
    LET remsz == mbfsz - start
    IN  IF remsz < len THEN Advance(0, RoundSz(len - remsz), mbfsz)
                       ELSE Advance(start, RoundSz(len), mbfsz)

EnqueueMessage(m, mbfsz, msg) ==
    LET start == Advance(m.tail, WORD, mbfsz)
        len   == Len(msg)
        at    == [i \in 1 .. len |-> ByteAt(start, i, mbfsz)]
        bytes == [p \in Range(at) |-> msg[AntiFunction(at)[p]]]
    IN  [m EXCEPT !.mbuf = (m.tail :> len) @@ bytes @@ @,
                  !.tail = After(start, len, mbfsz),
                  !.fmbfsz = @ - AllocSz(len),
                  !.smbfcnt = @ + 1]

\* The message whose size is at p
MessageAt(m, mbfsz, p) ==
    LET start == Advance(p, WORD, mbfsz)
    IN  [i \in 1 .. m.mbuf[p] |-> m.mbuf[ByteAt(start, i, mbfsz)]]

FirstMessage(m, mbfsz) == MessageAt(m, mbfsz, m.head)

\* Fault: the padding of the last word is not given back.
DequeueKeepsPadding(m, mbfsz) ==
    LET len == m.mbuf[m.head]
    IN  [m EXCEPT !.head = After(Advance(@, WORD, mbfsz), len, mbfsz),
                  !.fmbfsz = @ + WORD + len, !.smbfcnt = @ - 1]

DequeueMessage(m, mbfsz) ==
    LET len == m.mbuf[m.head]
    IN  [m EXCEPT !.head = After(Advance(@, WORD, mbfsz), len, mbfsz),
                  !.fmbfsz = @ + AllocSz(len), !.smbfcnt = @ - 1]

-----------------------------------------------------------------------------
\* The messages in the order of the ring, and the place after the last
Walk(m, mbfsz) ==
    LET walk[n \in 0 .. m.smbfcnt] ==
            IF n = 0 THEN [at |-> m.head, msgs |-> <<>>]
            ELSE LET w == walk[n - 1]
                     msg == MessageAt(m, mbfsz, w.at)
                 IN  [at |-> After(Advance(w.at, WORD, mbfsz), Len(msg), mbfsz),
                      msgs |-> Append(w.msgs, msg)]
    IN  walk[m.smbfcnt]

Messages(m, mbfsz) == Walk(m, mbfsz).msgs

\* What a sequence of messages takes
TotalSz(msgs) == FoldLeft(LAMBDA n, msg : n + AllocSz(Len(msg)), 0, msgs)

\* The messages end where the next begins, and take what is not free.
RingOk(m, mbfsz) ==
    /\ m.tail = Walk(m, mbfsz).at
    /\ m.fmbfsz + TotalSz(Messages(m, mbfsz)) = mbfsz
=============================================================================
