------------------------------ MODULE MCSerialPort ------------------------------
(***************************************************************************)
(* Small instances of SerialPort for TLC; part says which is explored, as  *)
(* in MCObjects.                                                           *)
(***************************************************************************)
EXTENDS Naturals, Sequences

CONSTANTS w1, r1, a, CR, LF, FC_STOP, FC_START, NoChar

VARIABLES
    part,       \* the instance explored, which no step changes
    port, ioctl, semcnt, semq, call, bt, out, taken, arrived, torn

MCChar  == {a, CR, LF, FC_STOP, FC_START}

\* The UART port with flow control: STOP and START arrive between the characters,
\* and a reader is released from its wait
Uart == INSTANCE SerialPort WITH
    Writers <- {w1}, Readers <- {r1}, PORT <- "uart", SndSize <- 2, RcvSize <- 3, DevSize <- 2,
    CHAR <- MCChar, LINE <- {a, FC_STOP, FC_START}, TEXTS <- {<<a, LF>>}, LENS <- {2},
    IOCTL <- {}, Released <- {"wai_rcv"}, UintMax <- 255

\* The same with other settings, among them the echo, for which a reader writes and in
\* which it may be released
Echo == INSTANCE SerialPort WITH
    Writers <- {w1}, Readers <- {r1}, PORT <- "uart", SndSize <- 1, RcvSize <- 2, DevSize <- 1,
    CHAR <- MCChar, LINE <- {a, LF, FC_STOP, FC_START}, TEXTS <- {<<LF>>}, LENS <- {1},
    IOCTL <- {{"ECHO", "CRLF", "FCSND", "FCRCV"}, {"FCSND", "FCANY", "FCRCV"}},
    Released <- {"wai_snd", "wai_echo"}, UintMax <- 255

\* The Bluetooth port, as long as the other side does not send STOP,
Bt == INSTANCE SerialPort WITH
    Writers <- {w1}, Readers <- {r1}, PORT <- "bt", SndSize <- 2, RcvSize <- 2, DevSize <- 2,
    CHAR <- MCChar, LINE <- {a}, TEXTS <- {<<a, a>>}, LENS <- {1},
    IOCTL <- {}, Released <- {"wai_snd", "wai_rcv"}, UintMax <- 255

\* and when it does
BtFlow == INSTANCE SerialPort WITH
    Writers <- {w1}, Readers <- {r1}, PORT <- "bt", SndSize <- 1, RcvSize <- 2, DevSize <- 1,
    CHAR <- MCChar, LINE <- {a, FC_STOP, FC_START}, TEXTS <- {<<a>>}, LENS <- {1},
    IOCTL <- {}, Released <- {}, UintMax <- 255

ASSUME MCSerialAssumption ==
    Uart!SerialAssumption /\ Echo!SerialAssumption /\ Bt!SerialAssumption /\ BtFlow!SerialAssumption

-----------------------------------------------------------------------------
serialVars == <<port, ioctl, semcnt, semq, call, bt, out, taken, arrived, torn>>

MCInit ==
    \/ part = "uart" /\ Uart!SerialInit
    \/ part = "echo" /\ Echo!SerialInit
    \/ part = "bt" /\ Bt!SerialInit
    \/ part = "flow" /\ BtFlow!SerialInit

UartStep == part = "uart" /\ Uart!SerialNext   /\ UNCHANGED part
EchoStep == part = "echo" /\ Echo!SerialNext   /\ UNCHANGED part
BtStep   == part = "bt"   /\ Bt!SerialNext     /\ UNCHANGED part
FlowStep == part = "flow" /\ BtFlow!SerialNext /\ UNCHANGED part

MCNext == UartStep \/ EchoStep \/ BtStep \/ FlowStep
MCSpec == MCInit /\ [][MCNext]_<<serialVars, part>>

-----------------------------------------------------------------------------
\* Bounds: no steps are looked at after a call and the port have come apart, for which
\* nothing is promised, nor in "flow" after snd_count has gone wrong.
Whole      == ~torn
SndCounted == part = "flow" => port.snd.count <= 1

\* What a step leaves in out, taken and arrived, and the words no index reaches, do not
\* matter for the steps to come.  Of a closed port nothing does but what bt_sio_cyc uses
\* (for the rest is set again, and a call that goes on ends the exploration).
Buffers == CASE part = "uart" -> <<Uart!Pending, Uart!Unread>>
             [] part = "flow" -> <<BtFlow!Pending, BtFlow!Unread>>
             [] OTHER         -> <<Bt!Pending, Bt!Unread>>
PortView ==
    CASE port.openflag -> <<[port EXCEPT !.snd.mb = Buffers[1], !.rcv.mb = Buffers[2]], ioctl>>
      [] part \in {"bt", "flow"} /\ ~port.openflag ->
             <<port.room, port.snd_cbr, port.rcv_fc_chr # NoChar, port.snd_stopped,
               port.snd.head, port.snd.tail, port.snd.count>>
      [] OTHER -> <<>>
SerialView == <<part, PortView, semcnt, semq, call, bt>>

-----------------------------------------------------------------------------
(***************************************************************************)
(* Properties                                                              *)
(***************************************************************************)

\* SerialTypeOK, TokensMatchBuffers and NeverInError: until a call and the port come
\* apart (torn), the semaphores stand for room and for characters, so that no task waits
\* in vain and no signal is refused, whatever step of opening or closing comes between.  On
\* the UART port the other side knows whether it may send (OtherSideKnows).  On the
\* Bluetooth port a character can be read even after flow control has spoilt the
\* sending side (UnreadCanBeRead).
SerialConsistent ==
    torn \/ CASE part = "uart" -> /\ Uart!SerialTypeOK /\ Uart!TokensMatchBuffers
                                 /\ Uart!NeverInError /\ Uart!OtherSideKnows
              [] part = "echo" -> Echo!SerialTypeOK /\ Echo!TokensMatchBuffers /\ Echo!NeverInError
              [] part = "bt"   -> Bt!SerialTypeOK /\ Bt!TokensMatchBuffers /\ Bt!NeverInError
              [] part = "flow" -> BtFlow!UnreadCanBeRead

\* OnceAndInOrder of SerialPort: whoever moves a character, an interrupt or a task,
\* what is written goes out once and what arrives is read once, in order, until a call
\* and the port come apart; only closing the port drops any.
OnceAndInOrder ==
    [][/\ part = "uart" => Uart!MovesInOrder
       /\ part = "echo" => Echo!MovesInOrder
       /\ part = "bt"   => Bt!MovesInOrder]_serialVars

\* PendingIsServed of SerialPort on the UART port: after START the characters that wait
\* are sent (serial.c:762).
PendingIsServed == part = "uart" => Uart!PendingIsServed
=============================================================================
