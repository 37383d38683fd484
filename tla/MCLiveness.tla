------------------------------- MODULE MCLiveness -------------------------------
(***************************************************************************)
(* Small instances for the liveness properties; part says which is         *)
(* explored, as in MCObjects.  The fairness of a module is assumed in its  *)
(* part, and the others stay in their initial states.                      *)
(***************************************************************************)
EXTENDS Naturals, Sequences, TLC

CONSTANTS t1, t2, NoTask, e1, e2, c1, a1, NoEvt, w1, r1, a, CR, LF, FC_STOP, FC_START, NoChar

VARIABLES
    part,
    exist, tstat, ipriority, bpriority, priority, actque, wupque, waifbd, tmevt, ready,
    runtsk, reqflg, ipmflg, disdsp, dspflg, locked, nest,
    tmevt_heap, index, current_time, min_time, next_time, next_subtime, cback, reltim, ticks,
    hdrexist, cyctim, cycphs, cycsta, almsta, evttim, ahead,
    syslog_buffer, syslog_lost, syslog_logmask, syslog_lowmask, rea, written, lostnos, hidden,
    logtask, logbuf, lostlog, lport, sent, low, flush, count, mark, kernel,
    port, ioctl, semcnt, semq, call, bt, out, taken, arrived, torn,
    pc, actcnt, unload, status, app, card, mounted, evtflg, connected, media,
    ev3rt_usb_auto_terminate_app, plugs, asked, failed

\* Two tasks, of which t1 has the higher priority, which neither may give out, and
\* interrupts that nest
Sched == INSTANCE Scheduler WITH
    TASK <- {t1, t2}, DynTask <- {}, TNUM_TPRI <- 2, MaxNest <- 2,
    IniPriority <- (t1 :> 0) @@ (t2 :> 1), MinPriority <- (t1 :> 1) @@ (t2 :> 1)

\* Two events; a cyclic handler made at run time and an alarm handler, with a tick
\* longer than the shortest cycle
Events == INSTANCE TimeEvent WITH
    EVT <- {e1, e2}, MODULUS <- 8, TMAX_RELTIM <- 2, TIC_NUME <- 1, TIC_DENO <- 2
Handlers == INSTANCE CyclicAlarm WITH
    CYC <- {c1}, ALM <- {a1}, EVT <- {c1, a1}, DynHdr <- {c1},
    MODULUS <- 9, TMAX_RELTIM <- 2, TIC_NUME <- 3, TIC_DENO <- 2, exist <- hdrexist

\* Three entries, a log of two and a port that takes one message
Log == INSTANCE LogTask WITH
    DATA <- 1 .. 3, NoData <- 0, MaxLog <- 3, TCNT_SYSLOG_BUFFER <- 2, PORTSIZE <- 1,
    PRIO <- {"emerg", "notice", "debug"},
    LogUptoNotice <- {"emerg", "notice"}, LogUptoEmerg <- {"emerg"}, port <- lport

\* A writer and a reader on a port with buffers of one character
Serial == INSTANCE SerialPort WITH
    Writers <- {w1}, Readers <- {r1}, PORT <- "uart", SndSize <- 1, RcvSize <- 1, DevSize <- 1,
    CHAR <- {a, CR, LF, FC_STOP, FC_START}, LINE <- {a}, TEXTS <- {<<a, LF>>}, LENS <- {1},
    IOCTL <- {}, Released <- {"wai_snd"}, UintMax <- 255

\* The cable is plugged in twice.
Loader == INSTANCE AppLoader WITH MaxPlug <- 2

-----------------------------------------------------------------------------
schedVars  == <<exist, tstat, ipriority, bpriority, priority, actque, wupque, waifbd, tmevt,
                ready, runtsk, reqflg, ipmflg, disdsp, dspflg, locked, nest>>
heapVars   == <<tmevt_heap, index, current_time, min_time, next_time, next_subtime, cback>>
askVars    == <<reltim, ticks>>
hdrVars    == <<hdrexist, cyctim, cycphs, cycsta, almsta, evttim, ahead>>
logVars    == <<syslog_buffer, syslog_lost, syslog_logmask, syslog_lowmask, rea, written,
                lostnos, hidden, logtask, logbuf, lostlog, lport, sent, low, flush, count,
                mark, kernel>>
serialVars == <<port, ioctl, semcnt, semq, call, bt, out, taken, arrived, torn>>
loaderVars == <<pc, actcnt, unload, status, app, card, mounted, evtflg, connected, media,
                ev3rt_usb_auto_terminate_app, plugs, asked, failed>>

NoHdr == /\ hdrexist = {} /\ cyctim = <<>> /\ cycphs = <<>> /\ cycsta = {} /\ almsta = {}
         /\ evttim = <<>> /\ ahead = <<>>
AtRest(p) ==
    /\ p # "sched" => Sched!Init /\ runtsk = NoTask
    /\ p # "log" => Log!Init /\ hidden = {}
    /\ p # "serial" => Serial!SerialInit
    /\ p # "loader" => Loader!Init /\ ~ev3rt_usb_auto_terminate_app
    /\ p \notin {"events", "handlers"} => Events!Init /\ NoHdr

MCInit ==
    /\ part \in {"sched", "events", "handlers", "log", "serial", "loader"}
    /\ AtRest(part)
    /\ CASE part = "sched"    -> Sched!Init
         [] part = "events"   -> Events!Init /\ NoHdr
         [] part = "handlers" -> Handlers!HdrInit /\ reltim = <<>> /\ ticks = <<>>
         [] part = "log"      -> Log!Init
         [] part = "serial"   -> Serial!SerialInit
         [] part = "loader"   -> Loader!Init

\* What a step of one part leaves alone
butSched    == <<part, heapVars, askVars, hdrVars, logVars, serialVars, loaderVars>>
butEvents   == <<part, schedVars, hdrVars, logVars, serialVars, loaderVars>>
butHandlers == <<part, schedVars, askVars, logVars, serialVars, loaderVars>>
butLog      == <<part, schedVars, heapVars, askVars, hdrVars, serialVars, loaderVars>>
butSerial   == <<part, schedVars, heapVars, askVars, hdrVars, logVars, loaderVars>>
butLoader   == <<part, schedVars, heapVars, askVars, hdrVars, logVars, serialVars>>

SchedStep    == part = "sched" /\ Sched!Next /\ UNCHANGED butSched
EventsStep   == part = "events" /\ Events!Next /\ UNCHANGED butEvents
HandlersStep == part = "handlers" /\ Handlers!HdrNext /\ UNCHANGED butHandlers
LogStep      == part = "log" /\ Log!Next /\ UNCHANGED butLog
SerialStep   == part = "serial" /\ Serial!SerialNext /\ UNCHANGED butSerial
LoaderStep   == part = "loader" /\ Loader!Next /\ UNCHANGED butLoader

MCNext == SchedStep \/ EventsStep \/ HandlersStep \/ LogStep \/ SerialStep \/ LoaderStep

allVars == <<part, schedVars, heapVars, askVars, hdrVars, logVars, serialVars, loaderVars>>

\* The fairness of Scheduler, TimeEvent, CyclicAlarm, LogTask, SerialPort and AppLoader.
\* One part is explored in a behaviour, so that a condition of each fits into one WF_;
\* UartSnd and PorStep are never enabled at the same time, the port being open or not.
Fair1 ==
    \/ part = "sched" /\ Sched!IntExitNested /\ UNCHANGED butSched
    \/ part = "events" /\ Events!CallbackReturns /\ UNCHANGED butEvents
    \/ part = "handlers" /\ Handlers!HandlerReturns /\ UNCHANGED butHandlers
    \/ part = "log" /\ Log!LogTaskStep /\ UNCHANGED butLog
    \/ part = "serial" /\ (Serial!UartSnd \/ Serial!PorStep) /\ UNCHANGED butSerial
    \/ part = "loader" /\ Loader!ConsoleGoesOn /\ UNCHANGED butLoader
Fair2 ==
    \/ part = "log" /\ Log!Sends /\ UNCHANGED butLog
    \/ part = "serial" /\ Serial!TaskStep(w1) /\ UNCHANGED butSerial
    \/ part = "loader" /\ Loader!TermNext /\ UNCHANGED butLoader
Fair3 ==
    \/ part = "log" /\ Log!FlushStep /\ UNCHANGED butLog
    \/ part = "serial" /\ Serial!TaskStep(r1) /\ UNCHANGED butSerial
    \/ part = "loader" /\ Loader!UsbNext /\ UNCHANGED butLoader

MCFairness ==
    /\ WF_allVars(Fair1) /\ WF_allVars(Fair2) /\ WF_allVars(Fair3)
    /\ SF_allVars(part = "sched" /\ Sched!IntExit /\ UNCHANGED butSched)
    /\ SF_allVars(part = "sched" /\ Sched!IdleExit /\ UNCHANGED butSched)

\* Bound: the serial port is not looked at once it is closed, which makes every call that
\* waits return (MCSerialPort explores closing), nor once a call has come apart from it.
PortStaysOpen == bt.pc # "cls_snd" /\ ~torn

MCSpec == MCInit /\ [][MCNext]_allVars /\ MCFairness

-----------------------------------------------------------------------------
(***************************************************************************)
(* Properties                                                              *)
(***************************************************************************)

\* RequestIsServed of Scheduler: while dispatching is enabled the highest priority task
\* gets the processor in the end, through whatever interrupts nest.
RequestIsServed == Sched!RequestIsServed

\* An entry that is recorded comes out in the end, or the loss of it does.
RecordedIsHeard == Log!RecordedIsHeard

\* FlushReturns of LogTask, WritesReturn of SerialPort, WaitReturns of AppLoader and
\* SignalTimeEnds of TimeEvent and CyclicAlarm, each of which is of the form P ~> ~P for
\* a P of its part: a call that waits returns, and the loops of signal_time end, though
\* callbacks register events again, a late cyclic handler in the past even.  A call that
\* writes returns as long as its port stays open, it has not come apart from it, and no
\* STOP arrives.
InCall ==
    \/ flush # "idle" /\ Log!Running
    \/ port.openflag /\ ~torn /\ call[w1].pc # "out"
    \/ pc["console"] = "wait" /\ failed = "none"
    \/ cback # NoEvt

CallsReturn == InCall ~> ~InCall
=============================================================================
