------------------------------- MODULE MCServices -------------------------------
(***************************************************************************)
(* LogTask, AppLoader, EV3Cyclic and TaskException side by side: they      *)
(* share no state.  part says which is explored, as in MCObjects.          *)
(***************************************************************************)
EXTENDS LogTask, TLC

CONSTANTS
    MaxPlug,                                            \* of AppLoader
    AppTask, TMAX_EV3_CYC_NUM, TSKID, CYCID, MaxLoad,   \* of EV3Cyclic
    Domains, LowFactor, HighFactor, MaxNest             \* of TaskException

Entries == 1 .. MaxLog      \* DATA in the cfg

VARIABLES
    part,       \* the instance explored, which no step changes
    pc, actcnt, unload, status, app, card, mounted, evtflg, connected, media,
    ev3rt_usb_auto_terminate_app, plugs, asked, usbfailed,
    tmax_ev3cycid, cycinib, tsk, act, cyc, on, slot, apppc, my, new, given, quiet, dsp,
    term, k, deleted, loads, left, cut, cycfailed,
    texptn, enatex, svclevel, ipmflg, disdsp, locked, levels, mode, resume, hready, acptn,
    user, overlooked

\* The console, the termination task and the USB task
Loader == INSTANCE AppLoader WITH failed <- usbfailed

\* The tasks of an application, the tasks and cyclic handlers of the platform
Cyc == INSTANCE EV3Cyclic WITH pc <- apppc, count <- deleted, failed <- cycfailed

\* A task of the kernel domain or of a user domain
Tex == INSTANCE TaskException

ASSUME MCServicesAssumption ==
    Cyc!IdAssumption /\ Loader!LoaderAssumption /\ Tex!TexAssumption

-----------------------------------------------------------------------------
\* Modules that are not explored stay as they are.
loaderOnly == <<pc, actcnt, unload, status, app, card, mounted, evtflg, connected, media,
                ev3rt_usb_auto_terminate_app, plugs, asked, usbfailed>>
cycOnly    == <<tmax_ev3cycid, cycinib, tsk, act, cyc, on, slot, apppc, my, new, given, quiet,
                dsp, term, k, deleted, loads, left, cut, cycfailed>>
texOnly    == <<texptn, enatex, svclevel, ipmflg, disdsp, locked, levels, mode, resume, hready,
                acptn, user, overlooked>>

NoLog == Init /\ hidden = {}
NoLoader == /\ pc = <<>> /\ actcnt = 0 /\ unload = TRUE /\ status = "FREE" /\ app = FALSE
            /\ card = 1 /\ mounted = TRUE /\ evtflg = {} /\ connected = FALSE
            /\ media = "dummy" /\ ev3rt_usb_auto_terminate_app = FALSE /\ plugs = 0
            /\ asked = FALSE /\ usbfailed = "none"
NoCyc == /\ tmax_ev3cycid = 0 /\ cycinib = <<>> /\ tsk = {} /\ act = <<>> /\ cyc = {}
         /\ on = {} /\ slot = <<>> /\ apppc = <<>> /\ my = <<>> /\ new = <<>> /\ given = {}
         /\ quiet = {} /\ dsp = TRUE /\ term = "none" /\ k = 0 /\ deleted = 0 /\ loads = 0
         /\ left = {} /\ cut = FALSE /\ cycfailed = "none"
NoTex == /\ texptn = {} /\ enatex = FALSE /\ svclevel = 0 /\ ipmflg = TRUE /\ disdsp = FALSE
         /\ locked = FALSE /\ levels = <<>> /\ mode = "run" /\ resume = "none"
         /\ hready = FALSE /\ acptn = {} /\ user = FALSE /\ overlooked = "none"

MCInit ==
    \/ part = "log" /\ Init /\ NoLoader /\ NoCyc /\ NoTex
    \/ part = "loader" /\ NoLog /\ Loader!Init /\ NoCyc /\ NoTex
    \/ part = "cyclic" /\ NoLog /\ NoLoader /\ Cyc!Init /\ NoTex
    \/ part = "tex" /\ NoLog /\ NoLoader /\ NoCyc /\ Tex!Init

LogRuns    == part = "log"    /\ Next        /\ UNCHANGED <<part, loaderOnly, cycOnly, texOnly>>
LoaderRuns == part = "loader" /\ Loader!Next /\ UNCHANGED <<part, vars, cycOnly, texOnly>>
CyclicRuns == part = "cyclic" /\ Cyc!Next /\ UNCHANGED <<part, vars, loaderOnly, texOnly>>
TexRuns    == part = "tex"    /\ Tex!Next    /\ UNCHANGED <<part, vars, loaderOnly, cycOnly>>

MCNext == LogRuns \/ LoaderRuns \/ CyclicRuns \/ TexRuns

MCSpec == MCInit /\ [][MCNext]_<<vars, part, loaderOnly, cycOnly, texOnly>>

-----------------------------------------------------------------------------
\* Bound: the table holds the error code of one failed creation at a time.
FailedBy(a, field) ==
    new[a] = Cyc!ErrorCode /\ apppc[a] = IF field = "task" THEN "made" ELSE "cycled"
OneFailure ==
    part = "cyclic" =>
        Cardinality({e \in Cyc!Ev3CycId \X {"task", "cyclic"} :
                        \/ cycinib[e[1]][e[2]] = Cyc!ErrorCode
                        \/ \E a \in AppTask : my[a] = e[1] /\ FailedBy(a, e[2])}) <= 1

\* The tasks of an application are alike.
AppSymmetry == Permutations(AppTask)

-----------------------------------------------------------------------------
(***************************************************************************)
(* Properties, besides BufferConsistent and IsLossyLog of LogBuffer and    *)
(* LogTaskIsHonest of LogTask, which hold in every part: elsewhere than in *)
(* "log" nothing is logged.                                                *)
(***************************************************************************)

\* FlushesAll of LogTask: when logtask_flush(0) succeeds all that was recorded before
\* has left the port, but for the entry that the log task has in hand.  HandsToUsb of
\* AppLoader: a termination that the user asked for gives the card to a USB task that
\* waits for it.
NobodyIsPassedOver ==
    [][FlushesAll /\ (part = "loader" => Loader!HandsToUsb)]_<<vars, loaderOnly>>

\* CardHasOneOwner, MountedForUsers, ContainerAsExpected and ResetsStopped of
\* AppLoader: the console, the application and the USB task share the SD card by one
\* semaphore, and what the three tasks find when they go on is what they assert.
LoaderConsistent ==
    part = "loader" => Loader!LoaderConsistent

\* HandlerHasTask, StoppedIsQuiet, NothingOutlives and AllInTable of EV3Cyclic: the
\* table agrees with the tasks and cyclic handlers of the kernel, whoever of two tasks,
\* the timer interrupt and the terminating task comes first, unless an application is
\* cut off while it creates a handler.  An entry whose acre_tsk has failed has no task,
\* and a task with a queued activation, which ter_tsk starts again, is left.
CyclicsConsistent ==
    part = "cyclic" => Cyc!CyclicsConsistent

\* AtOnceUnlessOverlooked, ContextKept, EnatexKept and NestsIfEnabled of
\* TaskException: a routine starts when it is due, and the code it interrupts goes on
\* as it was left.  For a user task exceptions may be enabled when the routine is
\* called again, so that the last two are those of a system task only.
RoutinesInContext ==
    part = "tex" => Tex!RoutinesInContext
=============================================================================
