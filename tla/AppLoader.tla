-------------------------------- MODULE AppLoader --------------------------------
(***************************************************************************)
(* The application loader: the console task that loads an application and  *)
(* shuts down, APP_TERM_TASK that terminates it, the USB mass storage task *)
(* and its interrupt, and the SD card they share.                          *)
(*                                                                         *)
(* A task runs when those of higher priority wait, or may wait in a        *)
(* driver; the interrupt runs at any time.  The application has the lowest *)
(* priority and nothing it does matters here except that it is loaded.     *)
(* A failed assertion stops the system.                                    *)
(***************************************************************************)
EXTENDS Naturals, FiniteSets

CONSTANT
    MaxPlug     \* bound: times the cable is plugged in

LoaderAssumption == MaxPlug \in Nat

VARIABLES
    pc,         \* where each task is
    actcnt,     \* queued activations of APP_TERM_TASK
    unload,     \* the bit APP_STATUS_UNLOAD of APP_STATUS_FLAG
    status,     \* of the container of the loader (dmloader.c)
    app,        \* whether the tasks of an application exist
    card,       \* the count of MMCSD_MOD_SEM
    mounted,    \* whether the file system of the card is mounted
    evtflg,     \* the bits of USBMSC_EVT_FLG
    connected,
    media,      \* the media functions of the USB device
    ev3rt_usb_auto_terminate_app,
    plugs,      \* times the cable was plugged in
    asked,      \* the interrupt has asked for an application to terminate
    failed      \* the assertion that failed

loaderVars == <<unload, status, app>>
cardVars   == <<card, mounted>>
usbVars    == <<evtflg, connected, media, plugs>>
vars       == <<pc, actcnt, loaderVars, cardVars, usbVars,
                ev3rt_usb_auto_terminate_app, asked, failed>>

TMAX_ACTCNT == 1

\* Where a task waits, and where it is in a driver that may let it wait.
Waits   == [usb |-> {"conn", "acquire", "disconn"}, term |-> {"dormant"},
            console |-> {"idle", "wait", "off"}]
Driver  == [usb |-> {"unmounts", "mounts"}, term |-> {"resets"},
            console |-> {"menu", "handler", "resets"}]
Higher  == [usb |-> {}, term |-> {"usb"}, console |-> {"usb", "term"}]

Running == failed = "none" /\ pc["console"] # "off"

At(task, label) ==
    /\ Running
    /\ pc[task] = label
    /\ \A h \in Higher[task] : pc[h] \in Waits[h] \cup Driver[h]

Goto(task, label) == pc' = [pc EXCEPT ![task] = label]

\* acquire_mmcsd of the task at usb is the only one that waits.
\* Fault: the task that waits is not given the card.
ReleaseMmcsdAlone(task, label) ==
    card' = 1 /\ Goto(task, label)

\* Fault: the task that waits gets the card and its count.
ReleaseMmcsdTwice(task, label) ==
    /\ card' = card + 1
    /\ pc' = [pc EXCEPT !["usb"] = IF @ = "acquire" THEN "unmounts" ELSE @, ![task] = label]

ReleaseMmcsd(task, label) ==
    IF pc["usb"] = "acquire"
    THEN card' = card /\ pc' = [pc EXCEPT !["usb"] = "unmounts", ![task] = label]
    ELSE card' = card + 1 /\ Goto(task, label)

\* act_tsk and iact_tsk, in the task or handler that goes on at label.
TerminateRequest(p) ==
    CASE p["term"] = "dormant" ->
            pc' = [p EXCEPT !["term"] = "polls"] /\ UNCHANGED <<actcnt, failed>>
      [] p["term"] # "dormant" /\ actcnt < TMAX_ACTCNT ->
            actcnt' = actcnt + 1 /\ pc' = p /\ UNCHANGED failed
      [] OTHER ->
            failed' = "application_terminate_request" /\ pc' = p /\ UNCHANGED actcnt

-----------------------------------------------------------------------------
\* The console task: load_app and shutdown of the menu.
ConsoleRequests ==
    /\ At("console", "idle")
    /\ TerminateRequest([pc EXCEPT !["console"] = "wait"])
    /\ UNCHANGED <<loaderVars, cardVars, usbVars, ev3rt_usb_auto_terminate_app, asked>>

ConsoleGoesOn ==
    /\ At("console", "wait") /\ unload
    /\ \E next \in {"menu", "shutdown"} : Goto("console", next)
    /\ UNCHANGED <<actcnt, loaderVars, cardVars, usbVars, ev3rt_usb_auto_terminate_app,
                   asked, failed>>

ConsoleCancels ==
    /\ At("console", "menu")
    /\ Goto("console", "idle")
    /\ UNCHANGED <<actcnt, loaderVars, cardVars, usbVars, ev3rt_usb_auto_terminate_app,
                   asked, failed>>

\* try_acquire_mmcsd, of the menu and of the shutdown.
ConsoleTriesCard ==
    /\ \/ At("console", "menu") /\ Goto("console", IF card = 1 THEN "handler" ELSE "idle")
       \/ At("console", "shutdown") /\ Goto("console", IF card = 1 THEN "off" ELSE "idle")
    /\ card' = 0
    /\ UNCHANGED <<actcnt, loaderVars, mounted, usbVars, ev3rt_usb_auto_terminate_app,
                   asked, failed>>

\* The handler of the entry ends without an application.
ConsoleGivesUp ==
    /\ At("console", "handler")
    /\ ReleaseMmcsd("console", "idle")
    /\ UNCHANGED <<actcnt, loaderVars, mounted, usbVars, ev3rt_usb_auto_terminate_app,
                   asked, failed>>

\* load_application
ConsoleLoads ==
    /\ At("console", "handler")
    /\ Goto("console", "resets")
    /\ UNCHANGED <<actcnt, loaderVars, cardVars, usbVars, ev3rt_usb_auto_terminate_app,
                   asked, failed>>

ConsoleHasReset ==
    /\ At("console", "resets")
    /\ Goto("console", "ins")
    /\ UNCHANGED <<actcnt, loaderVars, cardVars, usbVars, ev3rt_usb_auto_terminate_app,
                   asked, failed>>

\* dmloader_ins_ldm fails, or creates and activates the tasks.
\* Fault: the flag is cleared before the status is written.
ConsoleInsClears ==
    /\ At("console", "ins")
    /\ \/ Goto("console", "handler") /\ UNCHANGED <<app, unload>>
       \/ status = "FREE" /\ app' = TRUE /\ unload' = FALSE /\ Goto("console", "marks")
    /\ UNCHANGED <<actcnt, status, cardVars, usbVars, ev3rt_usb_auto_terminate_app,
                   asked, failed>>

ConsoleIns ==
    /\ At("console", "ins")
    /\ \/ Goto("console", "handler") /\ UNCHANGED app
       \/ status = "FREE" /\ app' = TRUE /\ Goto("console", "marks")
    /\ UNCHANGED <<actcnt, status, unload, cardVars, usbVars, ev3rt_usb_auto_terminate_app,
                   asked, failed>>

\* The status is written after the mutex has been unlocked.
ConsoleMarks ==
    /\ At("console", "marks")
    /\ status' = "RUNNING"
    /\ Goto("console", "clears")
    /\ UNCHANGED <<actcnt, unload, app, cardVars, usbVars, ev3rt_usb_auto_terminate_app,
                   asked, failed>>

\* clr_flg; the card is the application's from here on.
ConsoleClears ==
    /\ At("console", "clears")
    /\ unload' = FALSE
    /\ Goto("console", "idle")
    /\ UNCHANGED <<actcnt, status, app, cardVars, usbVars, ev3rt_usb_auto_terminate_app,
                   asked, failed>>

-----------------------------------------------------------------------------
\* application_terminate_task
\* Fault: the drivers are reset before the application is removed.
TermResetsFirst ==
    /\ At("term", "polls")
    /\ Goto("term", IF unload THEN "exits" ELSE "resets")
    /\ UNCHANGED <<actcnt, loaderVars, cardVars, usbVars, ev3rt_usb_auto_terminate_app,
                   asked, failed>>

TermPolls ==
    /\ At("term", "polls")
    /\ Goto("term", IF unload THEN "exits" ELSE "removes")
    /\ UNCHANGED <<actcnt, loaderVars, cardVars, usbVars, ev3rt_usb_auto_terminate_app,
                   asked, failed>>

\* dmloader_rmv_ldm; the status is checked, the tasks are terminated and deleted.
TermRemoves ==
    /\ At("term", "removes")
    /\ IF status = "RUNNING"
       THEN status' = "FREE" /\ app' = FALSE /\ asked' = FALSE /\ UNCHANGED failed
       ELSE failed' = "dmloader_rmv_ldm" /\ UNCHANGED <<status, app, asked>>
    /\ Goto("term", "resets")
    /\ UNCHANGED <<actcnt, unload, cardVars, usbVars, ev3rt_usb_auto_terminate_app>>

TermHasReset ==
    /\ At("term", "resets")
    /\ Goto("term", "releases")
    /\ UNCHANGED <<actcnt, loaderVars, cardVars, usbVars, ev3rt_usb_auto_terminate_app,
                   asked, failed>>

\* Fault: the card stays with the application that is gone.
TermKeepsCard ==
    /\ At("term", "releases")
    /\ Goto("term", "sets")
    /\ UNCHANGED <<actcnt, loaderVars, cardVars, usbVars, ev3rt_usb_auto_terminate_app,
                   asked, failed>>

TermReleases ==
    /\ At("term", "releases")
    /\ ReleaseMmcsd("term", "sets")
    /\ UNCHANGED <<actcnt, loaderVars, mounted, usbVars, ev3rt_usb_auto_terminate_app,
                   asked, failed>>

\* Fault: the flag is not set.
TermSetsNothing ==
    /\ At("term", "sets")
    /\ Goto("term", "exits")
    /\ UNCHANGED <<actcnt, loaderVars, cardVars, usbVars, ev3rt_usb_auto_terminate_app,
                   asked, failed>>

TermSets ==
    /\ At("term", "sets")
    /\ unload' = TRUE
    /\ Goto("term", "exits")
    /\ UNCHANGED <<actcnt, status, app, cardVars, usbVars, ev3rt_usb_auto_terminate_app,
                   asked, failed>>

\* The task ends, and starts again if an activation is queued.
TermExits ==
    /\ At("term", "exits")
    /\ actcnt' = IF actcnt > 0 THEN actcnt - 1 ELSE 0
    /\ Goto("term", IF actcnt > 0 THEN "polls" ELSE "dormant")
    /\ UNCHANGED <<loaderVars, cardVars, usbVars, ev3rt_usb_auto_terminate_app,
                   asked, failed>>

-----------------------------------------------------------------------------
\* USBMSC_EVT_FLG has TA_CLR: the task released by a bit clears them all.
\* wai_flg(bit) by the USB task, which goes on at label or waits at wait.
WaiFlg(bit, label, wait) ==
    IF bit \in evtflg THEN evtflg' = {} /\ Goto("usb", label)
                      ELSE evtflg' = evtflg /\ Goto("usb", wait)

\* iset_flg(bit); p is where the tasks go on.
AfterSetFlg(bit) ==
    CASE bit = "CONNECT" /\ pc["usb"] = "conn"    -> [pc EXCEPT !["usb"] = "acquires"]
      [] bit = "DISCONN" /\ pc["usb"] = "disconn" -> [pc EXCEPT !["usb"] = "mounts"]
      [] OTHER -> pc

IsetFlg(bit) == evtflg' = IF AfterSetFlg(bit) = pc THEN evtflg \cup {bit} ELSE {}

\* usbmsc_event_callback
UsbConnected ==
    /\ Running
    /\ ~connected /\ plugs < MaxPlug
    /\ connected' = TRUE /\ plugs' = plugs + 1
    /\ IsetFlg("CONNECT")
    /\ IF ev3rt_usb_auto_terminate_app
       THEN TerminateRequest(AfterSetFlg("CONNECT")) /\ asked' = app
       ELSE pc' = AfterSetFlg("CONNECT") /\ UNCHANGED <<actcnt, failed, asked>>
    /\ UNCHANGED <<loaderVars, cardVars, media, ev3rt_usb_auto_terminate_app>>

UsbDisconnected ==
    /\ Running
    /\ connected
    /\ connected' = FALSE /\ media' = "dummy"
    /\ IsetFlg("DISCONN") /\ pc' = AfterSetFlg("DISCONN")
    /\ UNCHANGED <<actcnt, loaderVars, cardVars, plugs, ev3rt_usb_auto_terminate_app,
                   asked, failed>>

\* usb_msc_task
UsbAcquires ==
    /\ At("usb", "acquires")
    /\ card' = 0
    /\ Goto("usb", IF card = 1 THEN "unmounts" ELSE "acquire")
    /\ UNCHANGED <<actcnt, loaderVars, mounted, usbVars, ev3rt_usb_auto_terminate_app,
                   asked, failed>>

UsbUnmounts ==
    /\ At("usb", "unmounts")
    /\ mounted' = FALSE
    /\ Goto("usb", "media")
    /\ UNCHANGED <<actcnt, loaderVars, card, usbVars, ev3rt_usb_auto_terminate_app,
                   asked, failed>>

UsbOpensMedia ==
    /\ At("usb", "media")
    /\ media' = "mmcsd"
    /\ Goto("usb", "serves")
    /\ UNCHANGED <<actcnt, loaderVars, cardVars, evtflg, connected, plugs,
                   ev3rt_usb_auto_terminate_app, asked, failed>>

UsbServes ==
    /\ At("usb", "serves")
    /\ WaiFlg("DISCONN", "mounts", "disconn")
    /\ UNCHANGED <<actcnt, loaderVars, cardVars, connected, media, plugs,
                   ev3rt_usb_auto_terminate_app, asked, failed>>

\* Fault: the card is released before the file system is mounted.
UsbMountsLater ==
    /\ At("usb", "mounts")
    /\ Goto("usb", "releases")
    /\ UNCHANGED <<actcnt, loaderVars, cardVars, usbVars, ev3rt_usb_auto_terminate_app,
                   asked, failed>>

UsbMounts ==
    /\ At("usb", "mounts")
    /\ mounted' = TRUE
    /\ Goto("usb", "releases")
    /\ UNCHANGED <<actcnt, loaderVars, card, usbVars, ev3rt_usb_auto_terminate_app,
                   asked, failed>>

UsbReleases ==
    /\ At("usb", "releases")
    /\ ReleaseMmcsd("usb", "waits")
    /\ UNCHANGED <<actcnt, loaderVars, mounted, usbVars, ev3rt_usb_auto_terminate_app,
                   asked, failed>>

UsbWaits ==
    /\ At("usb", "waits")
    /\ WaiFlg("CONNECT", "acquires", "conn")
    /\ UNCHANGED <<actcnt, loaderVars, cardVars, connected, media, plugs,
                   ev3rt_usb_auto_terminate_app, asked, failed>>

-----------------------------------------------------------------------------
Init ==
    /\ pc = [usb |-> "conn", term |-> "dormant", console |-> "idle"]
    /\ actcnt = 0 /\ unload = TRUE /\ status = "FREE" /\ app = FALSE
    /\ card = 1 /\ mounted = TRUE
    /\ evtflg = {} /\ connected = FALSE /\ media = "dummy" /\ plugs = 0
    /\ ev3rt_usb_auto_terminate_app \in BOOLEAN
    /\ asked = FALSE /\ failed = "none"

ConsoleWorks == ConsoleLoads \/ ConsoleHasReset \/ ConsoleIns \/ ConsoleMarks \/ ConsoleClears
ConsoleNext == \/ ConsoleRequests \/ ConsoleGoesOn \/ ConsoleCancels \/ ConsoleTriesCard
               \/ ConsoleGivesUp \/ ConsoleWorks
TermNext == TermPolls \/ TermRemoves \/ TermHasReset \/ TermReleases \/ TermSets \/ TermExits
UsbNext == \/ UsbAcquires \/ UsbUnmounts \/ UsbOpensMedia \/ UsbServes
           \/ UsbMounts \/ UsbReleases \/ UsbWaits

Next == ConsoleNext \/ TermNext \/ UsbNext \/ UsbConnected \/ UsbDisconnected

\* The drivers return and the tasks run when nothing of higher priority does;
\* the user need not touch a button or the cable.
Fairness == WF_vars(ConsoleGoesOn) /\ WF_vars(TermNext) /\ WF_vars(UsbNext)

Spec     == Init /\ [][Next]_vars
FairSpec == Spec /\ Fairness

-----------------------------------------------------------------------------
TypeOK ==
    /\ pc["usb"] \in {"conn", "acquires", "acquire", "unmounts", "media", "serves",
                      "disconn", "mounts", "releases", "waits"}
    /\ pc["term"] \in {"dormant", "polls", "removes", "resets", "releases", "sets", "exits"}
    /\ pc["console"] \in {"idle", "wait", "menu", "shutdown", "handler", "resets", "ins",
                          "marks", "clears", "off"}
    /\ actcnt \in 0 .. TMAX_ACTCNT /\ card \in 0 .. 1 /\ plugs \in 0 .. MaxPlug
    /\ status \in {"FREE", "RUNNING"} /\ media \in {"dummy", "mmcsd"}
    /\ evtflg \subseteq {"CONNECT", "DISCONN"}
    /\ {unload, app, mounted, connected, asked, ev3rt_usb_auto_terminate_app} \subseteq BOOLEAN

\* Who has acquired the card, from where everybody is.
ConsoleHolds == pc["console"] \in {"handler", "resets", "ins", "marks", "clears", "off"}
AppHolds     == ~unload /\ pc["term"] # "sets"
UsbHolds     == pc["usb"] \in {"unmounts", "media", "serves", "disconn", "mounts", "releases"}
Holders ==
    {m \in {"console", "app", "usb"} :
        \/ m = "console" /\ ConsoleHolds
        \/ m = "app" /\ AppHolds
        \/ m = "usb" /\ UsbHolds}

\* MMCSD_MOD_SEM is taken exactly while one of them has the card: the card
\* passes from the console to the application without being released, the
\* terminating task gives it back once and its signal never finds it free.
CardHasOneOwner == card + Cardinality(Holders) = 1

\* The file system is mounted whenever the console or the application has the
\* card, also while a reset closes the files the application left open.
MountedForUsers == ConsoleHolds \/ AppHolds => mounted

\* The container is where its caller expects it: free when an application is
\* inserted, running when one is removed, although the status is written
\* after the mutex is unlocked (the assertions on both results).
ContainerAsExpected ==
    /\ pc["console"] = "ins" => status = "FREE"
    /\ pc["term"] = "removes" => status = "RUNNING"

\* platform_soft_reset: "can only be called when the application is stopped".
ResetsStopped ==
    pc["console"] = "resets" \/ pc["term"] = "resets" => ~app

\* The tasks of the loader share the card, and find what they assert.
LoaderConsistent ==
    TypeOK /\ CardHasOneOwner /\ MountedForUsers /\ ContainerAsExpected /\ ResetsStopped

\* application_terminate_wait returns, unless an assertion stops the system.
WaitReturns == pc["console"] = "wait" ~> pc["console"] # "wait" \/ failed # "none"

\* When the user asks for a termination, a USB task that waits for the card
\* gets it before another application can have it.
HandsToUsb ==
    pc["console"] = "wait" /\ pc["console"]' = "menu" => pc["usb"] # "acquire"

-----------------------------------------------------------------------------
\* "A software module must acquire the SD card before using it": the host
\* does not reach the card while the console or the application has it
\* (fatfs_dri.c).
HostStaysOut == connected /\ media = "mmcsd" => ~ConsoleHolds /\ ~AppHolds

\* assert(ercd == E_OK) in application_terminate_request.
RequestAccepted == failed # "application_terminate_request"

\* "Terminate application automatically if USB (MSC mode) is connected"
\* (platform.h): an application whose tasks exist when the cable is plugged
\* in is removed.
AutoTerminated == asked ~> ~asked \/ failed # "none"
=============================================================================
