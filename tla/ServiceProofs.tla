----------------------------- MODULE ServiceProofs -----------------------------
(***************************************************************************)
(* The services above the kernel: the system log, the loader of            *)
(* applications, the EV3 cyclic handlers and task exceptions, for every    *)
(* size of their buffers and tables.  They share no state: each is an      *)
(* instance with variables of its own.                                     *)
(***************************************************************************)
EXTENDS MCServices, RingBufferProofs, FiniteSetTheorems

-----------------------------------------------------------------------------
(***************************************************************************)
(* The loader of applications                                              *)
(***************************************************************************)

\* Where the three tasks may be.
UsbLabels     == {"conn", "acquires", "acquire", "unmounts", "media", "serves", "disconn",
                  "mounts", "releases", "waits"}
TermLabels    == {"dormant", "polls", "removes", "resets", "releases", "sets", "exits"}
ConsoleLabels == {"idle", "wait", "menu", "shutdown", "handler", "resets", "ins", "marks",
                  "clears", "off"}
Places == [usb : UsbLabels, term : TermLabels, console : ConsoleLabels]
PcOK == pc \in Places

\* At most one of the three has the card, and the semaphore tells whether one has.
CardInv ==
    /\ card = 1 <=> ~Loader!ConsoleHolds /\ ~Loader!AppHolds /\ ~Loader!UsbHolds
    /\ ~(Loader!ConsoleHolds /\ Loader!AppHolds)
    /\ ~(Loader!ConsoleHolds /\ Loader!UsbHolds) /\ ~(Loader!AppHolds /\ Loader!UsbHolds)
    /\ pc["usb"] = "acquire" => card = 0
    /\ ~mounted => pc["usb"] \in {"media", "serves", "disconn", "mounts"}

\* What the flag, the status of the container and the application are, from where
\* the console and the terminating task are.  The console is past its wait only
\* while the flag is set; the terminating task works only while it is clear.
AppInv ==
    /\ pc["console"] \notin {"idle", "wait"} =>
           unload /\ pc["term"] \in {"dormant", "polls", "exits"}
    /\ pc["term"] \in {"removes", "resets", "releases", "sets"} => ~unload
    /\ pc["term"] \in {"resets", "releases", "sets"} => status = "FREE" /\ ~app
    /\ ~unload /\ pc["term"] \notin {"resets", "releases", "sets"} => status = "RUNNING" /\ app
    /\ pc["console"] = "marks" => status = "FREE" /\ app
    /\ pc["console"] = "clears" => status = "RUNNING" /\ app
    /\ unload /\ pc["console"] \notin {"marks", "clears"} => status = "FREE" /\ ~app

LoaderInv == PcOK /\ Loader!TypeOK /\ CardInv /\ AppInv

LoaderSpec == Loader!Spec

\* A task goes on at another label, and the others stay where they are.
LEMMA GoesOn ==
    ASSUME NEW p \in Places, NEW task \in {"usb", "term", "console"}, NEW label
    PROVE  /\ [p EXCEPT ![task] = label][task] = label
           /\ \A other \in {"usb", "term", "console"} :
                 other # task => [p EXCEPT ![task] = label][other] = p[other]
           /\ (task = "usb" => label \in UsbLabels) /\ (task = "term" => label \in TermLabels)
                /\ (task = "console" => label \in ConsoleLabels) =>
                  [p EXCEPT ![task] = label] \in Places
<1> DEFINE to == [p EXCEPT ![task] = label]
<1>1. to[task] = label /\ \A other \in {"usb", "term", "console"} : other # task => to[other] = p[other]
  BY DEF Places
<1>2. ASSUME task = "usb", label \in UsbLabels
      PROVE  to \in Places
  BY <1>2 DEF Places
<1>3. ASSUME task = "term", label \in TermLabels
      PROVE  to \in Places
  BY <1>3 DEF Places
<1>4. ASSUME task = "console", label \in ConsoleLabels
      PROVE  to \in Places
  BY <1>4 DEF Places
<1> QED
  BY <1>1, <1>2, <1>3, <1>4

LEMMA LoaderInit == ASSUME Loader!LoaderAssumption, Loader!Init PROVE LoaderInv
<1>1. /\ PcOK
      /\ pc["usb"] = "conn" /\ pc["term"] = "dormant" /\ pc["console"] = "idle"
  BY DEF Loader!Init, PcOK, Places, UsbLabels, TermLabels, ConsoleLabels
<1>2. Loader!TypeOK
  <2>1. {unload, app, mounted, connected, asked, ev3rt_usb_auto_terminate_app} \subseteq BOOLEAN
    BY DEF Loader!Init
  <2> QED
    BY <1>1, <2>1 DEF Loader!TypeOK, Loader!Init, Loader!LoaderAssumption, Loader!TMAX_ACTCNT
<1>3. CardInv
  BY <1>1 DEF CardInv, Loader!Init, Loader!ConsoleHolds, Loader!AppHolds, Loader!UsbHolds
<1>4. AppInv
  BY <1>1 DEF AppInv, Loader!Init
<1> QED
  BY <1>1, <1>2, <1>3, <1>4 DEF LoaderInv

\* The steps of the console task
LEMMA ConsoleStep == ASSUME LoaderInv, Loader!ConsoleNext PROVE LoaderInv'
<1> USE DEF LoaderInv, PcOK, Places, UsbLabels, TermLabels, ConsoleLabels, CardInv, AppInv,
        Loader!TypeOK, Loader!ConsoleHolds, Loader!AppHolds, Loader!UsbHolds, Loader!At,
        Loader!Goto, Loader!loaderVars, Loader!cardVars, Loader!usbVars, Loader!Running,
        Loader!Higher, Loader!Waits, Loader!Driver
<1>1. CASE Loader!ConsoleRequests
  BY <1>1, GoesOn DEF Loader!ConsoleRequests, Loader!TerminateRequest, Loader!TMAX_ACTCNT
<1>2. CASE Loader!ConsoleGoesOn
  BY <1>2, GoesOn DEF Loader!ConsoleGoesOn
<1>3. CASE Loader!ConsoleCancels
  BY <1>3, GoesOn DEF Loader!ConsoleCancels
<1>4. CASE Loader!ConsoleTriesCard
  BY <1>4, GoesOn DEF Loader!ConsoleTriesCard
<1>5. CASE Loader!ConsoleGivesUp
  BY <1>5, GoesOn DEF Loader!ConsoleGivesUp, Loader!ReleaseMmcsd
<1>6. CASE Loader!ConsoleLoads
  BY <1>6, GoesOn DEF Loader!ConsoleLoads
<1>7. CASE Loader!ConsoleHasReset
  BY <1>7, GoesOn DEF Loader!ConsoleHasReset
<1>8. CASE Loader!ConsoleIns
  <2>1. CASE pc' = [pc EXCEPT !["console"] = "handler"] /\ UNCHANGED app
    BY <2>1, <1>8, GoesOn DEF Loader!ConsoleIns
  <2>2. CASE status = "FREE" /\ app' = TRUE /\ pc' = [pc EXCEPT !["console"] = "marks"]
    BY <2>2, <1>8, GoesOn DEF Loader!ConsoleIns
  <2> QED
    BY <1>8, <2>1, <2>2 DEF Loader!ConsoleIns
<1>9. CASE Loader!ConsoleMarks
  BY <1>9, GoesOn DEF Loader!ConsoleMarks
<1>10. CASE Loader!ConsoleClears
  <2>1. /\ pc["console"] = "clears" /\ pc["term"] \in {"dormant", "resets"}
        /\ pc' = [pc EXCEPT !["console"] = "idle"] /\ unload' = FALSE
    BY <1>10 DEF Loader!ConsoleClears
  <2>2. /\ PcOK' /\ pc'["console"] = "idle"
        /\ pc'["term"] = pc["term"] /\ pc'["usb"] = pc["usb"]
    BY <2>1, GoesOn
  <2>3. pc["term"] = "dormant" /\ status = "RUNNING" /\ app
    BY <2>1
  <2>4. AppInv'
    BY <1>10, <2>1, <2>2, <2>3 DEF Loader!ConsoleClears
  <2>5. CardInv'
    BY <1>10, <2>1, <2>2, <2>3 DEF Loader!ConsoleClears
  <2> QED
    BY <1>10, <2>1, <2>2, <2>4, <2>5 DEF Loader!ConsoleClears
<1> QED
  BY <1>1, <1>2, <1>3, <1>4, <1>5, <1>6, <1>7, <1>8, <1>9, <1>10
     DEF Loader!ConsoleNext, Loader!ConsoleWorks

\* The steps of APP_TERM_TASK
LEMMA TermStep == ASSUME LoaderInv, Loader!TermNext PROVE LoaderInv'
<1> USE DEF LoaderInv, PcOK, Places, UsbLabels, TermLabels, ConsoleLabels, CardInv, AppInv,
        Loader!TypeOK, Loader!ConsoleHolds, Loader!AppHolds, Loader!UsbHolds, Loader!At,
        Loader!Goto, Loader!loaderVars, Loader!cardVars, Loader!usbVars, Loader!Running,
        Loader!Higher, Loader!Waits, Loader!Driver
<1>1. CASE Loader!TermPolls
  BY <1>1, GoesOn DEF Loader!TermPolls
<1>2. CASE Loader!TermRemoves
  <2>1. pc["term"] = "removes" /\ status = "RUNNING" /\ ~unload
    BY <1>2 DEF Loader!TermRemoves
  <2>2. /\ status' = "FREE" /\ app' = FALSE /\ asked' = FALSE /\ unload' = unload
        /\ pc' = [pc EXCEPT !["term"] = "resets"]
    BY <1>2, <2>1 DEF Loader!TermRemoves
  <2>3. /\ PcOK' /\ pc'["term"] = "resets"
        /\ pc'["console"] = pc["console"] /\ pc'["usb"] = pc["usb"]
    BY <2>2, GoesOn
  <2>4. AppInv'
    BY <2>1, <2>2, <2>3
  <2>5. CardInv'
    BY <1>2, <2>1, <2>2, <2>3 DEF Loader!TermRemoves
  <2> QED
    BY <1>2, <2>2, <2>3, <2>4, <2>5 DEF Loader!TermRemoves
<1>3. CASE Loader!TermHasReset
  BY <1>3, GoesOn DEF Loader!TermHasReset
<1>4. CASE Loader!TermReleases
  BY <1>4, GoesOn DEF Loader!TermReleases, Loader!ReleaseMmcsd
<1>5. CASE Loader!TermSets
  BY <1>5, GoesOn DEF Loader!TermSets
<1>6. CASE Loader!TermExits
  <2>1. pc["term"] = "exits" /\ actcnt' \in 0 .. Loader!TMAX_ACTCNT
    BY <1>6 DEF Loader!TermExits, Loader!TMAX_ACTCNT
  <2>2. \E label \in {"polls", "dormant"} : pc' = [pc EXCEPT !["term"] = label]
    BY <1>6 DEF Loader!TermExits
  <2> QED
    BY <1>6, <2>1, <2>2, GoesOn DEF Loader!TermExits
<1> QED
  BY <1>1, <1>2, <1>3, <1>4, <1>5, <1>6
     DEF Loader!TermNext

\* The steps of the USB mass storage task
LEMMA UsbStep == ASSUME LoaderInv, Loader!UsbNext PROVE LoaderInv'
<1> USE DEF LoaderInv, PcOK, Places, UsbLabels, TermLabels, ConsoleLabels, CardInv, AppInv,
        Loader!TypeOK, Loader!ConsoleHolds, Loader!AppHolds, Loader!UsbHolds, Loader!At,
        Loader!Goto, Loader!loaderVars, Loader!cardVars, Loader!usbVars, Loader!Running,
        Loader!Higher, Loader!Waits, Loader!Driver
<1>1. CASE Loader!UsbAcquires
  BY <1>1, GoesOn DEF Loader!UsbAcquires
<1>2. CASE Loader!UsbUnmounts
  <2>1. /\ pc["usb"] = "unmounts" /\ mounted' = FALSE
        /\ pc' = [pc EXCEPT !["usb"] = "media"]
    BY <1>2 DEF Loader!UsbUnmounts
  <2>2. /\ PcOK' /\ pc'["usb"] = "media"
        /\ pc'["term"] = pc["term"] /\ pc'["console"] = pc["console"]
    BY <2>1, GoesOn
  <2>3. AppInv' /\ CardInv'
    BY <1>2, <2>1, <2>2 DEF Loader!UsbUnmounts
  <2> QED
    BY <1>2, <2>1, <2>2, <2>3 DEF Loader!UsbUnmounts
<1>3. CASE Loader!UsbOpensMedia
  BY <1>3, GoesOn DEF Loader!UsbOpensMedia
<1>4. CASE Loader!UsbServes
  <2>1. /\ evtflg' \subseteq {"CONNECT", "DISCONN"}
        /\ \E label \in {"mounts", "disconn"} : pc' = [pc EXCEPT !["usb"] = label]
    BY <1>4 DEF Loader!UsbServes, Loader!WaiFlg
  <2> QED
    BY <1>4, <2>1, GoesOn DEF Loader!UsbServes
<1>5. CASE Loader!UsbMounts
  BY <1>5, GoesOn DEF Loader!UsbMounts
<1>6. CASE Loader!UsbReleases
  BY <1>6, GoesOn DEF Loader!UsbReleases, Loader!ReleaseMmcsd
<1>7. CASE Loader!UsbWaits
  <2>1. /\ evtflg' \subseteq {"CONNECT", "DISCONN"}
        /\ \E label \in {"acquires", "conn"} : pc' = [pc EXCEPT !["usb"] = label]
    BY <1>7 DEF Loader!UsbWaits, Loader!WaiFlg
  <2> QED
    BY <1>7, <2>1, GoesOn DEF Loader!UsbWaits
<1> QED
  BY <1>1, <1>2, <1>3, <1>4, <1>5, <1>6, <1>7
     DEF Loader!UsbNext

\* The interrupt sets a bit and may release the USB task.
LEMMA AfterFlg ==
    ASSUME LoaderInv, NEW bit \in {"CONNECT", "DISCONN"}, Loader!IsetFlg(bit)
    PROVE  /\ evtflg' \subseteq {"CONNECT", "DISCONN"}
           /\ Loader!AfterSetFlg(bit) \in Places
           /\ Loader!AfterSetFlg(bit)["term"] = pc["term"]
           /\ Loader!AfterSetFlg(bit)["console"] = pc["console"]
           /\ \/ Loader!AfterSetFlg(bit)["usb"] = pc["usb"]
              \/ pc["usb"] = "conn" /\ Loader!AfterSetFlg(bit)["usb"] = "acquires"
              \/ pc["usb"] = "disconn" /\ Loader!AfterSetFlg(bit)["usb"] = "mounts"
<1>1. evtflg' \subseteq {"CONNECT", "DISCONN"}
  BY DEF LoaderInv, Loader!TypeOK, Loader!IsetFlg
<1>2. CASE bit = "CONNECT" /\ pc["usb"] = "conn"
  BY <1>1, <1>2, GoesOn DEF Loader!AfterSetFlg, LoaderInv, PcOK, UsbLabels
<1>3. CASE bit = "DISCONN" /\ pc["usb"] = "disconn"
  BY <1>1, <1>3, GoesOn DEF Loader!AfterSetFlg, LoaderInv, PcOK, UsbLabels
<1>4. CASE Loader!AfterSetFlg(bit) = pc
  BY <1>1, <1>4 DEF LoaderInv, PcOK
<1> QED
  BY <1>2, <1>3, <1>4 DEF Loader!AfterSetFlg

\* Where the tasks are after the interrupt that tells of the cable
LEMMA CablePlaces ==
    ASSUME LoaderInv, Loader!UsbConnected \/ Loader!UsbDisconnected
    PROVE  /\ evtflg' \subseteq {"CONNECT", "DISCONN"} /\ PcOK'
           /\ pc'["term"] = pc["term"] \/ (pc["term"] = "dormant" /\ pc'["term"] = "polls")
           /\ pc'["console"] = pc["console"]
           /\ \/ pc'["usb"] = pc["usb"]
              \/ pc["usb"] = "conn" /\ pc'["usb"] = "acquires"
              \/ pc["usb"] = "disconn" /\ pc'["usb"] = "mounts"
           /\ actcnt' \in 0 .. Loader!TMAX_ACTCNT
<1>1. CASE Loader!UsbDisconnected
  BY <1>1, AfterFlg DEF Loader!UsbDisconnected, PcOK, LoaderInv, Loader!TypeOK
<1>2. CASE Loader!UsbConnected
  <2> DEFINE p == Loader!AfterSetFlg("CONNECT")
  <2>1. /\ p \in Places /\ p["term"] = pc["term"] /\ p["console"] = pc["console"]
        /\ \/ p["usb"] = pc["usb"]
           \/ pc["usb"] = "conn" /\ p["usb"] = "acquires"
           \/ pc["usb"] = "disconn" /\ p["usb"] = "mounts"
        /\ evtflg' \subseteq {"CONNECT", "DISCONN"}
    BY <1>2, AfterFlg DEF Loader!UsbConnected
  <2>2. \/ pc' = p /\ actcnt' = actcnt
        \/ pc["term"] = "dormant" /\ pc' = [p EXCEPT !["term"] = "polls"] /\ actcnt' = actcnt
        \/ pc' = p /\ actcnt < Loader!TMAX_ACTCNT /\ actcnt' = actcnt + 1
    BY <1>2, <2>1 DEF Loader!UsbConnected, Loader!TerminateRequest
  <2> HIDE DEF p
  <2>3. actcnt' \in 0 .. Loader!TMAX_ACTCNT
    BY <2>2 DEF LoaderInv, Loader!TypeOK, Loader!TMAX_ACTCNT
  <2>4. CASE pc' = p
    BY <2>1, <2>3, <2>4 DEF PcOK
  <2>5. CASE pc["term"] = "dormant" /\ pc' = [p EXCEPT !["term"] = "polls"]
    <3>1. /\ [p EXCEPT !["term"] = "polls"]["term"] = "polls"
          /\ \A other \in {"usb", "console"} : [p EXCEPT !["term"] = "polls"][other] = p[other]
          /\ [p EXCEPT !["term"] = "polls"] \in Places
      BY <2>1, GoesOn DEF TermLabels
    <3> QED
      BY <2>1, <2>3, <2>5, <3>1 DEF PcOK
  <2> QED
    BY <2>2, <2>4, <2>5
<1> QED
  BY <1>1, <1>2

\* The interrupt that tells of the cable, which may ask for a termination
LEMMA CableStep ==
    ASSUME Loader!LoaderAssumption, LoaderInv, Loader!UsbConnected \/ Loader!UsbDisconnected
    PROVE  LoaderInv'
<1>1. /\ evtflg' \subseteq {"CONNECT", "DISCONN"} /\ PcOK'
      /\ pc'["term"] = pc["term"] \/ (pc["term"] = "dormant" /\ pc'["term"] = "polls")
      /\ pc'["console"] = pc["console"]
      /\ \/ pc'["usb"] = pc["usb"]
         \/ pc["usb"] = "conn" /\ pc'["usb"] = "acquires"
         \/ pc["usb"] = "disconn" /\ pc'["usb"] = "mounts"
      /\ actcnt' \in 0 .. Loader!TMAX_ACTCNT
  BY CablePlaces
<1>2. /\ UNCHANGED <<unload, status, app, card, mounted, ev3rt_usb_auto_terminate_app>>
      /\ plugs' \in 0 .. MaxPlug /\ connected' \in BOOLEAN /\ asked' \in BOOLEAN
      /\ media' \in {"dummy", "mmcsd"}
  <2>1. plugs \in 0 .. MaxPlug /\ asked \in BOOLEAN /\ app \in BOOLEAN
    BY DEF LoaderInv, Loader!TypeOK
  <2>2. CASE Loader!UsbConnected
    <3>1. plugs' \in 0 .. MaxPlug
      BY <2>1, <2>2 DEF Loader!UsbConnected, Loader!LoaderAssumption
    <3>2. asked' \in {app, asked} /\ connected' = TRUE /\ media' = media
      BY <2>2 DEF Loader!UsbConnected
    <3> QED
      BY <2>1, <2>2, <3>1, <3>2
         DEF Loader!UsbConnected, LoaderInv, Loader!TypeOK, Loader!loaderVars, Loader!cardVars
  <2>3. CASE Loader!UsbDisconnected
    BY <2>1, <2>3 DEF Loader!UsbDisconnected, Loader!loaderVars, Loader!cardVars
  <2> QED
    BY <2>2, <2>3
<1>3. Loader!TypeOK'
  <2>1. {unload, app, mounted, connected, asked, ev3rt_usb_auto_terminate_app}' \subseteq BOOLEAN
    BY <1>2 DEF LoaderInv, Loader!TypeOK
  <2>2. /\ pc'["usb"] \in UsbLabels /\ pc'["term"] \in TermLabels
        /\ pc'["console"] \in ConsoleLabels
    BY <1>1 DEF PcOK, Places
  <2> QED
    BY <1>1, <1>2, <2>1, <2>2 DEF LoaderInv, Loader!TypeOK, UsbLabels, TermLabels, ConsoleLabels
<1>4. CardInv'
  BY <1>1, <1>2 DEF LoaderInv, CardInv, Loader!ConsoleHolds, Loader!AppHolds, Loader!UsbHolds
<1>5. AppInv'
  BY <1>1, <1>2 DEF LoaderInv, AppInv
<1> QED
  BY <1>1, <1>3, <1>4, <1>5 DEF LoaderInv

\* What the invariant says of the properties
LEMMA LoaderInvImplies == ASSUME LoaderInv PROVE Loader!LoaderConsistent
<1>1. Loader!CardHasOneOwner
  <2>1. card \in {0, 1}
    BY DEF LoaderInv, Loader!TypeOK
  <2>2. Loader!CardHasOneOwner <=> card + Cardinality(Loader!Holders) = 1
    BY Zenon DEF Loader!CardHasOneOwner, Loader!Cardinality, Cardinality
  <2>3. CASE card = 1
    <3>1. Loader!Holders = {}
      BY <2>3 DEF LoaderInv, CardInv, Loader!Holders
    <3> QED
      BY <3>1, <2>2, <2>3, FS_EmptySet
  <2>4. CASE card = 0
    <3>1. Loader!ConsoleHolds \/ Loader!AppHolds \/ Loader!UsbHolds
      BY <2>4 DEF LoaderInv, CardInv
    <3>2. Loader!Holders = {"console"} \/ Loader!Holders = {"app"} \/ Loader!Holders = {"usb"}
      <4>1. CASE Loader!ConsoleHolds
        <5>1. ~Loader!AppHolds /\ ~Loader!UsbHolds
          BY <4>1 DEF LoaderInv, CardInv
        <5>2. \A m : m \in Loader!Holders <=> m = "console"
          BY <4>1, <5>1 DEF Loader!Holders, Loader!ConsoleHolds, Loader!AppHolds, Loader!UsbHolds
        <5> QED
          BY <5>2
      <4>2. CASE Loader!AppHolds
        <5>1. ~Loader!ConsoleHolds /\ ~Loader!UsbHolds
          BY <4>2 DEF LoaderInv, CardInv
        <5>2. \A m : m \in Loader!Holders <=> m = "app"
          BY <4>2, <5>1 DEF Loader!Holders, Loader!ConsoleHolds, Loader!AppHolds, Loader!UsbHolds
        <5> QED
          BY <5>2
      <4>3. CASE Loader!UsbHolds
        <5>1. ~Loader!ConsoleHolds /\ ~Loader!AppHolds
          BY <4>3 DEF LoaderInv, CardInv
        <5>2. \A m : m \in Loader!Holders <=> m = "usb"
          BY <4>3, <5>1 DEF Loader!Holders, Loader!ConsoleHolds, Loader!AppHolds, Loader!UsbHolds
        <5> QED
          BY <5>2
      <4> QED
        BY <3>1, <4>1, <4>2, <4>3
    <3>3. Cardinality(Loader!Holders) = 1
      BY <3>2, FS_Singleton
    <3> QED
      BY <3>3, <2>2, <2>4
  <2> QED
    BY <2>1, <2>3, <2>4
<1>2. Loader!MountedForUsers /\ Loader!ContainerAsExpected /\ Loader!ResetsStopped
  BY DEF LoaderInv, CardInv, AppInv, Loader!MountedForUsers, Loader!ContainerAsExpected,
     Loader!ResetsStopped, Loader!ConsoleHolds, Loader!AppHolds, Loader!UsbHolds
<1> QED
  BY <1>1, <1>2 DEF LoaderInv, Loader!LoaderConsistent

\* Nothing the loader promises depends on a variable that a stuttering step changes.
LEMMA LoaderStutter == ASSUME LoaderInv, UNCHANGED Loader!vars PROVE LoaderInv'
  BY DEF LoaderInv, PcOK, CardInv, AppInv, Loader!TypeOK, Loader!vars, Loader!loaderVars,
     Loader!cardVars, Loader!usbVars, Loader!ConsoleHolds, Loader!AppHolds, Loader!UsbHolds

\* Every step of the loader keeps its invariant.
LEMMA LoaderStep ==
    ASSUME Loader!LoaderAssumption, LoaderInv, [Loader!Next]_Loader!vars
    PROVE  LoaderInv'
BY ConsoleStep, TermStep, UsbStep, CableStep, LoaderStutter DEF Loader!Next

\* For any number of times the cable is plugged in: the card, its semaphore, the
\* container and the three tasks agree.
THEOREM LoaderInvariance == ASSUME Loader!LoaderAssumption PROVE LoaderSpec => []LoaderInv
<1>1. Loader!Init => LoaderInv
  BY LoaderInit
<1>2. LoaderInv /\ [Loader!Next]_Loader!vars => LoaderInv'
  BY LoaderStep
<1> QED
  BY <1>1, <1>2, PTL DEF LoaderSpec, Loader!Spec

\* The terminating task and the USB task leave the console where it is.
LEMMA OthersLeaveConsole ==
    ASSUME LoaderInv, Loader!TermNext \/ Loader!UsbNext
    PROVE  pc'["console"] = pc["console"]
<1>1. \E l, m : pc' = [pc EXCEPT !["term"] = l] \/ pc' = [pc EXCEPT !["usb"] = l]
                  \/ pc' = [pc EXCEPT !["usb"] = l, !["term"] = m]
  BY DEF Loader!TermNext, Loader!TermPolls, Loader!TermRemoves, Loader!TermHasReset,
     Loader!TermReleases, Loader!TermSets, Loader!TermExits, Loader!UsbNext, Loader!UsbAcquires,
     Loader!UsbUnmounts, Loader!UsbOpensMedia, Loader!UsbServes, Loader!UsbMounts,
     Loader!UsbReleases, Loader!UsbWaits, Loader!Goto, Loader!ReleaseMmcsd, Loader!WaiFlg
<1> QED
  BY <1>1 DEF LoaderInv, PcOK, Places

\* A USB task that waits for the card has it before the console goes on.
LEMMA CardGoesToUsb ==
    ASSUME LoaderInv, Loader!Next
    PROVE  Loader!HandsToUsb
<1>1. CASE Loader!TermNext \/ Loader!UsbNext \/ Loader!UsbConnected \/ Loader!UsbDisconnected
  <2>1. pc'["console"] = pc["console"]
    BY <1>1, OthersLeaveConsole, CablePlaces
  <2> QED
    BY <2>1 DEF Loader!HandsToUsb
<1>2. CASE Loader!ConsoleGoesOn
  <2>1. unload /\ pc["console"] = "wait"
    BY <1>2 DEF Loader!ConsoleGoesOn, Loader!At
  <2> QED
    BY <2>1 DEF LoaderInv, CardInv, Loader!TypeOK, Loader!HandsToUsb, Loader!ConsoleHolds,
       Loader!AppHolds, Loader!UsbHolds
<1>3. CASE Loader!ConsoleNext /\ ~Loader!ConsoleGoesOn
  <2>1. pc["console"] # "wait"
    BY <1>3 DEF Loader!ConsoleNext, Loader!ConsoleRequests, Loader!ConsoleCancels,
       Loader!ConsoleTriesCard, Loader!ConsoleGivesUp, Loader!ConsoleWorks, Loader!ConsoleLoads,
       Loader!ConsoleHasReset, Loader!ConsoleIns, Loader!ConsoleMarks, Loader!ConsoleClears,
       Loader!At
  <2> QED
    BY <2>1 DEF Loader!HandsToUsb
<1> QED
  BY <1>1, <1>2, <1>3 DEF Loader!Next

-----------------------------------------------------------------------------
(***************************************************************************)
(* Task exceptions                                                         *)
(***************************************************************************)

LevelType == [kind : {"task", "stask", "utask"}, saved : BOOLEAN, svclevel : {0, 1},
              asked : BOOLEAN, enatex : BOOLEAN, ipmflg : BOOLEAN, disdsp : BOOLEAN]

\* A routine interrupts code that may take exceptions: the mask was open below it,
\* what it has saved of dispatching is what the code below it had, and for a system
\* task exceptions were enabled there, by the routine below itself if it is one.
StackOK(lv) ==
    /\ lv \in Seq(LevelType) /\ Len(lv) > 0
    /\ \A i \in 1 .. Len(lv) : lv[i].kind = "utask" => user /\ lv[i].svclevel = 0
    /\ \A i \in 2 .. Len(lv) :
          /\ lv[i].kind # "task"
          /\ lv[i - 1].ipmflg
          /\ 1 \in acptn => lv[i - 1].disdsp = lv[i].saved
          /\ ~user => lv[i - 1].enatex /\ (lv[i].enatex => lv[i].asked)

\* While the code of a level runs, or will go on, the state is as it has left it.
TopIs(level, ipm, dis, ena) ==
    /\ level.ipmflg = ipm
    /\ 1 \in acptn => level.disdsp = dis
    /\ ~user => level.enatex = ena

\* A routine that has returned, before the code below it goes on or it is called again
HasReturned == resume \in {"ret", "again"}

ReturnInv ==
    /\ Len(levels) > 1 /\ ipmflg
    /\ 1 \in acptn => disdsp = Tex!Level.saved
    /\ svclevel = Tex!Level.svclevel
    /\ Tex!Level.kind = "stask" => ~enatex

TexInv ==
    /\ Tex!TypeOK /\ StackOK(levels)
    /\ enatex => Len(levels) <= MaxNest
    /\ ~HasReturned => TopIs(Tex!Level, ipmflg, disdsp, enatex)
    /\ HasReturned => ReturnInv
    /\ mode = "svc" => user /\ svclevel = 0
    /\ user /\ svclevel = 0 /\ resume \in {"dispatch", "chg_ipm"} => mode = "svc" \/ ~enatex
    /\ ~user => 1 \in acptn
    /\ Tex!AtOnceUnlessOverlooked

TexSpec == Tex!Spec

\* The code of the level on top changes what it will find again.
LEMMA StackLeft ==
    ASSUME NEW lv, StackOK(lv), NEW level \in LevelType,
           level.kind = lv[Len(lv)].kind, level.saved = lv[Len(lv)].saved,
           level.svclevel = lv[Len(lv)].svclevel,
           ~user => (level.enatex => level.asked) \/ Len(lv) = 1
    PROVE  LET to == [lv EXCEPT ![Len(lv)] = level]
           IN  StackOK(to) /\ Len(to) = Len(lv) /\ to[Len(to)] = level
<1> DEFINE n == Len(lv)
           to == [lv EXCEPT ![n] = level]
<1>1. lv \in Seq(LevelType) /\ n \in Nat \ {0}
  BY DEF StackOK
<1>2. /\ to \in Seq(LevelType) /\ Len(to) = n /\ to[n] = level
      /\ \A i \in 1 .. n : i # n => to[i] = lv[i]
  BY <1>1
<1> HIDE DEF to
<1>3. \A i \in 1 .. n : to[i].kind = "utask" => user /\ to[i].svclevel = 0
  BY <1>1, <1>2 DEF StackOK
<1>4. ASSUME NEW i \in 2 .. n
      PROVE  /\ to[i].kind # "task"
             /\ to[i - 1].ipmflg
             /\ 1 \in acptn => to[i - 1].disdsp = to[i].saved
             /\ ~user => to[i - 1].enatex /\ (to[i].enatex => to[i].asked)
  <2>1. i \in 1 .. n /\ i - 1 \in 1 .. n /\ i - 1 # n /\ n # 1
    BY <1>1
  <2>2. to[i - 1] = lv[i - 1]
    BY <1>2, <2>1
  <2>3. to[i].kind = lv[i].kind /\ to[i].saved = lv[i].saved
    BY <1>2, <2>1
  <2>4. ~user /\ to[i].enatex => to[i].asked
    BY <1>2, <2>1 DEF StackOK
  <2> QED
    BY <2>2, <2>3, <2>4 DEF StackOK
<1>5. StackOK(to)
  BY <1>1, <1>2, <1>3, <1>4 DEF StackOK
<1> QED
  BY <1>2, <1>5 DEF to

\* A routine starts.
LEMMA StackPushed ==
    ASSUME NEW lv, StackOK(lv), NEW level \in LevelType,
           level.kind # "task", level.kind = "utask" => user /\ level.svclevel = 0,
           lv[Len(lv)].ipmflg, 1 \in acptn => lv[Len(lv)].disdsp = level.saved,
           ~user => lv[Len(lv)].enatex /\ ~level.enatex
    PROVE  LET to == Append(lv, level)
           IN  StackOK(to) /\ Len(to) = Len(lv) + 1 /\ to[Len(to)] = level
<1> DEFINE n == Len(lv)
           to == Append(lv, level)
<1>1. lv \in Seq(LevelType) /\ n \in Nat \ {0}
  BY DEF StackOK
<1>2. /\ to \in Seq(LevelType) /\ Len(to) = n + 1 /\ to[n + 1] = level
      /\ \A i \in 1 .. n : to[i] = lv[i]
  BY <1>1
<1> HIDE DEF to
<1>3. \A i \in 1 .. n + 1 : to[i].kind = "utask" => user /\ to[i].svclevel = 0
  BY <1>1, <1>2 DEF StackOK
<1>4. ASSUME NEW i \in 2 .. n + 1
      PROVE  /\ to[i].kind # "task"
             /\ to[i - 1].ipmflg
             /\ 1 \in acptn => to[i - 1].disdsp = to[i].saved
             /\ ~user => to[i - 1].enatex /\ (to[i].enatex => to[i].asked)
  <2>1. i - 1 \in 1 .. n /\ to[i - 1] = lv[i - 1]
    BY <1>1, <1>2
  <2>2. CASE i = n + 1
    BY <1>1, <1>2, <2>1, <2>2
  <2>3. CASE i \in 2 .. n
    <3>1. to[i] = lv[i]
      BY <1>1, <1>2, <2>3
    <3> QED
      BY <2>1, <2>3, <3>1 DEF StackOK
  <2> QED
    BY <1>1, <2>2, <2>3
<1>5. StackOK(to)
  BY <1>1, <1>2, <1>3, <1>4 DEF StackOK
<1> QED
  BY <1>1, <1>2, <1>5 DEF to

\* A routine is left.
LEMMA StackPopped ==
    ASSUME NEW lv, StackOK(lv), Len(lv) > 1
    PROVE  LET to == SubSeq(lv, 1, Len(lv) - 1)
           IN  StackOK(to) /\ Len(to) = Len(lv) - 1 /\ to[Len(to)] = lv[Len(lv) - 1]
<1> DEFINE n == Len(lv)
           to == SubSeq(lv, 1, n - 1)
<1>1. lv \in Seq(LevelType) /\ n \in Nat \ {0}
  BY DEF StackOK
<1>2. /\ to \in Seq(LevelType) /\ Len(to) = n - 1
      /\ \A i \in 1 .. n - 1 : to[i] = lv[i]
  BY <1>1
<1> HIDE DEF to
<1>3. StackOK(to)
  BY <1>1, <1>2 DEF StackOK
<1> QED
  BY <1>1, <1>2, <1>3 DEF to

\* What the types say of the variables
LEMMA TexTypes ==
    ASSUME TexInv
    PROVE  /\ texptn \subseteq Tex!Factor /\ svclevel \in {0, 1} /\ acptn \subseteq {1, 2}
           /\ enatex \in BOOLEAN /\ ipmflg \in BOOLEAN /\ disdsp \in BOOLEAN
           /\ locked \in BOOLEAN /\ hready \in BOOLEAN /\ user \in BOOLEAN
           /\ mode \in {"run", "svc"} /\ overlooked \in {"none", "dispatch_r", "ret_service"}
           /\ resume \in {"none", "exit", "dispatch", "chg_ipm", "int", "ret", "again"}
           /\ Tex!Level \in LevelType /\ Tex!Level = levels[Len(levels)]
<1>1. Tex!Level \in LevelType
  BY DEF TexInv, StackOK, Tex!Level
<1>2. {enatex, ipmflg, disdsp, locked, hready, user} \subseteq BOOLEAN
  BY DEF TexInv, Tex!TypeOK
<1>3. /\ texptn \subseteq Tex!Factor /\ svclevel \in {0, 1} /\ acptn \subseteq {1, 2}
      /\ mode \in {"run", "svc"} /\ overlooked \in {"none", "dispatch_r", "ret_service"}
      /\ resume \in {"none", "exit", "dispatch", "chg_ipm", "int", "ret", "again"}
  BY DEF TexInv, Tex!TypeOK
<1> QED
  BY <1>1, <1>2, <1>3 DEF Tex!Level

LEMMA RoutineIs ==
    ASSUME disdsp \in BOOLEAN, svclevel \in {0, 1}, NEW kind \in {"task", "stask", "utask"}
    PROVE  /\ Tex!Routine(kind) \in LevelType
           /\ Tex!Routine(kind).kind = kind /\ Tex!Routine(kind).svclevel = svclevel
           /\ Tex!Routine(kind).saved = disdsp /\ Tex!Routine(kind).disdsp = disdsp
           /\ Tex!Routine(kind).enatex = FALSE /\ Tex!Routine(kind).ipmflg = TRUE
           /\ [Tex!Routine(kind) EXCEPT !.svclevel = 0] \in LevelType
           /\ [Tex!Routine(kind) EXCEPT !.svclevel = 0].kind = kind
           /\ [Tex!Routine(kind) EXCEPT !.svclevel = 0].svclevel = 0
           /\ [Tex!Routine(kind) EXCEPT !.svclevel = 0].saved = disdsp
           /\ [Tex!Routine(kind) EXCEPT !.svclevel = 0].disdsp = disdsp
           /\ [Tex!Routine(kind) EXCEPT !.svclevel = 0].enatex = FALSE
           /\ [Tex!Routine(kind) EXCEPT !.svclevel = 0].ipmflg = TRUE
  BY DEF Tex!Routine, LevelType

LEMMA OwnIs ==
    ASSUME Tex!Level \in LevelType, NEW ena \in BOOLEAN, NEW ipm \in BOOLEAN, NEW dis \in BOOLEAN
    PROVE  /\ Tex!Own(ena, ipm, dis) \in LevelType
           /\ Tex!Own(ena, ipm, dis).kind = Tex!Level.kind /\ Tex!Own(ena, ipm, dis).svclevel = Tex!Level.svclevel
           /\ Tex!Own(ena, ipm, dis).saved = Tex!Level.saved /\ Tex!Own(ena, ipm, dis).asked = Tex!Level.asked
           /\ Tex!Own(ena, ipm, dis).enatex = ena /\ Tex!Own(ena, ipm, dis).ipmflg = ipm
           /\ Tex!Own(ena, ipm, dis).disdsp = dis
  BY DEF Tex!Own, LevelType

LEMMA AskedIs ==
    ASSUME NEW level \in LevelType
    PROVE  LET to == [level EXCEPT !.asked = TRUE]
           IN  /\ to \in LevelType /\ to.asked
               /\ to.kind = level.kind /\ to.svclevel = level.svclevel /\ to.saved = level.saved
               /\ to.enatex = level.enatex /\ to.ipmflg = level.ipmflg
               /\ to.disdsp = level.disdsp
  BY DEF LevelType

LEMMA AgainIs ==
    ASSUME NEW level \in LevelType, NEW dis \in BOOLEAN
    PROVE  LET to == [level EXCEPT !.asked = FALSE, !.enatex = FALSE, !.ipmflg = TRUE,
                                   !.disdsp = dis]
           IN  /\ to \in LevelType /\ ~to.asked /\ ~to.enatex /\ to.ipmflg /\ to.disdsp = dis
               /\ to.kind = level.kind /\ to.svclevel = level.svclevel /\ to.saved = level.saved
  BY DEF LevelType

\* A routine r starts on the stack lv, whose top is the level at hand: what it needs,
\* and the state it starts in.
MayStart(lv, r) ==
    /\ StackOK(lv) /\ Len(lv) = Len(levels) /\ Len(lv) <= MaxNest
    /\ lv[Len(lv)].ipmflg
    /\ 1 \in acptn => lv[Len(lv)].disdsp = disdsp
    /\ ~user => lv[Len(lv)].enatex
    /\ r \in LevelType /\ r.kind \in {"stask", "utask"}
    /\ r.kind = "utask" => user /\ r.svclevel = 0
    /\ r.saved = disdsp /\ r.disdsp = disdsp /\ ~r.enatex /\ r.ipmflg

StartState ==
    /\ texptn' = {} /\ enatex' = FALSE /\ overlooked' = "none" /\ mode' = "run"
    /\ resume' = "none" /\ disdsp' = disdsp /\ ipmflg' = TRUE /\ acptn' = acptn /\ user' = user
    /\ svclevel' \in {0, 1} /\ locked' \in BOOLEAN /\ hready' \in BOOLEAN

LEMMA RoutineStarts ==
    ASSUME TexInv, Tex!TexAssumption, NEW lv, NEW r, MayStart(lv, r), StartState,
           levels' = Append(lv, r)
    PROVE  TexInv'
<1>1. /\ StackOK(Append(lv, r)) /\ Len(Append(lv, r)) = Len(lv) + 1
      /\ Append(lv, r)[Len(Append(lv, r))] = r
  BY StackPushed, Zenon DEF MayStart
<1>2. StackOK(levels)' /\ Tex!Level' = r /\ Len(levels') = Len(levels) + 1
  BY <1>1 DEF StackOK, Tex!Level, MayStart, StartState
<1>3. Len(levels') \in 1 .. MaxNest + 1
  BY <1>2 DEF Tex!TexAssumption, TexInv, StackOK, MayStart
<1>4. Tex!TypeOK'
  <2>1. {enatex, ipmflg, disdsp, locked, hready, user}' \subseteq BOOLEAN
    BY TexTypes DEF StartState
  <2> QED
    BY <1>3, <2>1, TexTypes DEF Tex!TypeOK, StartState
<1>5. TopIs(Tex!Level, ipmflg, disdsp, enatex)'
  BY <1>2, TexTypes DEF TopIs, LevelType, MayStart, StartState
<1> QED
  BY <1>2, <1>4, <1>5
     DEF TexInv, HasReturned, Tex!AtOnceUnlessOverlooked, Tex!AtOnce, StartState

\* The code of a level goes on: what the state must be, and the stack
RunState ==
    /\ acptn' = acptn /\ user' = user /\ texptn' \subseteq Tex!Factor /\ svclevel' \in {0, 1}
    /\ enatex' \in BOOLEAN /\ ipmflg' \in BOOLEAN /\ disdsp' \in BOOLEAN
    /\ locked' \in BOOLEAN /\ hready' \in BOOLEAN /\ mode' \in {"run", "svc"}
    /\ overlooked' \in {"none", "dispatch_r", "ret_service"}
    /\ resume' \in {"none", "exit", "dispatch", "chg_ipm", "int"}
    /\ resume' \in {"dispatch", "chg_ipm", "int"} => ipmflg' /\ ~disdsp' /\ ~locked'
    /\ mode' = "svc" => user /\ svclevel' = 0
    /\ user /\ svclevel' = 0 /\ resume' \in {"dispatch", "chg_ipm"} =>
           mode' = "svc" \/ ~enatex'
    /\ \/ overlooked' # "none"
       \/ resume' = "none" /\ mode' = "run" /\ ~locked' /\ svclevel' = 0 /\ enatex' /\ ipmflg'
              => texptn' = {}

RunStack ==
    /\ StackOK(levels') /\ Len(levels') <= MaxNest + 1
    /\ enatex' => Len(levels') <= MaxNest
    /\ levels'[Len(levels')].ipmflg = ipmflg'
    /\ 1 \in acptn => levels'[Len(levels')].disdsp = disdsp'
    /\ ~user => levels'[Len(levels')].enatex = enatex'

LEMMA CodeGoesOn ==
    ASSUME TexInv, Tex!TexAssumption, RunState, RunStack
    PROVE  TexInv'
<1>1. StackOK(levels)' /\ Tex!Level' = levels'[Len(levels')] /\ Len(levels') \in 1 .. MaxNest + 1
  <2>1. StackOK(levels') /\ acptn' = acptn /\ user' = user
    BY DEF RunState, RunStack
  <2>2. StackOK(levels)'
    BY <2>1 DEF StackOK
  <2> QED
    BY <2>1, <2>2 DEF StackOK, Tex!Level, Tex!TexAssumption, RunStack
<1>2. Tex!TypeOK'
  <2>1. {enatex, ipmflg, disdsp, locked, hready, user}' \subseteq BOOLEAN
    BY TexTypes DEF RunState
  <2>2. resume' \in {"dispatch", "chg_ipm", "int", "ret"} => Tex!dspflg' /\ ~locked'
    BY DEF Tex!dspflg, RunState
  <2> QED
    BY <1>1, <2>1, <2>2, TexTypes DEF Tex!TypeOK, RunState
<1>3. TopIs(Tex!Level, ipmflg, disdsp, enatex)'
  BY <1>1 DEF TopIs, RunState, RunStack
<1>4. Tex!AtOnceUnlessOverlooked'
  BY DEF Tex!AtOnceUnlessOverlooked, Tex!AtOnce, Tex!Runs, RunState
<1> QED
  BY <1>1, <1>2, <1>3, <1>4, TexTypes DEF TexInv, HasReturned, RunState, RunStack

\* The stack stays, or the level at hand becomes another.
LEMMA StackStays ==
    ASSUME TexInv, Tex!TexAssumption, ~HasReturned, levels' = levels,
           ipmflg' = ipmflg, disdsp' = disdsp, enatex' = enatex
    PROVE  RunStack
  BY DEF TexInv, Tex!TypeOK, TopIs, RunStack, Tex!Level, Tex!TexAssumption

LevelFits(level) ==
    /\ level \in LevelType /\ level.kind = Tex!Level.kind /\ level.saved = Tex!Level.saved
    /\ level.svclevel = Tex!Level.svclevel
    /\ ~user => (level.enatex => level.asked) \/ Len(levels) = 1
    /\ level.ipmflg = ipmflg' /\ level.disdsp = disdsp' /\ level.enatex = enatex'
    /\ levels' = [levels EXCEPT ![Len(levels)] = level]
    /\ enatex' => Len(levels) <= MaxNest

LEMMA StackChanges ==
    ASSUME TexInv, Tex!TexAssumption, resume = "none", NEW level, LevelFits(level)
    PROVE  RunStack
<1> DEFINE lv == [levels EXCEPT ![Len(levels)] = level]
<1>1. StackOK(lv) /\ Len(lv) = Len(levels) /\ lv[Len(lv)] = level
  <2>1. /\ StackOK(levels) /\ level \in LevelType /\ level.kind = levels[Len(levels)].kind
        /\ level.saved = levels[Len(levels)].saved
        /\ level.svclevel = levels[Len(levels)].svclevel
        /\ ~user => (level.enatex => level.asked) \/ Len(levels) = 1
    BY DEF LevelFits, TexInv, Tex!Level
  <2> QED
    BY <2>1, StackLeft
<1> HIDE DEF lv
<1>2. levels' = lv
  BY DEF lv, LevelFits
<1>3. Len(lv) <= MaxNest + 1
  BY <1>1 DEF TexInv, Tex!TypeOK
<1> QED
  BY <1>1, <1>2, <1>3 DEF RunStack, LevelFits

\* What holds while the code of a level runs
LEMMA WhileRuns ==
    ASSUME TexInv, Tex!TexAssumption, resume = "none"
    PROVE  /\ StackOK(levels) /\ TopIs(Tex!Level, ipmflg, disdsp, enatex)
           /\ Len(levels) \in 1 .. MaxNest + 1 /\ (enatex => Len(levels) <= MaxNest)
           /\ ~user => (Tex!Level.enatex => Tex!Level.asked) \/ Len(levels) = 1
           /\ ~user => 1 \in acptn
           /\ mode = "svc" => user /\ svclevel = 0
<1>1. StackOK(levels) /\ TopIs(Tex!Level, ipmflg, disdsp, enatex) /\ Len(levels) \in 1 .. MaxNest + 1
  BY DEF TexInv, HasReturned, Tex!TypeOK
<1>2. \A n \in Nat : n > 0 /\ n # 1 => n \in 2 .. n
  OBVIOUS
<1>3. ASSUME ~user, Len(levels) # 1, Tex!Level.enatex
      PROVE  Tex!Level.asked
  <2>1. Len(levels) \in Nat /\ Len(levels) > 0 /\ Len(levels) # 1
    BY <1>1, <1>3 DEF StackOK
  <2>2. Len(levels) \in 2 .. Len(levels)
    BY <1>2, <2>1
  <2> QED
    BY <1>1, <1>3, <2>2 DEF StackOK, Tex!Level
<1> QED
  BY <1>1, <1>3 DEF TexInv

LEMMA TexInitInv == ASSUME Tex!TexAssumption, Tex!Init PROVE TexInv
<1> DEFINE lv == levels
<1>1. /\ disdsp = FALSE /\ svclevel = 0 /\ ipmflg = TRUE /\ enatex = FALSE /\ locked = FALSE
      /\ hready = FALSE /\ texptn = {} /\ mode = "run" /\ resume = "none"
      /\ overlooked = "none" /\ acptn \subseteq {1, 2} /\ (~user => acptn = {1, 2})
      /\ user \in BOOLEAN
  BY DEF Tex!Init, Tex!TexAssumption
<1>2. /\ Tex!Routine("task") \in LevelType /\ Tex!Routine("task").kind = "task"
      /\ Tex!Routine("task").enatex = FALSE /\ Tex!Routine("task").ipmflg = TRUE
      /\ Tex!Routine("task").disdsp = FALSE
  BY <1>1, RoutineIs
<1>3. Len(levels) = 1 /\ levels[1] = Tex!Routine("task") /\ levels \in Seq(LevelType)
  BY <1>2 DEF Tex!Init
<1>4. StackOK(levels) /\ Tex!Level = Tex!Routine("task")
  BY <1>2, <1>3 DEF StackOK, Tex!Level
<1>5. Tex!TypeOK
  <2>1. {enatex, ipmflg, disdsp, locked, hready, user} \subseteq BOOLEAN
    BY <1>1
  <2> QED
    BY <1>1, <1>3, <2>1 DEF Tex!TypeOK, Tex!TexAssumption
<1> QED
  BY <1>1, <1>2, <1>4, <1>5 DEF TexInv, HasReturned, TopIs, Tex!AtOnceUnlessOverlooked, Tex!AtOnce

\* What a call of the code that runs leaves behind fits the stack.
LEMMA OwnFits ==
    ASSUME TexInv, Tex!TexAssumption, resume = "none",
           ipmflg' \in BOOLEAN, disdsp' \in BOOLEAN, enatex' \in {FALSE, enatex},
           levels' = [levels EXCEPT ![Len(levels)] = Tex!Own(enatex', ipmflg', disdsp')]
    PROVE  LevelFits(Tex!Own(enatex', ipmflg', disdsp'))
<1> DEFINE own == Tex!Own(enatex', ipmflg', disdsp')
<1>1. enatex' \in BOOLEAN
  BY TexTypes
<1>2. /\ own \in LevelType /\ own.kind = Tex!Level.kind /\ own.saved = Tex!Level.saved
      /\ own.svclevel = Tex!Level.svclevel /\ own.asked = Tex!Level.asked /\ own.enatex = enatex'
      /\ own.ipmflg = ipmflg' /\ own.disdsp = disdsp'
  BY <1>1, TexTypes, OwnIs
<1>0. levels' = [levels EXCEPT ![Len(levels)] = own]
  OBVIOUS
<1> HIDE DEF own
<1>3. ~user => (own.enatex => own.asked) \/ Len(levels) = 1
  BY <1>2, WhileRuns, TexTypes DEF TopIs
<1>4. LevelFits(own)
  BY <1>0, <1>2, <1>3, WhileRuns, TexTypes DEF LevelFits
<1> QED
  BY <1>4 DEF own

\* ena_tex, which may start the routine at once
LEMMA EnaTexStep == ASSUME Tex!TexAssumption, TexInv, Tex!EnaTex PROVE TexInv'
<1>1. resume = "none" /\ mode = "run" /\ ~locked /\ Len(levels) < MaxNest /\ Len(levels) \in Nat
  BY WhileRuns DEF Tex!EnaTex, Tex!Runs
<1> DEFINE own == Tex!Own(TRUE, ipmflg, disdsp)
<1>2. /\ own \in LevelType /\ own.kind = Tex!Level.kind /\ own.saved = Tex!Level.saved
      /\ own.svclevel = Tex!Level.svclevel /\ own.enatex = TRUE /\ own.ipmflg = ipmflg
      /\ own.disdsp = disdsp
  BY TexTypes DEF Tex!Own, LevelType
<1> DEFINE level == [own EXCEPT !.asked = TRUE]
           lv == [levels EXCEPT ![Len(levels)] = level]
<1>3. /\ Tex!EnaTex
      /\ Tex!StartsHere(texptn, TRUE, ipmflg) => levels' = lv \o <<Tex!Routine("stask")>>
      /\ ~Tex!StartsHere(texptn, TRUE, ipmflg) => levels' = lv
  BY DEF Tex!EnaTex, Tex!Leaves
<1> HIDE DEF own
<1>4. /\ level \in LevelType /\ level.kind = Tex!Level.kind /\ level.saved = Tex!Level.saved
      /\ level.svclevel = Tex!Level.svclevel /\ level.enatex = TRUE /\ level.ipmflg = ipmflg
      /\ level.disdsp = disdsp /\ level.asked
  BY <1>2, AskedIs
<1> HIDE DEF level
<1>5. StackOK(lv) /\ Len(lv) = Len(levels) /\ lv[Len(lv)] = level
  BY <1>1, <1>4, WhileRuns, StackLeft DEF Tex!Level
<1>6. CASE Tex!StartsHere(texptn, TRUE, ipmflg)
  <2> HIDE DEF lv
  <2>1. levels' = Append(lv, Tex!Routine("stask"))
    BY <1>3, <1>5, <1>6 DEF StackOK
  <2>2. MayStart(lv, Tex!Routine("stask"))
    <3>1. /\ Tex!Routine("stask") \in LevelType /\ Tex!Routine("stask").kind = "stask"
          /\ Tex!Routine("stask").saved = disdsp /\ Tex!Routine("stask").disdsp = disdsp
          /\ ~Tex!Routine("stask").enatex /\ Tex!Routine("stask").ipmflg
      BY TexTypes, RoutineIs
    <3>2. lv[Len(lv)].ipmflg /\ lv[Len(lv)].enatex /\ lv[Len(lv)].disdsp = disdsp
      BY <1>4, <1>5, <1>6, TexTypes DEF Tex!StartsHere
    <3>3. StackOK(lv) /\ Len(lv) = Len(levels) /\ Len(lv) <= MaxNest
      BY <1>1, <1>5 DEF Tex!TexAssumption
    <3> QED
      BY <3>1, <3>2, <3>3 DEF MayStart
  <2>3. StartState
    BY <1>1, <1>3, <1>6, TexTypes DEF Tex!EnaTex, Tex!sysVars, Tex!StartsHere, StartState
  <2> QED
    BY <2>1, <2>2, <2>3, RoutineStarts
<1>7. CASE ~Tex!StartsHere(texptn, TRUE, ipmflg)
  <2>1. /\ texptn' = texptn /\ enatex' = TRUE /\ overlooked' = overlooked
        /\ resume' = "none" /\ disdsp' = disdsp /\ ipmflg' = ipmflg /\ locked' = locked
        /\ acptn' = acptn /\ user' = user /\ svclevel' = svclevel /\ hready' = hready
        /\ mode' = IF user /\ svclevel = 0 THEN "svc" ELSE "run"
    BY <1>1, <1>3, <1>7 DEF Tex!EnaTex, Tex!EndsCall, Tex!sysVars
  <2>2. LevelFits(level)
    <3>1. levels' = [levels EXCEPT ![Len(levels)] = level]
      BY <1>3, <1>7
    <3> HIDE DEF lv
    <3>2. level.ipmflg = ipmflg' /\ level.disdsp = disdsp' /\ level.enatex = enatex'
      BY <1>4, <2>1
    <3>3. Len(levels) <= MaxNest
      BY <1>1 DEF Tex!TexAssumption
    <3>4. level \in LevelType /\ level.kind = Tex!Level.kind /\ level.saved = Tex!Level.saved
          /\ level.svclevel = Tex!Level.svclevel /\ level.asked
      BY <1>4
    <3> QED
      BY <3>1, <3>2, <3>3, <3>4 DEF LevelFits
  <2>3. RunStack
    BY <1>1, <2>2, StackChanges
  <2>4. RunState
    BY <1>7, <2>1, TexTypes DEF RunState, Tex!StartsHere, Tex!InKernel, Tex!TexAssumption
  <2> QED
    BY <2>3, <2>4, CodeGoesOn
<1> QED
  BY <1>6, <1>7

\* The calls that change what the code will find again and nothing is due after
LEMMA LeavingCalls ==
    ASSUME Tex!TexAssumption, TexInv, Tex!DisTex \/ Tex!DisDsp \/ Tex!EnaDsp \/ Tex!ChgIpmMask
    PROVE  TexInv'
<1>1. resume = "none" /\ mode = "run" /\ ~locked
  BY DEF Tex!DisTex, Tex!DisDsp, Tex!EnaDsp, Tex!ChgIpmMask, Tex!Runs
<1>2. /\ levels' = [levels EXCEPT ![Len(levels)] = Tex!Own(enatex', ipmflg', disdsp')]
      /\ enatex' \in {FALSE, enatex} /\ ipmflg' \in {FALSE, ipmflg} /\ disdsp' \in BOOLEAN
      /\ texptn' = texptn /\ svclevel' = svclevel /\ locked' = locked /\ hready' = hready
      /\ acptn' = acptn /\ user' = user /\ overlooked' = overlooked
      /\ mode' = IF user /\ svclevel = 0 THEN "svc" ELSE "run"
      /\ resume' = "none" \/ (resume' = "dispatch" /\ ipmflg' /\ ~disdsp')
  <2>1. CASE Tex!DisTex
    BY <1>1, <2>1, TexTypes DEF Tex!DisTex, Tex!Leaves, Tex!EndsCall, Tex!sysVars
  <2>2. CASE Tex!DisDsp
    BY <1>1, <2>2, TexTypes DEF Tex!DisDsp, Tex!Leaves, Tex!EndsCall, Tex!tcbVars
  <2>3. CASE Tex!EnaDsp
    BY <1>1, <2>3, TexTypes DEF Tex!EnaDsp, Tex!Leaves, Tex!EndsCall, Tex!tcbVars
  <2>4. CASE Tex!ChgIpmMask
    BY <1>1, <2>4, TexTypes DEF Tex!ChgIpmMask, Tex!Leaves, Tex!EndsCall, Tex!tcbVars
  <2> QED
    BY <2>1, <2>2, <2>3, <2>4
<1>3. LevelFits(Tex!Own(enatex', ipmflg', disdsp'))
  BY <1>1, <1>2, TexTypes, OwnFits
<1>4. RunStack
  <2> DEFINE own == Tex!Own(enatex', ipmflg', disdsp')
  <2>1. LevelFits(own)
    BY <1>3
  <2> HIDE DEF own
  <2> QED
    BY <1>1, <2>1, StackChanges
<1>5. RunState
  <2>1. overlooked # "none" \/ (svclevel = 0 /\ enatex /\ ipmflg => texptn = {})
    BY <1>1 DEF TexInv, Tex!AtOnceUnlessOverlooked, Tex!AtOnce, Tex!Runs
  <2>2. enatex' => enatex
    BY <1>2
  <2>3. ipmflg' => ipmflg
    BY <1>2
  <2>4. enatex' \in BOOLEAN /\ ipmflg' \in BOOLEAN
    BY <1>2, TexTypes
  <2> QED
    BY <1>1, <1>2, <2>1, <2>2, <2>3, <2>4, TexTypes DEF RunState, Tex!TexAssumption
<1> QED
  BY <1>4, <1>5, CodeGoesOn

\* A routine starts over the code that ran.
LEMMA TopStarts ==
    ASSUME TexInv, Tex!TexAssumption, ~HasReturned, enatex, ipmflg, NEW r \in LevelType,
           r.kind \in {"stask", "utask"}, r.kind = "utask" => user /\ r.svclevel = 0,
           r.saved = disdsp, r.disdsp = disdsp, r.enatex = FALSE, r.ipmflg = TRUE,
           levels' = Append(levels, r), StartState
    PROVE  TexInv'
<1>1. MayStart(levels, r)
  <2>1. StackOK(levels) /\ Len(levels) <= MaxNest /\ TopIs(Tex!Level, ipmflg, disdsp, enatex)
    BY DEF TexInv
  <2> QED
    BY <2>1 DEF MayStart, TopIs, Tex!Level
<1> QED
  BY <1>1, RoutineStarts

LEMMA KindStarts ==
    ASSUME TexInv, Tex!TexAssumption, ~HasReturned, Tex!Due, NEW kind \in {"stask", "utask"},
           kind = "utask" => user /\ svclevel = 0, levels' = Append(levels, Tex!Routine(kind)),
           StartState
    PROVE  TexInv'
<1> DEFINE r == Tex!Routine(kind)
<1>1. /\ r \in LevelType /\ r.kind = kind /\ r.svclevel = svclevel /\ r.saved = disdsp
      /\ r.disdsp = disdsp /\ r.enatex = FALSE /\ r.ipmflg = TRUE
  BY TexTypes, RoutineIs
<1>2. levels' = Append(levels, r)
  OBVIOUS
<1> HIDE DEF r
<1> QED
  BY <1>1, <1>2, TopStarts DEF Tex!Due

\* Nothing is due in the code that runs, but for an exit that overlooked it.
LEMMA NothingDue ==
    ASSUME TexInv, Tex!Runs, ~locked
    PROVE  overlooked # "none" \/ (svclevel = 0 /\ enatex /\ ipmflg => texptn = {})
  BY DEF TexInv, Tex!AtOnceUnlessOverlooked, Tex!AtOnce

\* ras_tex of the task itself
LEMMA RasTexSelfStep ==
    ASSUME Tex!TexAssumption, TexInv, NEW f \in Tex!Factor, Tex!RasTexSelf(f) PROVE TexInv'
<1> DEFINE ptn == texptn \cup {f}
<1>1. /\ resume = "none" /\ mode = "run" /\ ~locked /\ svclevel' = svclevel /\ ipmflg' = ipmflg
      /\ disdsp' = disdsp /\ resume' = "none" /\ hready' = hready /\ acptn' = acptn /\ user' = user
      /\ ~HasReturned
  BY DEF Tex!RasTexSelf, Tex!Runs, HasReturned
<1>2. ptn # {} /\ ptn \subseteq Tex!Factor
  BY TexTypes
<1>3. /\ Tex!StartsHere(ptn, enatex, ipmflg) => Tex!Start("stask")
      /\ ~Tex!StartsHere(ptn, enatex, ipmflg) =>
             texptn' = ptn /\ Tex!EndsCall /\ UNCHANGED <<enatex, levels, locked, overlooked>>
  BY DEF Tex!RasTexSelf
<1> HIDE DEF ptn
<1>4. CASE Tex!StartsHere(ptn, enatex, ipmflg)
  <2>1. enatex /\ ipmflg /\ Tex!Start("stask")
    BY <1>3, <1>4 DEF Tex!StartsHere
  <2>2. StartState
    BY <1>1, <2>1, TexTypes DEF Tex!Start, StartState
  <2> DEFINE r == Tex!Routine("stask")
  <2>3. /\ r \in LevelType /\ r.kind = "stask" /\ r.saved = disdsp
        /\ r.disdsp = disdsp /\ r.enatex = FALSE /\ r.ipmflg = TRUE
    BY TexTypes, RoutineIs
  <2>4. levels' = Append(levels, r)
    BY <2>1 DEF Tex!Start
  <2> HIDE DEF r
  <2> QED
    BY <1>1, <2>1, <2>2, <2>3, <2>4, TopStarts
<1>5. CASE ~Tex!StartsHere(ptn, enatex, ipmflg)
  <2>1. texptn' = ptn /\ UNCHANGED <<enatex, levels, locked, overlooked>>
        /\ mode' = IF user /\ svclevel = 0 THEN "svc" ELSE "run"
    BY <1>3, <1>5 DEF Tex!EndsCall
  <2>2. svclevel = 0 /\ enatex /\ ipmflg => mode' = "svc"
    BY <1>2, <1>5, <2>1 DEF Tex!StartsHere, Tex!InKernel
  <2>3. RunState
    BY <1>1, <1>2, <2>1, <2>2, TexTypes DEF RunState, Tex!TexAssumption
  <2> QED
    BY <1>1, <2>1, <2>3, StackStays, CodeGoesOn
<1> QED
  BY <1>4, <1>5

\* chg_ipm that opens the mask: it dispatches, or starts the routine, or goes on.
LEMMA ChgIpmAllStep == ASSUME Tex!TexAssumption, TexInv, Tex!ChgIpmAll PROVE TexInv'
<1> DEFINE level == Tex!Own(enatex, TRUE, disdsp)
           lv == [levels EXCEPT ![Len(levels)] = level]
<1>1. /\ resume = "none" /\ mode = "run" /\ ~locked /\ svclevel' = svclevel /\ ipmflg' = TRUE
      /\ disdsp' = disdsp /\ locked' = locked /\ hready' = hready /\ acptn' = acptn /\ user' = user
  BY DEF Tex!ChgIpmAll, Tex!Runs
<1>2. \/ /\ ~disdsp /\ hready /\ resume' = "chg_ipm" /\ levels' = lv /\ Tex!EndsCall
         /\ UNCHANGED <<texptn, enatex, overlooked>>
      \/ /\ Tex!StartsHere(texptn, enatex, TRUE)
         /\ levels' = lv \o <<Tex!Routine("stask")>> /\ texptn' = {} /\ enatex' = FALSE
         /\ mode' = "run" /\ overlooked' = "none" /\ resume' = "none"
      \/ /\ ~Tex!StartsHere(texptn, enatex, TRUE) /\ levels' = lv /\ Tex!EndsCall /\ resume' = "none"
         /\ UNCHANGED <<texptn, enatex, overlooked>>
  BY TexTypes DEF Tex!ChgIpmAll, Tex!Leaves
<1>3. /\ level \in LevelType /\ level.kind = Tex!Level.kind /\ level.saved = Tex!Level.saved
      /\ level.svclevel = Tex!Level.svclevel /\ level.asked = Tex!Level.asked /\ level.enatex = enatex
      /\ level.ipmflg = TRUE /\ level.disdsp = disdsp
  BY TexTypes DEF Tex!Own, LevelType
<1> HIDE DEF level
<1>4. ~user => (level.enatex => level.asked) \/ Len(levels) = 1
  BY <1>1, <1>3, WhileRuns, TexTypes DEF TopIs
<1>5. CASE Tex!StartsHere(texptn, enatex, TRUE) /\ levels' = lv \o <<Tex!Routine("stask")>>
           /\ texptn' = {} /\ enatex' = FALSE /\ mode' = "run" /\ overlooked' = "none"
           /\ resume' = "none"
  <2>1. StackOK(lv) /\ Len(lv) = Len(levels) /\ lv[Len(lv)] = level
    BY <1>1, <1>3, <1>4, WhileRuns, StackLeft DEF Tex!Level
  <2> HIDE DEF lv
  <2>2. levels' = Append(lv, Tex!Routine("stask"))
    BY <1>5, <2>1 DEF StackOK
  <2>3. MayStart(lv, Tex!Routine("stask"))
    <3>1. /\ Tex!Routine("stask") \in LevelType /\ Tex!Routine("stask").kind = "stask"
          /\ Tex!Routine("stask").saved = disdsp /\ Tex!Routine("stask").disdsp = disdsp
          /\ ~Tex!Routine("stask").enatex /\ Tex!Routine("stask").ipmflg
      BY TexTypes, RoutineIs
    <3>2. lv[Len(lv)].ipmflg /\ lv[Len(lv)].enatex /\ lv[Len(lv)].disdsp = disdsp
      BY <1>3, <1>5, <2>1 DEF Tex!StartsHere
    <3>3. StackOK(lv) /\ Len(lv) = Len(levels) /\ Len(lv) <= MaxNest
      BY <1>1, <1>5, <2>1, WhileRuns DEF Tex!StartsHere
    <3> QED
      BY <3>1, <3>2, <3>3 DEF MayStart
  <2>4. StartState
    BY <1>1, <1>5, TexTypes DEF StartState
  <2> QED
    BY <2>2, <2>3, <2>4, RoutineStarts
<1>6. CASE /\ levels' = lv /\ Tex!EndsCall /\ UNCHANGED <<texptn, enatex, overlooked>>
           /\ \/ resume' = "chg_ipm" /\ ~disdsp
              \/ resume' = "none" /\ ~Tex!StartsHere(texptn, enatex, TRUE)
  <2>1. LevelFits(level)
    BY <1>1, <1>3, <1>4, <1>6, WhileRuns DEF LevelFits
  <2>2. mode' = IF user /\ svclevel = 0 THEN "svc" ELSE "run"
    BY <1>6 DEF Tex!EndsCall
  <2>3. resume' = "none" /\ svclevel = 0 /\ enatex /\ mode' = "run" => texptn = {}
    BY <1>6, <2>2 DEF Tex!StartsHere, Tex!InKernel
  <2>4. RunState
    BY <1>1, <1>6, <2>2, <2>3, TexTypes DEF RunState, Tex!TexAssumption
  <2> QED
    BY <1>1, <2>1, <2>4, StackChanges, CodeGoesOn
<1> QED
  BY <1>2, <1>5, <1>6

\* loc_cpu, and a call that makes the other task ready
LEMMA StayingCalls == ASSUME Tex!TexAssumption, TexInv, Tex!LocCpu \/ Tex!Dispatches PROVE TexInv'
<1>1. /\ Tex!Runs /\ resume = "none" /\ mode = "run" /\ ~locked /\ levels' = levels /\ ipmflg' = ipmflg
      /\ disdsp' = disdsp /\ enatex' = enatex /\ texptn' = texptn /\ svclevel' = svclevel
      /\ acptn' = acptn /\ user' = user /\ overlooked' = overlooked /\ ~HasReturned
      /\ mode' = IF user /\ svclevel = 0 THEN "svc" ELSE "run"
  BY DEF Tex!LocCpu, Tex!Dispatches, Tex!Runs, Tex!tcbVars, Tex!sysVars, Tex!EndsCall, HasReturned
<1>2. /\ locked' \in BOOLEAN /\ hready' \in BOOLEAN
      /\ resume' = "none" \/ (resume' = "dispatch" /\ ipmflg /\ ~disdsp /\ ~locked')
  <2>1. CASE Tex!LocCpu
    BY <1>1, <2>1, TexTypes DEF Tex!LocCpu
  <2>2. CASE Tex!Dispatches
    <3>1. /\ locked' = locked /\ hready' = TRUE
          /\ resume' = IF Tex!dspflg THEN "dispatch" ELSE "none"
      BY <2>2 DEF Tex!Dispatches, Tex!sysVars
    <3> QED
      BY <1>1, <3>1, TexTypes DEF Tex!dspflg
  <2> QED
    BY <2>1, <2>2
<1>3. overlooked # "none" \/ (svclevel = 0 /\ enatex /\ ipmflg => texptn = {})
  BY <1>1, NothingDue
<1>4. RunState
  BY <1>1, <1>2, <1>3, TexTypes DEF RunState, Tex!TexAssumption
<1> QED
  BY <1>1, <1>4, StackStays, CodeGoesOn

LEMMA UnlCpuStep == ASSUME Tex!TexAssumption, TexInv, Tex!UnlCpu PROVE TexInv'
<1>1. /\ resume = "none" /\ mode = "run" /\ svclevel' = svclevel /\ ipmflg' = ipmflg
      /\ disdsp' = disdsp /\ resume' = "none" /\ hready' = hready /\ acptn' = acptn /\ user' = user
      /\ ~HasReturned
  BY DEF Tex!UnlCpu, Tex!Runs, HasReturned
<1>2. CASE Tex!StartsHere(texptn, enatex, ipmflg)
  <2>1. Tex!Start("stask")
    BY <1>2 DEF Tex!UnlCpu
  <2>2. Tex!Due /\ levels' = Append(levels, Tex!Routine("stask"))
    BY <1>2, <2>1 DEF Tex!StartsHere, Tex!Due, Tex!Start
  <2>3. StartState
    BY <1>1, <2>1, <1>2, TexTypes DEF Tex!Start, StartState, Tex!StartsHere
  <2> QED
    BY <1>1, <2>2, <2>3, KindStarts
<1>3. CASE ~Tex!StartsHere(texptn, enatex, ipmflg)
  <2>1. locked' = FALSE /\ UNCHANGED <<texptn, enatex, levels, overlooked>>
        /\ mode' = IF user /\ svclevel = 0 THEN "svc" ELSE "run"
    BY <1>3 DEF Tex!UnlCpu, Tex!EndsCall
  <2>2. svclevel = 0 /\ enatex /\ ipmflg /\ mode' = "run" => texptn = {}
    BY <1>3, <2>1 DEF Tex!StartsHere, Tex!InKernel
  <2>3. RunState
    BY <1>1, <2>1, <2>2, TexTypes DEF RunState, Tex!TexAssumption
  <2> QED
    BY <1>1, <2>1, <2>3, StackStays, CodeGoesOn
<1> QED
  BY <1>2, <1>3

\* The exit of a service call of a user task
LEMMA RetServiceStep == ASSUME Tex!TexAssumption, TexInv, Tex!RetService PROVE TexInv'
<1>1. /\ resume = "none" /\ mode = "svc" /\ svclevel' = svclevel /\ ipmflg' = ipmflg
      /\ disdsp' = disdsp /\ resume' = "none" /\ hready' = hready /\ acptn' = acptn /\ user' = user
      /\ ~HasReturned
  BY DEF Tex!RetService, HasReturned
<1>2. user /\ svclevel = 0
  BY <1>1, WhileRuns
<1>3. \/ Tex!Due /\ Tex!Start("utask")
      \/ /\ mode' = "run" /\ UNCHANGED <<levels, texptn, enatex, locked>>
         /\ \/ overlooked' = "ret_service"
            \/ overlooked' = overlooked /\ ~(Tex!Due /\ ~locked)
  BY DEF Tex!RetService, Tex!Overlooks
<1>4. CASE Tex!Due /\ Tex!Start("utask")
  <2>1. StartState /\ levels' = Append(levels, Tex!Routine("utask"))
    BY <1>1, <1>4, TexTypes DEF Tex!Start, StartState, Tex!Due
  <2> QED
    BY <1>1, <1>2, <1>4, <2>1, KindStarts
<1>5. CASE /\ mode' = "run" /\ UNCHANGED <<levels, texptn, enatex, locked>>
           /\ \/ overlooked' = "ret_service"
              \/ overlooked' = overlooked /\ ~(Tex!Due /\ ~locked)
  <2>1. RunState
    BY <1>1, <1>2, <1>5, TexTypes DEF RunState, Tex!TexAssumption, Tex!Due
  <2> QED
    BY <1>1, <1>5, <2>1, StackStays, CodeGoesOn
<1> QED
  BY <1>3, <1>4, <1>5

\* A call of an extended service, and its return, which may start the routine
LEMMA ExtSvcStep == ASSUME Tex!TexAssumption, TexInv, Tex!ExtSvc PROVE TexInv'
<1>1. /\ resume = "none" /\ mode = "run" /\ svclevel' = 1 /\ ipmflg' = ipmflg
      /\ disdsp' = disdsp /\ resume' = "none" /\ hready' = hready /\ acptn' = acptn /\ user' = user
      /\ levels' = levels /\ enatex' = enatex /\ texptn' = texptn /\ locked' = locked
      /\ mode' = "run" /\ overlooked' = overlooked /\ ~HasReturned
  BY DEF Tex!ExtSvc, Tex!Runs, Tex!sysVars, HasReturned
<1>2. RunState
  BY <1>1, TexTypes DEF RunState, Tex!TexAssumption
<1> QED
  BY <1>1, <1>2, StackStays, CodeGoesOn

LEMMA RetExtSvcStep == ASSUME Tex!TexAssumption, TexInv, Tex!RetExtSvc PROVE TexInv'
<1>1. /\ resume = "none" /\ mode = "run" /\ svclevel' = 0 /\ ipmflg' = ipmflg
      /\ disdsp' = disdsp /\ resume' = "none" /\ hready' = hready /\ acptn' = acptn /\ user' = user
      /\ locked' = locked /\ mode' = "run" /\ ~HasReturned
  BY DEF Tex!RetExtSvc, Tex!Runs, Tex!sysVars, HasReturned
<1>2. CASE Tex!Due /\ ~locked
  <2> DEFINE kind == IF user THEN "utask" ELSE "stask"
             r == [Tex!Routine(kind) EXCEPT !.svclevel = 0]
  <2>1. /\ levels' = Append(levels, r) /\ texptn' = {} /\ enatex' = FALSE
        /\ overlooked' = "none"
    BY <1>2 DEF Tex!RetExtSvc
  <2>2. kind \in {"task", "stask", "utask"} /\ kind \in {"stask", "utask"}
        /\ (kind = "utask" => user)
    OBVIOUS
  <2> HIDE DEF kind
  <2>3. /\ r \in LevelType /\ r.kind = kind /\ r.svclevel = 0 /\ r.saved = disdsp
        /\ r.disdsp = disdsp /\ r.enatex = FALSE /\ r.ipmflg = TRUE
    BY <2>2, TexTypes, RoutineIs
  <2> HIDE DEF r
  <2>4. StartState
    BY <1>1, <1>2, <2>1, TexTypes DEF StartState, Tex!Due
  <2> QED
    BY <1>1, <1>2, <2>1, <2>2, <2>3, <2>4, TopStarts DEF Tex!Due
<1>3. CASE ~(Tex!Due /\ ~locked)
  <2>1. UNCHANGED <<levels, texptn, enatex, overlooked>>
    BY <1>3 DEF Tex!RetExtSvc
  <2>2. RunState
    BY <1>1, <1>3, <2>1, TexTypes DEF RunState, Tex!TexAssumption, Tex!Due
  <2> QED
    BY <1>1, <2>1, <2>2, StackStays, CodeGoesOn
<1> QED
  BY <1>2, <1>3

\* The routine returns.
LEMMA ReturnsStep == ASSUME Tex!TexAssumption, TexInv, Tex!Returns PROVE TexInv'
<1>1. /\ resume = "none" /\ mode = "run" /\ Len(levels) > 1 /\ svclevel = Tex!Level.svclevel
      /\ ipmflg' = TRUE /\ locked' = FALSE
      /\ disdsp' = IF Tex!Level.kind = "stask" \/ 1 \in acptn THEN Tex!Level.saved ELSE disdsp
      /\ enatex' = IF Tex!Level.kind = "stask" THEN FALSE ELSE enatex
      /\ resume' = IF hready /\ ~disdsp' THEN "ret" ELSE "again"
      /\ texptn' = texptn /\ svclevel' = svclevel /\ levels' = levels /\ mode' = mode
      /\ hready' = hready /\ acptn' = acptn /\ user' = user /\ overlooked' = overlooked
  BY DEF Tex!Returns, Tex!Runs
<1>2. Tex!Level' = Tex!Level /\ Tex!Level \in LevelType
  BY <1>1, TexTypes DEF Tex!Level
<1>3. disdsp' \in BOOLEAN /\ enatex' \in BOOLEAN /\ (enatex' => enatex)
  <2>1. Tex!Level.saved \in BOOLEAN
    BY <1>2 DEF LevelType
  <2> QED
    BY <1>1, <2>1, TexTypes
<1>4. /\ HasReturned' /\ (resume' = "ret" => Tex!dspflg' /\ ~locked')
      /\ resume' \in {"ret", "again"}
  BY <1>1 DEF HasReturned, Tex!dspflg
<1>5. StackOK(levels)'
  BY <1>1 DEF TexInv, StackOK
<1>6. Tex!TypeOK'
  <2>1. {enatex, ipmflg, disdsp, locked, hready, user}' \subseteq BOOLEAN
    BY <1>1, <1>3, TexTypes
  <2>2. Len(levels') \in 1 .. MaxNest + 1
    BY <1>1 DEF TexInv, Tex!TypeOK
  <2>3. resume' \in {"dispatch", "chg_ipm", "int", "ret"} => Tex!dspflg' /\ ~locked'
    BY <1>4
  <2>4. /\ texptn' \subseteq Tex!Factor /\ svclevel' \in 0 .. 1 /\ acptn' \subseteq {1, 2}
        /\ mode' \in {"run", "svc"} /\ overlooked' \in {"none", "dispatch_r", "ret_service"}
        /\ resume' \in {"none", "exit", "dispatch", "chg_ipm", "int", "ret", "again"}
    BY <1>1, <1>4, TexTypes
  <2> QED
    BY <2>1, <2>2, <2>3, <2>4 DEF Tex!TypeOK
<1>7. ReturnInv'
  BY <1>1, <1>2 DEF ReturnInv
<1>8. Tex!AtOnceUnlessOverlooked'
  BY <1>4 DEF Tex!AtOnceUnlessOverlooked, Tex!AtOnce, Tex!Runs
<1>9. enatex' => Len(levels') <= MaxNest
  BY <1>1, <1>3 DEF TexInv
<1> QED
  BY <1>1, <1>4, <1>5, <1>6, <1>7, <1>8, <1>9 DEF TexInv

\* It is called again, or the code it interrupted goes on.
LEMMA RepeatsStep == ASSUME Tex!TexAssumption, TexInv, Tex!Repeats PROVE TexInv'
<1>1. /\ resume = "again" /\ resume' = "none" /\ mode' = "run" /\ svclevel' = svclevel
      /\ ipmflg' = ipmflg /\ disdsp' = disdsp /\ locked' = locked /\ hready' = hready
      /\ acptn' = acptn /\ user' = user
  BY DEF Tex!Repeats, Tex!sysVars
<1>2. ReturnInv /\ StackOK(levels) /\ Len(levels) > 1 /\ ipmflg /\ (~user => 1 \in acptn)
      /\ (enatex => Len(levels) <= MaxNest) /\ Len(levels) \in 1 .. MaxNest + 1
  BY <1>1 DEF TexInv, HasReturned, ReturnInv, Tex!TypeOK
<1>3. /\ Tex!Level.kind # "task" /\ (Tex!Level.kind = "utask" => user)
      /\ levels[Len(levels) - 1].ipmflg
      /\ 1 \in acptn => levels[Len(levels) - 1].disdsp = Tex!Level.saved
      /\ ~user => levels[Len(levels) - 1].enatex
  BY <1>2 DEF StackOK, Tex!Level
<1>4. ~user => enatex = FALSE
  BY <1>2, <1>3, TexTypes DEF ReturnInv, LevelType
<1>5. CASE texptn # {}
  <2> DEFINE level == [Tex!Level EXCEPT !.asked = FALSE, !.enatex = FALSE, !.ipmflg = TRUE,
                                    !.disdsp = disdsp]
             lv == [levels EXCEPT ![Len(levels)] = level]
  <2>1. levels' = lv /\ texptn' = {} /\ overlooked' = "none" /\ enatex' = enatex
    BY <1>5 DEF Tex!Repeats, Tex!Leaves
  <2>2. /\ level \in LevelType /\ level.kind = Tex!Level.kind /\ level.saved = Tex!Level.saved
        /\ level.svclevel = Tex!Level.svclevel /\ level.enatex = FALSE
        /\ level.ipmflg = TRUE /\ level.disdsp = disdsp
    BY TexTypes DEF LevelType
  <2> HIDE DEF level
  <2>3. StackOK(lv) /\ Len(lv) = Len(levels) /\ lv[Len(lv)] = level
    BY <1>2, <2>2, StackLeft DEF Tex!Level
  <2> HIDE DEF lv
  <2>4. RunStack
    <3>1. lv[Len(lv)].ipmflg = ipmflg' /\ lv[Len(lv)].disdsp = disdsp'
      BY <1>1, <1>2, <2>2, <2>3, TexTypes
    <3>2. ~user => lv[Len(lv)].enatex = enatex'
      BY <1>4, <2>1, <2>2, <2>3
    <3>3. Len(lv) <= MaxNest + 1 /\ (enatex' => Len(lv) <= MaxNest)
      BY <1>2, <2>1, <2>3
    <3> QED
      BY <2>1, <2>3, <3>1, <3>2, <3>3 DEF RunStack
  <2>5. RunState
    BY <1>1, <2>1, TexTypes DEF RunState
  <2> QED
    BY <2>4, <2>5, CodeGoesOn
<1>6. CASE texptn = {}
  <2> DEFINE lv == SubSeq(levels, 1, Len(levels) - 1)
  <2>1. levels' = lv /\ texptn' = {} /\ overlooked' = overlooked /\ enatex' = TRUE
    BY <1>6 DEF Tex!Repeats
  <2>2. StackOK(lv) /\ Len(lv) = Len(levels) - 1 /\ lv[Len(lv)] = levels[Len(levels) - 1]
    BY <1>2, StackPopped
  <2> HIDE DEF lv
  <2>3. Len(lv) <= MaxNest
    BY <1>2, <2>2 DEF Tex!TexAssumption
  <2>4. RunStack
    <3>1. /\ lv[Len(lv)].ipmflg = ipmflg'
      BY <1>1, <1>2, <1>3, <2>2, TexTypes DEF StackOK, LevelType
    <3>2. 1 \in acptn => lv[Len(lv)].disdsp = disdsp'
      BY <1>1, <1>2, <1>3, <2>2 DEF ReturnInv
    <3>3. ~user => lv[Len(lv)].enatex = enatex'
      <4>0. lv[Len(lv)] \in LevelType
        BY <2>2 DEF StackOK
      <4>1. lv[Len(lv)].enatex \in BOOLEAN
        BY <4>0 DEF LevelType
      <4> QED
        BY <1>3, <2>1, <2>2, <4>1
    <3>4. Len(lv) <= MaxNest + 1
      BY <1>2, <2>2 DEF Tex!TexAssumption
    <3> QED
      BY <2>1, <2>2, <2>3, <3>1, <3>2, <3>3, <3>4 DEF RunStack
  <2>5. RunState
    BY <1>1, <2>1, TexTypes DEF RunState
  <2> QED
    BY <2>4, <2>5, CodeGoesOn
<1> QED
  BY <1>5, <1>6

\* An interrupt, and its exit, which may start the routine
LEMMA InterruptStep == ASSUME Tex!TexAssumption, TexInv, Tex!Interrupt PROVE TexInv'
<1>1. /\ resume = "none" /\ ~locked /\ enatex' = enatex /\ svclevel' = svclevel
      /\ ipmflg' = ipmflg /\ disdsp' = disdsp /\ locked' = locked /\ levels' = levels
      /\ mode' = mode /\ acptn' = acptn /\ user' = user /\ overlooked' = overlooked /\ ~HasReturned
  BY DEF Tex!Interrupt, Tex!sysVars, HasReturned
<1>2. PICK fs \in SUBSET Tex!Factor, h \in BOOLEAN :
          /\ texptn' = texptn \cup fs
          /\ hready' = (hready \/ h)
          /\ resume' = IF ((fs # {} /\ enatex /\ ipmflg) \/ h) /\ hready' /\ Tex!dspflg THEN "int"
                       ELSE IF fs # {} /\ enatex /\ ipmflg THEN "exit" ELSE "none"
  BY DEF Tex!Interrupt
<1>3. /\ resume' \in {"none", "exit", "int"}
      /\ resume' = "int" => ipmflg /\ ~disdsp
      /\ resume' = "none" /\ enatex /\ ipmflg => fs = {}
  BY <1>2 DEF Tex!dspflg
<1>4. \/ overlooked # "none"
      \/ resume' = "none" /\ mode = "run" /\ svclevel = 0 /\ enatex /\ ipmflg => texptn' = {}
  BY <1>1, <1>2, <1>3, NothingDue DEF Tex!Runs
<1>5. hready' \in BOOLEAN /\ texptn' \subseteq Tex!Factor
  BY <1>2, TexTypes
<1>6. RunState
  BY <1>1, <1>3, <1>4, <1>5, TexTypes, WhileRuns DEF RunState, Tex!TexAssumption
<1> QED
  BY <1>1, <1>6, StackStays, CodeGoesOn

LEMMA RetIntStep ==
    ASSUME Tex!TexAssumption, TexInv, ~HasReturned, Tex!RetInt, resume' = "none",
           hready' \in BOOLEAN, UNCHANGED <<svclevel, ipmflg, disdsp, acptn, user>>
    PROVE  TexInv'
<1>1. \/ Tex!Due /\ Tex!InKernel(svclevel) /\ svclevel = 0 /\ Tex!Start("stask")
      \/ Tex!Due /\ ~Tex!InKernel(svclevel) /\ mode = "run" /\ Tex!Start("utask")
      \/ /\ Tex!Passes
         /\ ~(Tex!Due /\ Tex!InKernel(svclevel) /\ svclevel = 0)
         /\ ~(Tex!Due /\ ~Tex!InKernel(svclevel) /\ mode = "run")
  BY DEF Tex!RetInt
<1>2. CASE Tex!Due /\ Tex!Start("stask")
  <2>1. levels' = Append(levels, Tex!Routine("stask"))
    BY <1>2 DEF Tex!Start
  <2>2. StartState
    BY <1>2, TexTypes DEF StartState, Tex!Start, Tex!Due
  <2> QED
    BY <1>2, <2>1, <2>2, KindStarts
<1>3. CASE Tex!Due /\ ~Tex!InKernel(svclevel) /\ Tex!Start("utask")
  <2>1. levels' = Append(levels, Tex!Routine("utask")) /\ user /\ svclevel = 0
    BY <1>3, TexTypes DEF Tex!Start, Tex!InKernel
  <2>2. StartState
    BY <1>3, TexTypes DEF StartState, Tex!Start, Tex!Due
  <2> QED
    BY <1>3, <2>1, <2>2, KindStarts
<1>4. CASE /\ Tex!Passes
           /\ ~(Tex!Due /\ Tex!InKernel(svclevel) /\ svclevel = 0)
           /\ ~(Tex!Due /\ ~Tex!InKernel(svclevel) /\ mode = "run")
  <2>1. svclevel = 0 /\ enatex /\ ipmflg /\ mode = "run" => texptn = {}
    BY <1>4 DEF Tex!Due
  <2>2. mode = "svc" => user /\ svclevel = 0
    BY DEF TexInv
  <2>3. RunState
    BY <1>4, <2>1, <2>2, TexTypes DEF RunState, Tex!Passes
  <2> QED
    BY <1>4, <2>3, StackStays, CodeGoesOn DEF Tex!Passes
<1> QED
  BY <1>1, <1>2, <1>3, <1>4

LEMMA InterruptExitsStep == ASSUME Tex!TexAssumption, TexInv, Tex!InterruptExits PROVE TexInv'
  BY RetIntStep, TexTypes DEF Tex!InterruptExits, HasReturned

\* ras_tex by the other task
LEMMA RasTexStep == ASSUME Tex!TexAssumption, TexInv, NEW f \in Tex!Factor, Tex!RasTex(f) PROVE TexInv'
<1>1. /\ resume \in {"dispatch", "chg_ipm", "ret", "int"} /\ texptn' = texptn \cup {f}
      /\ enatex' = enatex /\ svclevel' = svclevel /\ ipmflg' = ipmflg /\ disdsp' = disdsp
      /\ locked' = locked /\ levels' = levels /\ mode' = mode /\ resume' = resume
      /\ hready' = hready /\ acptn' = acptn /\ user' = user /\ overlooked' = overlooked
  BY DEF Tex!RasTex, Tex!sysVars
<1>2. Tex!Level' = Tex!Level
  BY <1>1 DEF Tex!Level
<1>3. StackOK(levels)' /\ (ReturnInv => ReturnInv') /\ HasReturned' = HasReturned
      /\ (TopIs(Tex!Level, ipmflg, disdsp, enatex) => TopIs(Tex!Level, ipmflg, disdsp, enatex)')
  BY <1>1, <1>2 DEF TexInv, StackOK, ReturnInv, HasReturned, TopIs
<1>4. Tex!TypeOK'
  <2>1. {enatex, ipmflg, disdsp, locked, hready, user}' \subseteq BOOLEAN
    BY <1>1, TexTypes
  <2>2. Len(levels') \in 1 .. MaxNest + 1 /\ texptn' \subseteq Tex!Factor
    BY <1>1, TexTypes DEF TexInv, Tex!TypeOK
  <2>3. resume' \in {"dispatch", "chg_ipm", "int", "ret"} => Tex!dspflg' /\ ~locked'
    BY <1>1 DEF TexInv, Tex!TypeOK, Tex!dspflg
  <2> QED
    BY <1>1, <2>1, <2>2, <2>3, TexTypes DEF Tex!TypeOK
<1>5. Tex!AtOnceUnlessOverlooked'
  BY <1>1 DEF Tex!AtOnceUnlessOverlooked, Tex!AtOnce, Tex!Runs
<1> QED
  BY <1>1, <1>3, <1>4, <1>5 DEF TexInv

\* The dispatcher comes back to the task, in a call or where it was preempted.
LEMMA GoesOnStep ==
    ASSUME Tex!TexAssumption, TexInv, resume \in {"dispatch", "chg_ipm"},
           Tex!DispatchR \/ Tex!ChgIpmGoesOn, resume' = "none", hready' \in BOOLEAN,
           UNCHANGED <<svclevel, ipmflg, disdsp, acptn, user>>
    PROVE  TexInv'
<1>0. ~HasReturned
  BY DEF HasReturned
<1>1. \/ Tex!Due /\ Tex!Start("stask")
      \/ /\ mode' = "run" /\ UNCHANGED <<levels, texptn, enatex, locked>>
         /\ overlooked' = "dispatch_r"
      \/ Tex!Passes /\ (svclevel # 0 \/ ~(Tex!Due /\ Tex!InKernel(svclevel)))
  BY TexTypes DEF Tex!DispatchR, Tex!ChgIpmGoesOn, Tex!Overlooks
<1>2. CASE Tex!Due /\ Tex!Start("stask")
  <2>1. levels' = Append(levels, Tex!Routine("stask"))
    BY <1>2 DEF Tex!Start
  <2>2. StartState
    BY <1>2, TexTypes DEF StartState, Tex!Start, Tex!Due
  <2> QED
    BY <1>0, <1>2, <2>1, <2>2, KindStarts
<1>3. CASE /\ mode' = "run" /\ UNCHANGED <<levels, texptn, enatex, locked>>
           /\ overlooked' = "dispatch_r"
  <2>1. RunState
    BY <1>3, TexTypes DEF RunState
  <2> QED
    BY <1>0, <1>3, <2>1, StackStays, CodeGoesOn
<1>4. CASE Tex!Passes /\ (svclevel # 0 \/ ~(Tex!Due /\ Tex!InKernel(svclevel)))
  <2>1. mode = "svc" => user /\ svclevel = 0
    BY DEF TexInv
  <2>2. user /\ svclevel = 0 => mode = "svc" \/ ~enatex
    BY DEF TexInv
  <2>3. svclevel = 0 /\ enatex /\ ipmflg /\ mode = "run" => texptn = {}
    BY <1>4, <2>2 DEF Tex!Due, Tex!InKernel
  <2>4. RunState
    BY <1>4, <2>1, <2>3, TexTypes DEF RunState, Tex!Passes
  <2> QED
    BY <1>0, <1>4, <2>4, StackStays, CodeGoesOn DEF Tex!Passes
<1> QED
  BY <1>1, <1>2, <1>3, <1>4

\* It comes back to a routine that has returned: nothing is due there, since the
\* routine of a system task disables exceptions when it returns.
LEMMA BackInReturn ==
    ASSUME Tex!TexAssumption, TexInv, resume = "ret"
    PROVE  ~(Tex!Due /\ Tex!InKernel(svclevel))
<1>1. ReturnInv /\ StackOK(levels)
  BY DEF TexInv, HasReturned
<1>2. Tex!Level.kind # "task" /\ (Tex!Level.kind = "utask" => user /\ Tex!Level.svclevel = 0)
  BY <1>1 DEF ReturnInv, StackOK, Tex!Level
<1>3. Tex!Level.kind \in {"task", "stask", "utask"}
  BY TexTypes DEF LevelType
<1> QED
  BY <1>1, <1>2, <1>3 DEF ReturnInv, Tex!Due, Tex!InKernel

LEMMA ResumesStep == ASSUME Tex!TexAssumption, TexInv, Tex!Resumes PROVE TexInv'
<1>1. /\ resume \in {"dispatch", "chg_ipm", "ret", "int"} /\ hready' = FALSE
      /\ svclevel' = svclevel /\ ipmflg' = ipmflg /\ disdsp' = disdsp /\ acptn' = acptn /\ user' = user
  BY DEF Tex!Resumes
<1>2. CASE resume \in {"dispatch", "chg_ipm"}
  <2>1. (Tex!DispatchR \/ Tex!ChgIpmGoesOn) /\ resume' = "none"
    BY <1>2 DEF Tex!Resumes
  <2> QED
    BY <1>1, <1>2, <2>1, GoesOnStep
<1>3. CASE resume = "int"
  <2>1. Tex!RetInt /\ resume' = "none" /\ ~HasReturned
    BY <1>3 DEF Tex!Resumes, HasReturned
  <2> QED
    BY <1>1, <2>1, RetIntStep
<1>4. CASE resume = "ret"
  <2>1. resume' = "again" /\ Tex!Passes
    BY <1>4, BackInReturn DEF Tex!Resumes
  <2>2. /\ levels' = levels /\ texptn' = texptn /\ enatex' = enatex /\ overlooked' = overlooked
        /\ locked' = locked /\ mode' = mode /\ Tex!Level' = Tex!Level
    BY <2>1 DEF Tex!Passes, Tex!Level
  <2>3. StackOK(levels)' /\ ReturnInv' /\ HasReturned'
    BY <1>1, <1>4, <2>1, <2>2 DEF TexInv, StackOK, ReturnInv, HasReturned
  <2>4. Tex!TypeOK'
    <3>1. {enatex, ipmflg, disdsp, locked, hready, user}' \subseteq BOOLEAN
      BY <1>1, <2>2, TexTypes
    <3>2. Len(levels') \in 1 .. MaxNest + 1 /\ texptn' \subseteq Tex!Factor
      BY <2>2, TexTypes DEF TexInv, Tex!TypeOK
    <3> QED
      BY <1>1, <2>1, <2>2, <3>1, <3>2, TexTypes DEF Tex!TypeOK
  <2>5. Tex!AtOnceUnlessOverlooked'
    BY <2>1 DEF Tex!AtOnceUnlessOverlooked, Tex!AtOnce, Tex!Runs
  <2>6. (enatex' => Len(levels') <= MaxNest) /\ (mode' = "svc" => user' /\ svclevel' = 0)
        /\ (~user' => 1 \in acptn')
    BY <1>1, <2>2 DEF TexInv
  <2> QED
    BY <2>1, <2>3, <2>4, <2>5, <2>6 DEF TexInv
<1> QED
  BY <1>1, <1>2, <1>3, <1>4

\* The task is terminated and activated again.
LEMMA RestartsStep == ASSUME Tex!TexAssumption, TexInv, Tex!Restarts PROVE TexInv'
<1> DEFINE r == [Tex!Routine("task") EXCEPT !.svclevel = 0]
<1>1. /\ resume \in {"dispatch", "chg_ipm", "ret", "int"} /\ texptn' = {} /\ enatex' = FALSE
      /\ svclevel' = 0 /\ levels' = <<r>> /\ mode' = "run" /\ resume' = "dispatch"
      /\ overlooked' = "none" /\ ipmflg' = ipmflg /\ disdsp' = disdsp /\ locked' = locked
      /\ hready' = hready /\ acptn' = acptn /\ user' = user
  BY DEF Tex!Restarts, Tex!sysVars
<1>2. ipmflg = TRUE /\ disdsp = FALSE /\ locked = FALSE
  BY <1>1, TexTypes DEF TexInv, Tex!TypeOK, Tex!dspflg
<1>3. /\ r \in LevelType /\ r.kind = "task" /\ r.enatex = FALSE /\ r.ipmflg = TRUE
      /\ r.disdsp = disdsp
  BY TexTypes, RoutineIs
<1> HIDE DEF r
<1>4. Len(levels') = 1 /\ levels'[1] = r /\ levels' \in Seq(LevelType)
  BY <1>1, <1>3
<1>5. StackOK(levels')
  BY <1>3, <1>4 DEF StackOK
<1>6. RunStack
  <2>1. levels'[Len(levels')] = r /\ Len(levels') <= MaxNest + 1
    BY <1>4 DEF Tex!TexAssumption
  <2>2. r.ipmflg = ipmflg' /\ r.disdsp = disdsp' /\ r.enatex = enatex' /\ ~enatex'
    BY <1>1, <1>2, <1>3
  <2> QED
    BY <1>5, <2>1, <2>2 DEF RunStack
<1>7. RunState
  BY <1>1, <1>2, TexTypes DEF RunState
<1> QED
  BY <1>6, <1>7, CodeGoesOn

LEMMA TexStutter == ASSUME TexInv, UNCHANGED Tex!vars PROVE TexInv'
<1>1. /\ texptn' = texptn /\ enatex' = enatex /\ svclevel' = svclevel /\ ipmflg' = ipmflg
      /\ disdsp' = disdsp /\ locked' = locked /\ levels' = levels /\ mode' = mode
      /\ resume' = resume /\ hready' = hready /\ acptn' = acptn /\ user' = user /\ overlooked' = overlooked
  BY DEF Tex!vars, Tex!tcbVars, Tex!sysVars
<1>2. Tex!Level' = Tex!Level
  BY <1>1 DEF Tex!Level
<1>3. /\ StackOK(levels)' /\ (ReturnInv => ReturnInv') /\ HasReturned' = HasReturned
      /\ (TopIs(Tex!Level, ipmflg, disdsp, enatex) => TopIs(Tex!Level, ipmflg, disdsp, enatex)')
  BY <1>1, <1>2 DEF TexInv, StackOK, ReturnInv, HasReturned, TopIs
<1>4. Tex!TypeOK' /\ Tex!AtOnceUnlessOverlooked'
  BY <1>1 DEF TexInv, Tex!TypeOK, Tex!dspflg, Tex!AtOnceUnlessOverlooked, Tex!AtOnce, Tex!Runs
<1> QED
  BY <1>1, <1>3, <1>4 DEF TexInv

LEMMA TexStep == ASSUME Tex!TexAssumption, TexInv, [Tex!Next]_Tex!vars PROVE TexInv'
<1>1. CASE Tex!Calls
  BY <1>1, EnaTexStep, LeavingCalls, ChgIpmAllStep, StayingCalls, UnlCpuStep, ExtSvcStep,
     RetExtSvcStep, RasTexSelfStep DEF Tex!Calls
<1>2. CASE Tex!RetService \/ Tex!Returns \/ Tex!Repeats \/ Tex!Interrupt \/ Tex!InterruptExits \/ Tex!Resumes \/ Tex!Restarts
  BY <1>2, RetServiceStep, ReturnsStep, RepeatsStep, InterruptStep, InterruptExitsStep,
     ResumesStep, RestartsStep
<1>3. CASE \E f \in Tex!Factor : Tex!RasTex(f)
  BY <1>3, RasTexStep
<1>4. CASE UNCHANGED Tex!vars
  BY <1>4, TexStutter
<1> QED
  BY <1>1, <1>2, <1>3, <1>4 DEF Tex!Next

\* The stack of routines, and what the state must be when the code on top goes on or
\* the routine on top has returned (task_except.c:93-133, core_support.S).
THEOREM TexInvariance ==
    ASSUME Tex!TexAssumption
    PROVE  TexSpec => []TexInv
<1>1. Tex!Init => TexInv
  BY TexInitInv
<1>2. TexInv /\ [Tex!Next]_Tex!vars => TexInv'
  BY TexStep
<1> QED
  BY <1>1, <1>2, PTL DEF TexSpec, Tex!Spec

LEMMA TexInvImplies == ASSUME Tex!TexAssumption, TexInv PROVE Tex!RoutinesInContext
<1>1. Tex!ContextKept /\ (~user => Tex!EnatexKept)
  BY DEF TexInv, HasReturned, TopIs, Tex!ContextKept, Tex!EnatexKept, Tex!Runs
<1>2. ASSUME ~user, NEW i \in 2 .. Len(levels) - 1 PROVE levels[i].asked
  <2>1. StackOK(levels) /\ i + 1 \in 2 .. Len(levels) /\ i \in 2 .. Len(levels)
        /\ (i + 1) - 1 = i
    BY DEF TexInv, StackOK
  <2>2. levels[i].enatex
    BY <1>2, <2>1 DEF StackOK
  <2> QED
    BY <1>2, <2>1, <2>2 DEF StackOK
<1> QED
  BY <1>1, <1>2 DEF TexInv, Tex!RoutinesInContext, Tex!NestsIfEnabled


-----------------------------------------------------------------------------
(***************************************************************************)
(* The EV3 cyclic handlers                                                 *)
(***************************************************************************)

\* Tasks of the application that are creating a handler, and those that stop one
Creating == {a \in AppTask : apppc[a] \in {"counted", "made", "entered", "cycled"}}
Stopping == {a \in AppTask : apppc[a] \in {"stops", "cancels"}}

\* Whether entry i has its task in the table, and which task it has: the one there, or
\* the one that a task of the application has made and has yet to enter
Entered(i) ==
    i \in given \/ \E a \in AppTask : apppc[a] \in {"entered", "cycled"} /\ my[a] = i
HasTask(i, t) ==
    \/ Entered(i) /\ cycinib[i].task = t
    \/ \E a \in AppTask : apppc[a] = "made" /\ my[a] = i /\ new[a] = t

\* The same for the cyclic handler of entry i
HasCyc(i, c) ==
    \/ i \in given /\ cycinib[i].cyclic = c
    \/ \E a \in AppTask : apppc[a] = "cycled" /\ my[a] = i /\ new[a] = c

\* Every entry that was counted was handed out, or is in the hands of one task.
EntriesInv ==
    /\ given \subseteq 1 .. tmax_ev3cycid
    /\ \A a \in Creating : my[a] \in 1 .. tmax_ev3cycid /\ my[a] \notin given
    /\ \A a, b \in Creating : my[a] = my[b] => a = b
    /\ \A i \in 1 .. tmax_ev3cycid : i \in given \/ \E a \in Creating : my[a] = i

\* The tasks that exist, except those that ter_tsk has started again, belong to
\* different entries from .. to, and every one that belongs to an entry exists; the
\* cyclic handlers likewise, by their slots.
TasksInv(from, to) ==
    /\ \A t \in tsk : t \in left \/ \E i \in from .. to : HasTask(i, t)
    /\ \A i, j \in Cyc!Ev3CycId : \A t \in TSKID : HasTask(i, t) /\ HasTask(j, t) => i = j
    /\ \A i \in from .. to : \A t \in TSKID \cup {0} : HasTask(i, t) => t \in tsk

\* The tasks of earlier entries live on, and do not belong to an entry from .. to.
LeftInv(from, to) ==
    /\ left \subseteq tsk
    /\ \A i \in from .. to : \A t \in left : ~HasTask(i, t)

CycsInv(from, to) ==
    /\ \A c \in cyc : slot[c] \in from .. to /\ HasCyc(slot[c], c)
    /\ \A i \in from .. to : \A c \in CYCID : HasCyc(i, c) => c \in cyc /\ slot[c] = i

\* What has been stopped stays so; a task that stops a handler has the CPU to itself.
QuietInv ==
    /\ \A a \in Stopping : ~dsp /\ my[a] \in given
    /\ \A a, b \in Stopping : a = b
    /\ \A a \in AppTask : apppc[a] = "cancels" => cycinib[my[a]].cyclic \notin on
    /\ cycfailed = "none" => \A id \in quiet :
           /\ cycinib[id].cyclic \notin on
           /\ cycinib[id].task \in TSKID /\ act[cycinib[id].task] <= 1

\* What the table and the kernel agree on while an application is loaded, while it is
\* destroyed entry by entry, and while none is
NoneInv ==
    /\ EntriesInv /\ TasksInv(1, tmax_ev3cycid) /\ CycsInv(1, tmax_ev3cycid)
    /\ LeftInv(1, tmax_ev3cycid)
TaskTerminated ==
    /\ cycinib[k].task \in tsk /\ act[cycinib[k].task] \in {0, 1}
    /\ cycinib[k].task \in left <=> act[cycinib[k].task] = 1
TermInv ==
    /\ \A a \in AppTask : apppc[a] = "runs"
    /\ tmax_ev3cycid = 0 /\ given = 1 .. deleted /\ k \in 1 .. deleted + 1
    /\ \A id \in given : cycinib[id].task # 0
    /\ TasksInv(k, deleted) /\ LeftInv(k + 1, deleted)
    /\ term = "cyc" => CycsInv(k, deleted)
    /\ term \in {"cyc", "ter"} => LeftInv(k, deleted)
    /\ term \in {"ter", "del"} => k <= deleted /\ CycsInv(k + 1, deleted)
    /\ term = "del" /\ cycfailed = "none" => TaskTerminated
UnloadedInv ==
    /\ tmax_ev3cycid = 0 /\ given = {} /\ tsk = left /\ cyc = {}
    /\ \A a \in AppTask : apppc[a] = "none"
TableInv ==
    /\ term = "none" => NoneInv
    /\ term \in {"cyc", "ter", "del"} => TermInv
    /\ term = "unloaded" => UnloadedInv

\* What holds also when an application is cut off
Labels == {"none", "runs", "counted", "made", "entered", "cycled", "stops", "cancels"}
PlacesOK ==
    /\ apppc \in [AppTask -> Labels]
    /\ new \in [AppTask -> TSKID \cup CYCID \cup {0, Cyc!ErrorCode}]
    /\ \A a \in AppTask :
          /\ apppc[a] = "made" => new[a] \in TSKID \cup {0, Cyc!ErrorCode}
          /\ apppc[a] = "cycled" => new[a] \in CYCID \cup {0, Cyc!ErrorCode}
          /\ apppc[a] # "runs" /\ apppc[a] # "none" /\ term = "none" => my[a] \in Cyc!Ev3CycId
          /\ apppc[a] \in {"stops", "cancels"} => my[a] \in given
    /\ k \in Nat /\ term \in {"none", "cyc", "ter", "del", "unloaded"}
    /\ cut \in BOOLEAN /\ dsp \in BOOLEAN

CycInv == Cyc!TypeOK /\ PlacesOK /\ (~cut => QuietInv /\ TableInv)

CycSpec == Cyc!Spec

\* The places and the types
LEMMA CycTypes ==
    ASSUME CycInv, Cyc!IdAssumption
    PROVE  /\ tmax_ev3cycid \in Nat /\ deleted \in Nat /\ k \in Nat
           /\ tmax_ev3cycid <= TMAX_EV3_CYC_NUM /\ deleted <= TMAX_EV3_CYC_NUM
           /\ TMAX_EV3_CYC_NUM \in Nat
           /\ \A a \in AppTask : my[a] \in Nat
           /\ DOMAIN apppc = AppTask /\ DOMAIN my = AppTask /\ DOMAIN new = AppTask
           /\ \A id \in Cyc!Ev3CycId : /\ cycinib[id].task \in TSKID \cup {0, Cyc!ErrorCode}
                                   /\ cycinib[id].cyclic \in CYCID \cup {0, Cyc!ErrorCode}
           /\ \A t \in TSKID : act[t] \in 0 .. 2
           /\ 0 \notin TSKID /\ 0 \notin CYCID
           /\ Cyc!ErrorCode \notin TSKID /\ Cyc!ErrorCode \notin CYCID
           /\ left \subseteq TSKID /\ Cyc!ErrorCode # 0
           /\ tsk \subseteq TSKID /\ cyc \subseteq CYCID /\ on \subseteq cyc
           /\ given \subseteq Cyc!Ev3CycId /\ quiet \subseteq given
  BY DEF CycInv, Cyc!TypeOK, PlacesOK, Cyc!IdAssumption, Cyc!Ev3CycId, Cyc!ErrorCode

\* A task goes on to another label, perhaps with another entry or ID.
LEMMA AppMoves ==
    ASSUME PlacesOK, NEW a \in AppTask, NEW label \in Labels,
           apppc' = [apppc EXCEPT ![a] = label]
    PROVE  /\ apppc' \in [AppTask -> Labels]
           /\ apppc'[a] = label /\ \A b \in AppTask : b # a => apppc'[b] = apppc[b]
  BY DEF PlacesOK

LEMMA MyMoves ==
    ASSUME CycInv, NEW a \in AppTask, NEW i \in 0 .. TMAX_EV3_CYC_NUM,
           my' = [my EXCEPT ![a] = i]
    PROVE  /\ my' \in [AppTask -> 0 .. TMAX_EV3_CYC_NUM]
           /\ my'[a] = i /\ \A b \in AppTask : b # a => my'[b] = my[b]
  BY DEF CycInv, Cyc!TypeOK

LEMMA NewMoves ==
    ASSUME CycInv, NEW a \in AppTask, NEW n \in TSKID \cup CYCID \cup {0, Cyc!ErrorCode},
           new' = [new EXCEPT ![a] = n]
    PROVE  /\ new' \in [AppTask -> TSKID \cup CYCID \cup {0, Cyc!ErrorCode}]
           /\ new'[a] = n /\ \A b \in AppTask : b # a => new'[b] = new[b]
  BY DEF CycInv, PlacesOK

\* What a step of a task of the application leaves the places in
PlaceFits(a) ==
    /\ apppc'[a] = "made" => new'[a] \in TSKID \cup {0, Cyc!ErrorCode}
    /\ apppc'[a] = "cycled" => new'[a] \in CYCID \cup {0, Cyc!ErrorCode}
    /\ apppc'[a] # "runs" => my'[a] \in Cyc!Ev3CycId
    /\ apppc'[a] \in {"stops", "cancels"} => my'[a] \in given'

LEMMA PlacesMove ==
    ASSUME CycInv, NEW a \in AppTask, NEW label \in Labels, NEW i \in 0 .. TMAX_EV3_CYC_NUM,
           NEW n \in TSKID \cup CYCID \cup {0, Cyc!ErrorCode},
           apppc' = [apppc EXCEPT ![a] = label], my' = [my EXCEPT ![a] = i],
           new' = [new EXCEPT ![a] = n], given \subseteq given',
           term = "none", term' = "none", k' = k, cut' = cut, dsp' \in BOOLEAN, PlaceFits(a)
    PROVE  PlacesOK' /\ my' \in [AppTask -> 0 .. TMAX_EV3_CYC_NUM]
<1>1. /\ apppc' \in [AppTask -> Labels] /\ new' \in [AppTask -> TSKID \cup CYCID \cup {0, Cyc!ErrorCode}]
      /\ my' \in [AppTask -> 0 .. TMAX_EV3_CYC_NUM]
      /\ \A b \in AppTask : b # a => apppc'[b] = apppc[b] /\ my'[b] = my[b] /\ new'[b] = new[b]
  BY AppMoves, MyMoves, NewMoves DEF CycInv
<1>2. ASSUME NEW b \in AppTask
      PROVE  /\ apppc'[b] = "made" => new'[b] \in TSKID \cup {0, Cyc!ErrorCode}
             /\ apppc'[b] = "cycled" => new'[b] \in CYCID \cup {0, Cyc!ErrorCode}
             /\ apppc'[b] # "runs" /\ apppc'[b] # "none" => my'[b] \in Cyc!Ev3CycId
             /\ apppc'[b] \in {"stops", "cancels"} => my'[b] \in given'
  <2>1. CASE b = a
    BY <2>1 DEF PlaceFits
  <2>2. CASE b # a
    BY <1>1, <2>2 DEF CycInv, PlacesOK
  <2> QED
    BY <2>1, <2>2
<1>3. k' \in Nat /\ cut' \in BOOLEAN
  BY DEF CycInv, PlacesOK
<1> QED
  BY <1>1, <1>2, <1>3 DEF PlacesOK, Cyc!Ev3CycId

\* A step that leaves my and new of the task alone
LEMMA MyStays ==
    ASSUME CycInv, NEW a \in AppTask
    PROVE  /\ my = [my EXCEPT ![a] = my[a]] /\ my[a] \in 0 .. TMAX_EV3_CYC_NUM
           /\ new = [new EXCEPT ![a] = new[a]] /\ new[a] \in TSKID \cup CYCID \cup {0, Cyc!ErrorCode}
  BY DEF CycInv, Cyc!TypeOK, PlacesOK

LEMMA LabelsAre == /\ "runs" \in Labels /\ "counted" \in Labels /\ "made" \in Labels
                   /\ "entered" \in Labels /\ "cycled" \in Labels /\ "stops" \in Labels
                   /\ "cancels" \in Labels /\ "none" \in Labels
  BY DEF Labels

\* The types of the table and of the kernel's objects
KernelOK ==
    /\ tmax_ev3cycid \in 0 .. TMAX_EV3_CYC_NUM /\ deleted \in 0 .. TMAX_EV3_CYC_NUM
    /\ cycinib \in [Cyc!Ev3CycId -> [task : TSKID \cup {0, Cyc!ErrorCode}, cyclic : CYCID \cup {0, Cyc!ErrorCode}]]
    /\ tsk \subseteq TSKID /\ left \subseteq TSKID /\ act \in [TSKID -> 0 .. 2]
    /\ on \subseteq cyc /\ cyc \subseteq CYCID /\ slot \in [CYCID -> 0 .. TMAX_EV3_CYC_NUM]
    /\ given \subseteq Cyc!Ev3CycId /\ quiet \subseteq given /\ loads \in 0 .. MaxLoad
    /\ ~dsp => term = "none"

LEMMA TypesAre == Cyc!TypeOK <=> KernelOK /\ my \in [AppTask -> 0 .. TMAX_EV3_CYC_NUM]
  BY DEF Cyc!TypeOK, KernelOK

LEMMA TypesAgain ==
    ASSUME KernelOK', my' \in [AppTask -> 0 .. TMAX_EV3_CYC_NUM]
    PROVE  Cyc!TypeOK'
  BY DEF Cyc!TypeOK, KernelOK

LEMMA CreatesTypes ==
    ASSUME Cyc!IdAssumption, CycInv, NEW a \in AppTask, Cyc!Creates(a)
    PROVE  Cyc!TypeOK' /\ PlacesOK'
<1> USE LabelsAre
<1>1. KernelOK /\ term = "none" /\ term' = "none" /\ k' = k /\ cut' = cut /\ dsp' = dsp
      /\ dsp \in BOOLEAN /\ deleted' = deleted /\ loads' = loads /\ left' = left
  BY TypesAre DEF CycInv, PlacesOK, Cyc!Creates, Cyc!Counts, Cyc!MakesTask, Cyc!EntersTask, Cyc!MakesCyc, Cyc!EntersCyc,
                  Cyc!At, Cyc!termVars
<1>2. CASE Cyc!Counts(a)
  <2>1. /\ cycinib' = cycinib /\ tsk' = tsk /\ act' = act /\ cyc' = cyc /\ on' = on
        /\ slot' = slot /\ given' = given /\ quiet' = quiet /\ new' = new
    BY <1>2 DEF Cyc!Counts, Cyc!tskVars, Cyc!cycVars
  <2>2. \/ /\ tmax_ev3cycid' = tmax_ev3cycid /\ my' = my /\ apppc' = apppc
        \/ /\ tmax_ev3cycid < TMAX_EV3_CYC_NUM /\ tmax_ev3cycid' = tmax_ev3cycid + 1
           /\ my' = [my EXCEPT ![a] = tmax_ev3cycid'] /\ apppc' = [apppc EXCEPT ![a] = "counted"]
    BY <1>2, CycTypes DEF Cyc!Counts, Cyc!Goto
  <2>3. CASE tmax_ev3cycid' = tmax_ev3cycid /\ my' = my /\ apppc' = apppc
    BY <1>1, <2>1, <2>3 DEF CycInv, Cyc!TypeOK, PlacesOK
  <2>4. CASE /\ tmax_ev3cycid < TMAX_EV3_CYC_NUM /\ tmax_ev3cycid' = tmax_ev3cycid + 1
             /\ my' = [my EXCEPT ![a] = tmax_ev3cycid'] /\ apppc' = [apppc EXCEPT ![a] = "counted"]
    <3> DEFINE i == tmax_ev3cycid + 1
    <3>1. i \in 0 .. TMAX_EV3_CYC_NUM /\ i \in Cyc!Ev3CycId
      BY <2>4, CycTypes DEF Cyc!Ev3CycId
    <3>2. my' = [my EXCEPT ![a] = i] /\ tmax_ev3cycid' = i
      BY <2>4
    <3> HIDE DEF i
    <3>3. PlaceFits(a)
      BY <2>4, <3>1, <3>2, AppMoves, MyMoves DEF PlaceFits, CycInv
    <3>4. new' = [new EXCEPT ![a] = new[a]] /\ new[a] \in TSKID \cup CYCID \cup {0, Cyc!ErrorCode}
      BY <2>1, MyStays
    <3>5. PlacesOK' /\ my' \in [AppTask -> 0 .. TMAX_EV3_CYC_NUM]
      BY <1>1, <2>1, <2>4, <3>1, <3>2, <3>3, <3>4, PlacesMove
    <3>6. KernelOK'
      BY <1>1, <2>1, <3>1, <3>2 DEF KernelOK
    <3> QED
      BY <3>5, <3>6, TypesAgain
  <2> QED
    BY <2>2, <2>3, <2>4
<1>3. CASE Cyc!MakesTask(a)
  <2>1. /\ tmax_ev3cycid' = tmax_ev3cycid /\ cycinib' = cycinib /\ cyc' = cyc /\ on' = on
        /\ slot' = slot /\ given' = given /\ quiet' = quiet /\ my' = my
        /\ apppc' = [apppc EXCEPT ![a] = "made"] /\ apppc[a] = "counted"
    BY <1>3 DEF Cyc!MakesTask, Cyc!tableVars, Cyc!cycVars, Cyc!Goto, Cyc!At
  <2>2. PICK n \in TSKID \cup {0, Cyc!ErrorCode} :
          /\ new' = [new EXCEPT ![a] = n]
          /\ \/ n \in TSKID /\ tsk' = tsk \cup {n} /\ act' = [act EXCEPT ![n] = 0]
             \/ tsk' = tsk /\ act' = act
    BY <1>3 DEF Cyc!MakesTask, Cyc!tskVars
  <2>3. KernelOK'
    BY <1>1, <2>1, <2>2 DEF KernelOK
  <2>4. new'[a] = n /\ my[a] \in Cyc!Ev3CycId
    BY <1>1, <2>1, <2>2, NewMoves DEF CycInv, PlacesOK
  <2>5. PlaceFits(a)
    BY <2>1, <2>4, AppMoves DEF PlaceFits, CycInv
  <2>6. my' = [my EXCEPT ![a] = my[a]] /\ my[a] \in 0 .. TMAX_EV3_CYC_NUM
        /\ n \in TSKID \cup CYCID \cup {0, Cyc!ErrorCode}
    BY <2>1, MyStays
  <2>9. PlacesOK' /\ my' \in [AppTask -> 0 .. TMAX_EV3_CYC_NUM]
    BY <1>1, <2>1, <2>2, <2>5, <2>6, PlacesMove
  <2> QED
    BY <2>3, <2>9, TypesAgain
<1>4. CASE Cyc!EntersTask(a)
  <2>1. /\ tmax_ev3cycid' = tmax_ev3cycid /\ cyc' = cyc /\ on' = on /\ new' = new
        /\ slot' = slot /\ given' = given /\ quiet' = quiet /\ my' = my /\ tsk' = tsk
        /\ act' = act /\ apppc' = [apppc EXCEPT ![a] = "entered"] /\ apppc[a] = "made"
        /\ cycinib' = [cycinib EXCEPT ![my[a]].task = new[a]]
    BY <1>4 DEF Cyc!EntersTask, Cyc!tskVars, Cyc!cycVars, Cyc!Goto, Cyc!At
  <2>2. my[a] \in Cyc!Ev3CycId /\ new[a] \in TSKID \cup {0, Cyc!ErrorCode}
    BY <1>1, <2>1 DEF CycInv, PlacesOK
  <2>3. KernelOK'
    BY <1>1, <2>1, <2>2 DEF KernelOK
  <2>4. PlaceFits(a)
    BY <2>1, <2>2, AppMoves DEF PlaceFits, CycInv
  <2>5. /\ my' = [my EXCEPT ![a] = my[a]] /\ my[a] \in 0 .. TMAX_EV3_CYC_NUM
        /\ new' = [new EXCEPT ![a] = new[a]] /\ new[a] \in TSKID \cup CYCID \cup {0, Cyc!ErrorCode}
    BY <2>1, MyStays
  <2>9. PlacesOK' /\ my' \in [AppTask -> 0 .. TMAX_EV3_CYC_NUM]
    BY <1>1, <2>1, <2>4, <2>5, PlacesMove
  <2> QED
    BY <2>3, <2>9, TypesAgain
<1>5. CASE Cyc!MakesCyc(a)
  <2>1. /\ tmax_ev3cycid' = tmax_ev3cycid /\ cycinib' = cycinib /\ tsk' = tsk /\ act' = act
        /\ given' = given /\ quiet' = quiet /\ my' = my
        /\ apppc' = [apppc EXCEPT ![a] = "cycled"] /\ apppc[a] = "entered"
    BY <1>5 DEF Cyc!MakesCyc, Cyc!tableVars, Cyc!tskVars, Cyc!Goto, Cyc!At
  <2>2. PICK n \in CYCID \cup {0, Cyc!ErrorCode} :
          /\ new' = [new EXCEPT ![a] = n]
          /\ \/ /\ n \in CYCID /\ cyc' = cyc \cup {n} /\ slot' = [slot EXCEPT ![n] = my[a]]
                /\ on' = on \cup {n} \/ on' = on
             \/ cyc' = cyc /\ on' = on /\ slot' = slot
    BY <1>5 DEF Cyc!MakesCyc, Cyc!cycVars
  <2>3. my[a] \in 0 .. TMAX_EV3_CYC_NUM /\ my[a] \in Cyc!Ev3CycId
    BY <1>1, <2>1, MyStays DEF CycInv, PlacesOK
  <2>4. KernelOK'
    BY <1>1, <2>1, <2>2, <2>3 DEF KernelOK
  <2>5. new'[a] = n
    BY <2>2, NewMoves
  <2>6. PlaceFits(a)
    BY <2>1, <2>3, <2>5, AppMoves DEF PlaceFits, CycInv
  <2>7. my' = [my EXCEPT ![a] = my[a]] /\ n \in TSKID \cup CYCID \cup {0, Cyc!ErrorCode}
    BY <2>1, MyStays
  <2>9. PlacesOK' /\ my' \in [AppTask -> 0 .. TMAX_EV3_CYC_NUM]
    BY <1>1, <2>1, <2>2, <2>3, <2>6, <2>7, PlacesMove
  <2> QED
    BY <2>4, <2>9, TypesAgain
<1>6. CASE Cyc!EntersCyc(a)
  <2>1. /\ tmax_ev3cycid' = tmax_ev3cycid /\ cyc' = cyc /\ on' = on
        /\ slot' = slot /\ quiet' = quiet /\ tsk' = tsk /\ act' = act
        /\ apppc' = [apppc EXCEPT ![a] = "runs"] /\ apppc[a] = "cycled"
        /\ cycinib' = [cycinib EXCEPT ![my[a]].cyclic = new[a]] /\ given' = given \cup {my[a]}
        /\ my' = [my EXCEPT ![a] = 0] /\ new' = [new EXCEPT ![a] = 0]
    BY <1>6 DEF Cyc!EntersCyc, Cyc!tskVars, Cyc!cycVars, Cyc!Goto, Cyc!At
  <2>2. my[a] \in Cyc!Ev3CycId /\ new[a] \in CYCID \cup {0, Cyc!ErrorCode}
    BY <1>1, <2>1 DEF CycInv, PlacesOK
  <2>3. KernelOK'
    BY <1>1, <2>1, <2>2 DEF KernelOK
  <2>4. PlaceFits(a)
    BY <2>1, AppMoves DEF PlaceFits, CycInv
  <2>5. 0 \in 0 .. TMAX_EV3_CYC_NUM
    BY CycTypes
  <2>9. PlacesOK' /\ my' \in [AppTask -> 0 .. TMAX_EV3_CYC_NUM]
    BY <1>1, <2>1, <2>4, <2>5, PlacesMove
  <2> QED
    BY <2>3, <2>9, TypesAgain
<1> QED
  BY <1>2, <1>3, <1>4, <1>5, <1>6 DEF Cyc!Creates

LEMMA StopsTypes ==
    ASSUME Cyc!IdAssumption, CycInv, NEW a \in AppTask, NEW id \in Cyc!Ev3CycId,
           Cyc!StopStops(a) \/ Cyc!StopCancels(a) \/ Cyc!StopCalled(a, id)
    PROVE  Cyc!TypeOK' /\ PlacesOK'
<1> USE LabelsAre
<1>1. /\ KernelOK /\ term = "none" /\ term' = "none" /\ k' = k /\ cut' = cut
      /\ deleted' = deleted /\ loads' = loads /\ tmax_ev3cycid' = tmax_ev3cycid
      /\ left' = left /\ cycinib' = cycinib /\ tsk' = tsk /\ cyc' = cyc /\ slot' = slot /\ given' = given
      /\ new' = new
  BY TypesAre DEF CycInv, Cyc!StopStops, Cyc!StopCancels, Cyc!StopCalled, Cyc!At, Cyc!termVars, Cyc!tableVars, Cyc!tskVars,
                  Cyc!cycVars
<1>2. new' = [new EXCEPT ![a] = new[a]] /\ new[a] \in TSKID \cup CYCID \cup {0, Cyc!ErrorCode}
  BY <1>1, MyStays
<1>3. CASE Cyc!StopStops(a)
  <2>1. /\ apppc' = [apppc EXCEPT ![a] = "cancels"] /\ apppc[a] = "stops" /\ my' = my
        /\ act' = act /\ quiet' = quiet /\ dsp' = dsp /\ on' \subseteq on
    BY <1>3 DEF Cyc!StopStops, Cyc!tskVars, Cyc!Goto, Cyc!At
  <2>2. KernelOK' /\ dsp' \in BOOLEAN
    BY <1>1, <2>1 DEF KernelOK, CycInv, PlacesOK
  <2>3. PlaceFits(a)
    BY <1>1, <2>1, AppMoves DEF PlaceFits, CycInv, PlacesOK
  <2>4. my' = [my EXCEPT ![a] = my[a]] /\ my[a] \in 0 .. TMAX_EV3_CYC_NUM
    BY <2>1, MyStays
  <2>9. PlacesOK' /\ my' \in [AppTask -> 0 .. TMAX_EV3_CYC_NUM]
    BY <1>1, <1>2, <2>1, <2>2, <2>3, <2>4, PlacesMove
  <2> QED
    BY <2>2, <2>9, TypesAgain
<1>4. CASE Cyc!StopCancels(a)
  <2>1. /\ apppc' = [apppc EXCEPT ![a] = "runs"] /\ apppc[a] = "cancels"
        /\ my' = [my EXCEPT ![a] = 0] /\ on' = on /\ dsp' = TRUE
        /\ quiet' = quiet \cup {my[a]}
    BY <1>4 DEF Cyc!StopCancels, Cyc!cycVars, Cyc!Goto, Cyc!At
  <2>2. act' \in [TSKID -> 0 .. 2]
    <3> DEFINE t == cycinib[my[a]].task
    <3>1. act \in [TSKID -> 0 .. 2]
      BY <1>1 DEF KernelOK
    <3>2. act' = act \/ act' = [act EXCEPT ![t] = IF @ > 1 THEN 1 ELSE @]
      BY <1>4 DEF Cyc!StopCancels
    <3> HIDE DEF t
    <3> QED
      BY <3>1, <3>2
  <2>3. my[a] \in given
    BY <2>1 DEF CycInv, PlacesOK
  <2>4. KernelOK'
    BY <1>1, <2>1, <2>2, <2>3 DEF KernelOK
  <2>5. PlaceFits(a) /\ 0 \in 0 .. TMAX_EV3_CYC_NUM /\ given \subseteq given' /\ dsp' \in BOOLEAN
    BY <1>1, <2>1, AppMoves, CycTypes DEF PlaceFits, CycInv
  <2>9. PlacesOK' /\ my' \in [AppTask -> 0 .. TMAX_EV3_CYC_NUM]
    BY <1>1, <1>2, <2>1, <2>5, PlacesMove
  <2> QED
    BY <2>4, <2>9, TypesAgain
<1>5. CASE Cyc!StopCalled(a, id)
  <2>1. /\ apppc' = [apppc EXCEPT ![a] = "stops"] /\ apppc[a] = "runs" /\ id \in given
        /\ my' = [my EXCEPT ![a] = id] /\ on' = on /\ dsp' = FALSE /\ quiet' = quiet /\ act' = act
    BY <1>5 DEF Cyc!StopCalled, Cyc!cycVars, Cyc!tskVars, Cyc!Goto, Cyc!At
  <2>2. KernelOK'
    BY <1>1, <2>1 DEF KernelOK
  <2>3. id \in 0 .. TMAX_EV3_CYC_NUM
    BY CycTypes DEF Cyc!Ev3CycId
  <2>4. PlaceFits(a) /\ given \subseteq given' /\ dsp' \in BOOLEAN
    BY <1>1, <2>1, <2>3, AppMoves, MyMoves DEF PlaceFits, CycInv
  <2>9. PlacesOK' /\ my' \in [AppTask -> 0 .. TMAX_EV3_CYC_NUM]
    BY <1>1, <1>2, <2>1, <2>3, <2>4, PlacesMove
  <2> QED
    BY <2>2, <2>9, TypesAgain
<1> QED
  BY <1>3, <1>4, <1>5

\* Steps that leave the tasks of the application where they are
LEMMA PlacesStay ==
    ASSUME CycInv, UNCHANGED <<apppc, my, new, given, dsp>>, k' \in Nat, cut' \in BOOLEAN,
           term' \in {"none", "cyc", "ter", "del", "unloaded"}, term' = "none" => term = "none",
           KernelOK'
    PROVE  Cyc!TypeOK' /\ PlacesOK'
<1>1. PlacesOK'
  BY DEF CycInv, PlacesOK, Cyc!Ev3CycId
<1>2. my' \in [AppTask -> 0 .. TMAX_EV3_CYC_NUM]
  BY DEF CycInv, Cyc!TypeOK
<1> QED
  BY <1>1, <1>2, TypesAgain

LEMMA StartsTypes ==
    ASSUME Cyc!IdAssumption, CycInv, NEW a \in AppTask, NEW id \in Cyc!Ev3CycId, Cyc!Starts(a, id)
    PROVE  Cyc!TypeOK' /\ PlacesOK'
<1>1. /\ KernelOK /\ term = "none" /\ term' = term /\ k' = k /\ cut' = cut
      /\ UNCHANGED <<apppc, my, new, given, dsp>>
      /\ deleted' = deleted /\ loads' = loads /\ tmax_ev3cycid' = tmax_ev3cycid
      /\ left' = left /\ cycinib' = cycinib /\ tsk' = tsk /\ act' = act /\ cyc' = cyc /\ slot' = slot
      /\ quiet' = quiet \ {id}
  BY TypesAre DEF CycInv, Cyc!Starts, Cyc!At, Cyc!termVars, Cyc!tableVars, Cyc!tskVars
<1>2. on' \subseteq cyc
  BY <1>1 DEF Cyc!Starts, KernelOK
<1>3. KernelOK' /\ k' \in Nat /\ cut' \in BOOLEAN
  BY <1>1, <1>2 DEF KernelOK, CycInv, PlacesOK
<1> QED
  BY <1>1, <1>3, PlacesStay

LEMMA FiresTypes ==
    ASSUME Cyc!IdAssumption, CycInv, (\E c \in CYCID : Cyc!Fires(c)) \/ \E t \in TSKID : Cyc!TaskReturns(t)
    PROVE  Cyc!TypeOK' /\ PlacesOK'
<1>1. /\ KernelOK /\ term' = term /\ k' = k /\ cut' = cut
      /\ UNCHANGED <<apppc, my, new, given, dsp>>
      /\ deleted' = deleted /\ loads' = loads /\ tmax_ev3cycid' = tmax_ev3cycid
      /\ left' = left /\ cycinib' = cycinib /\ tsk' = tsk /\ cyc' = cyc /\ slot' = slot /\ on' = on
      /\ quiet' = quiet
  BY TypesAre DEF CycInv, Cyc!Fires, Cyc!TaskReturns, Cyc!termVars, Cyc!tableVars, Cyc!appVars, Cyc!cycVars
<1>2. act' \in [TSKID -> 0 .. 2]
  <2>1. act \in [TSKID -> 0 .. 2]
    BY <1>1 DEF KernelOK
  <2>2. CASE \E c \in CYCID : Cyc!Fires(c)
    <3>1. PICK c \in CYCID : Cyc!Fires(c)
      BY <2>2
    <3> DEFINE u == cycinib[slot[c]].task
    <3>2. /\ act' = IF u \in tsk /\ act[u] < 2 THEN [act EXCEPT ![u] = @ + 1] ELSE act
          /\ u \in tsk => u \in TSKID
      BY <1>1, <3>1 DEF Cyc!Fires, KernelOK
    <3> HIDE DEF u
    <3> QED
      BY <2>1, <3>2
  <2>3. CASE \E t \in TSKID : Cyc!TaskReturns(t)
    <3>1. PICK t \in TSKID : act[t] > 0 /\ act' = [act EXCEPT ![t] = @ - 1]
      BY <2>3 DEF Cyc!TaskReturns
    <3> QED
      BY <2>1, <3>1
  <2> QED
    BY <2>2, <2>3
<1>3. KernelOK' /\ k' \in Nat /\ cut' \in BOOLEAN
  BY <1>1, <1>2 DEF KernelOK, CycInv, PlacesOK
<1>4. term' \in {"none", "cyc", "ter", "del", "unloaded"}
  BY <1>1 DEF CycInv, PlacesOK
<1> QED
  BY <1>1, <1>3, <1>4, PlacesStay

LEMMA TermTypes ==
    ASSUME Cyc!IdAssumption, CycInv, Cyc!TermStarts \/ Cyc!TermDelCyc \/ Cyc!TermTerTsk \/ Cyc!TermDelTsk
    PROVE  Cyc!TypeOK' /\ PlacesOK'
<1>1. /\ KernelOK /\ UNCHANGED <<apppc, my, new, given, dsp>> /\ slot' = slot
      /\ cycinib' = cycinib /\ quiet' = quiet /\ loads' = loads
      /\ k \in Nat /\ cut \in BOOLEAN /\ TMAX_EV3_CYC_NUM \in Nat
  BY TypesAre, CycTypes
     DEF CycInv, PlacesOK, Cyc!TermStarts, Cyc!TermDelCyc, Cyc!TermTerTsk, Cyc!TermDelTsk, Cyc!tableVars, Cyc!appVars,
         Cyc!cycVars
<1>2. dsp \/ term # "none"
  BY DEF Cyc!TermStarts, Cyc!TermDelCyc, Cyc!TermTerTsk, Cyc!TermDelTsk
<1>3. /\ term' \in {"cyc", "ter", "del"} /\ k' \in Nat /\ cut' \in BOOLEAN
      /\ tmax_ev3cycid' \in 0 .. TMAX_EV3_CYC_NUM /\ deleted' \in 0 .. TMAX_EV3_CYC_NUM
      /\ tsk' \subseteq tsk /\ on' \subseteq cyc' /\ cyc' \subseteq CYCID /\ left' \subseteq TSKID
  <2>1. CASE Cyc!TermStarts
    <3>1. cut' \in BOOLEAN
      BY <1>1, <2>1 DEF Cyc!TermStarts
    <3> QED
      BY <1>1, <2>1, <3>1 DEF Cyc!TermStarts, KernelOK, Cyc!tskVars, Cyc!cycVars
  <2>2. CASE Cyc!TermDelCyc
    BY <1>1, <2>2 DEF Cyc!TermDelCyc, KernelOK, Cyc!tskVars, Cyc!tableVars
  <2>3. CASE Cyc!TermTerTsk
    BY <1>1, <2>3 DEF Cyc!TermTerTsk, KernelOK, Cyc!cycVars, Cyc!tableVars
  <2>4. CASE Cyc!TermDelTsk
    BY <1>1, <2>4 DEF Cyc!TermDelTsk, KernelOK, Cyc!cycVars, Cyc!tableVars
  <2> QED
    BY <2>1, <2>2, <2>3, <2>4
<1>4. act' \in [TSKID -> 0 .. 2]
  <2> DEFINE u == cycinib[k].task
  <2>1. act \in [TSKID -> 0 .. 2]
    BY <1>1 DEF KernelOK
  <2>2. act' = act \/ (u \in tsk /\ act' = [act EXCEPT ![u] = IF @ = 2 THEN 1 ELSE 0])
    BY DEF Cyc!TermStarts, Cyc!TermDelCyc, Cyc!TermTerTsk, Cyc!TermDelTsk, Cyc!tskVars
  <2> HIDE DEF u
  <2> QED
    BY <2>1, <2>2
<1>5. dsp
  BY <1>1, <1>2 DEF KernelOK
<1>6. KernelOK'
  BY <1>1, <1>3, <1>4, <1>5 DEF KernelOK
<1> QED
  BY <1>1, <1>3, <1>6, PlacesStay

LEMMA LoadTypes ==
    ASSUME Cyc!IdAssumption, CycInv, Cyc!Load \/ Cyc!TermDelApp PROVE Cyc!TypeOK' /\ PlacesOK'
<1>1. /\ KernelOK /\ tmax_ev3cycid' = tmax_ev3cycid /\ cycinib' = cycinib /\ tsk' = tsk
      /\ act' = act /\ cyc' = cyc /\ on' = on /\ slot' = slot /\ dsp' = dsp /\ cut' = cut /\ left' = left
      /\ k \in Nat /\ cut \in BOOLEAN /\ dsp \in BOOLEAN /\ TMAX_EV3_CYC_NUM \in Nat
      /\ dsp
  <2>1. KernelOK /\ k \in Nat /\ cut \in BOOLEAN /\ dsp \in BOOLEAN /\ TMAX_EV3_CYC_NUM \in Nat
    BY TypesAre, CycTypes DEF CycInv, PlacesOK
  <2>2. dsp
    BY <2>1 DEF Cyc!Load, Cyc!TermDelApp, KernelOK
  <2> QED
    BY <2>1, <2>2 DEF Cyc!Load, Cyc!TermDelApp, Cyc!tableVars, Cyc!tskVars, Cyc!cycVars
<1>2. CASE Cyc!Load
  <2>1. /\ my' = my /\ new' = new /\ given' = given /\ quiet' = quiet /\ k' = k
        /\ deleted' = deleted /\ loads' = loads + 1 /\ loads < MaxLoad /\ term' = "none"
        /\ apppc' = [a \in AppTask |-> "runs"]
    BY <1>2 DEF Cyc!Load
  <2>2. KernelOK'
    BY <1>1, <2>1 DEF KernelOK, Cyc!IdAssumption
  <2>3. PlacesOK'
    BY <1>1, <2>1, LabelsAre DEF CycInv, PlacesOK
  <2>4. my' \in [AppTask -> 0 .. TMAX_EV3_CYC_NUM]
    BY <2>1 DEF CycInv, Cyc!TypeOK
  <2> QED
    BY <2>2, <2>3, <2>4, TypesAgain
<1>3. CASE Cyc!TermDelApp
  <2>1. /\ my' = [a \in AppTask |-> 0] /\ new' = [a \in AppTask |-> 0] /\ given' = {}
        /\ quiet' = {} /\ k' = 0 /\ deleted' = 0 /\ loads' = loads /\ term' = "unloaded"
        /\ apppc' = [a \in AppTask |-> "none"]
    BY <1>3 DEF Cyc!TermDelApp
  <2>2. KernelOK'
    BY <1>1, <2>1 DEF KernelOK
  <2>3. PlacesOK'
    BY <1>1, <2>1, LabelsAre DEF PlacesOK
  <2>4. my' \in [AppTask -> 0 .. TMAX_EV3_CYC_NUM]
    BY <1>1, <2>1
  <2> QED
    BY <2>2, <2>3, <2>4, TypesAgain
<1> QED
  BY <1>2, <1>3

\* Who holds which task and handler depends on these only.
CreatingLabels == {"counted", "made", "entered", "cycled"}
SameHolders ==
    /\ given' = given /\ cycinib' = cycinib
    /\ \A a \in AppTask :
           apppc'[a] \in CreatingLabels \/ apppc[a] \in CreatingLabels =>
               apppc'[a] = apppc[a] /\ my'[a] = my[a] /\ new'[a] = new[a]

SameHas(i) ==
    /\ \A t : HasTask(i, t)' <=> HasTask(i, t)
    /\ \A c : HasCyc(i, c)' <=> HasCyc(i, c)

LEMMA HoldersSame ==
    ASSUME SameHolders
    PROVE  /\ Creating' = Creating /\ \A a \in Creating : my'[a] = my[a]
           /\ \A i : SameHas(i)
<1>1. Creating' = Creating /\ \A a \in Creating : my'[a] = my[a]
  BY DEF SameHolders, Creating, CreatingLabels
<1>2. ASSUME NEW i PROVE SameHas(i)
  <2>1. /\ \A a \in AppTask : apppc'[a] = "made" <=> apppc[a] = "made"
        /\ \A a \in AppTask : apppc'[a] = "cycled" <=> apppc[a] = "cycled"
        /\ \A a \in AppTask : apppc'[a] \in {"entered", "cycled"} <=>
                              apppc[a] \in {"entered", "cycled"}
        /\ \A a \in AppTask : apppc[a] \in {"made", "entered", "cycled"} =>
                              my'[a] = my[a] /\ new'[a] = new[a]
    BY DEF SameHolders, CreatingLabels
  <2>2. Entered(i)' <=> Entered(i)
    BY <2>1 DEF Entered, SameHolders
  <2>3. ASSUME NEW t PROVE HasTask(i, t)' <=> HasTask(i, t)
    BY <2>1, <2>2 DEF HasTask, SameHolders
  <2>4. ASSUME NEW c PROVE HasCyc(i, c)' <=> HasCyc(i, c)
    BY <2>1 DEF HasCyc, SameHolders
  <2> QED
    BY <2>3, <2>4 DEF SameHas
<1> QED
  BY <1>1, <1>2

LEMMA NoneSame ==
    ASSUME NoneInv, SameHolders, tsk' = tsk, left' = left, cyc' = cyc, slot' = slot,
           tmax_ev3cycid' = tmax_ev3cycid
    PROVE  NoneInv'
<1>1. /\ Creating' = Creating /\ \A a \in Creating : my'[a] = my[a]
      /\ \A i : SameHas(i)
  BY HoldersSame
<1>2. EntriesInv'
  BY <1>1 DEF NoneInv, EntriesInv, SameHolders
<1>3. TasksInv(1, tmax_ev3cycid)'
  BY <1>1 DEF NoneInv, TasksInv, SameHas, Cyc!Ev3CycId
<1>4. CycsInv(1, tmax_ev3cycid)'
  BY <1>1 DEF NoneInv, CycsInv, SameHas
<1>5. LeftInv(1, tmax_ev3cycid)'
  BY <1>1 DEF NoneInv, LeftInv, SameHas
<1> QED
  BY <1>2, <1>3, <1>4, <1>5 DEF NoneInv

\* What belongs to an entry belongs to one that was counted.
LEMMA HoldersCounted ==
    ASSUME EntriesInv
    PROVE  /\ \A i : Entered(i) => i \in 1 .. tmax_ev3cycid
           /\ \A i, t : HasTask(i, t) => i \in 1 .. tmax_ev3cycid
           /\ \A i, c : HasCyc(i, c) => i \in 1 .. tmax_ev3cycid
<1>1. \A a \in AppTask : apppc[a] \in {"made", "entered", "cycled"} =>
                         my[a] \in 1 .. tmax_ev3cycid
  BY DEF EntriesInv, Creating
<1>2. \A i : Entered(i) => i \in 1 .. tmax_ev3cycid
  BY <1>1 DEF Entered, EntriesInv
<1>3. \A i, t : HasTask(i, t) => i \in 1 .. tmax_ev3cycid
  BY <1>1, <1>2 DEF HasTask
<1>4. \A i, c : HasCyc(i, c) => i \in 1 .. tmax_ev3cycid
  BY <1>1 DEF HasCyc, EntriesInv
<1> QED
  BY <1>2, <1>3, <1>4

\* A handler that runs has the task of its entry, and no other entry has that task.
LEMMA RunsItsTask ==
    ASSUME Cyc!IdAssumption, CycInv, ~cut, NEW c \in on
    PROVE  /\ c \in CYCID /\ slot[c] \in Cyc!Ev3CycId /\ HasCyc(slot[c], c)
           /\ cycinib[slot[c]].task \in tsk \cup {Cyc!ErrorCode}
           /\ HasTask(slot[c], cycinib[slot[c]].task)
           /\ cycinib[slot[c]].task \in tsk =>
                \A i \in Cyc!Ev3CycId : HasTask(i, cycinib[slot[c]].task) => i = slot[c]
           /\ term \in {"ter", "del"} => slot[c] \in k + 1 .. deleted
<1> DEFINE i0 == slot[c]
           t0 == cycinib[i0].task
<1>1. c \in cyc /\ c \in CYCID /\ term # "unloaded"
  BY CycTypes DEF CycInv, TableInv, UnloadedInv
<1>2. \/ /\ term = "none" /\ NoneInv
      \/ /\ term = "cyc" /\ TermInv /\ CycsInv(k, deleted)
      \/ /\ term \in {"ter", "del"} /\ TermInv /\ CycsInv(k + 1, deleted)
  BY <1>1 DEF CycInv, TableInv, TermInv, PlacesOK
<1>3. PICK from \in Nat, to \in Nat :
          /\ from > 0 /\ to <= TMAX_EV3_CYC_NUM /\ TasksInv(from, to)
          /\ i0 \in from .. to /\ HasCyc(i0, c)
          /\ term \in {"ter", "del"} => i0 \in k + 1 .. deleted
  <2>1. CASE term = "none" /\ NoneInv
    <3>1. /\ i0 \in 1 .. tmax_ev3cycid /\ HasCyc(i0, c) /\ TasksInv(1, tmax_ev3cycid)
      BY <1>1, <2>1 DEF NoneInv, CycsInv
    <3> QED
      BY <2>1, <3>1, CycTypes
  <2>2. CASE term = "cyc" /\ TermInv /\ CycsInv(k, deleted)
    <3>1. i0 \in k .. deleted /\ HasCyc(i0, c) /\ TasksInv(k, deleted) /\ k > 0
      BY <1>1, <2>2, CycTypes DEF TermInv, CycsInv
    <3> QED
      BY <2>2, <3>1, CycTypes
  <2>3. CASE term \in {"ter", "del"} /\ TermInv /\ CycsInv(k + 1, deleted)
    <3>1. i0 \in k + 1 .. deleted /\ HasCyc(i0, c) /\ TasksInv(k, deleted) /\ k > 0
      BY <1>1, <2>3, CycTypes DEF TermInv, CycsInv
    <3> QED
      BY <2>3, <3>1, CycTypes
  <2> QED
    BY <1>2, <2>1, <2>2, <2>3
<1>4. i0 \in Cyc!Ev3CycId /\ t0 \in TSKID \cup {0, Cyc!ErrorCode}
  BY <1>3, CycTypes DEF Cyc!Ev3CycId
<1>5. HasTask(i0, t0)
  BY <1>3 DEF HasTask, HasCyc, Entered
<1> HIDE DEF t0
<1>6. t0 \in tsk \cup {Cyc!ErrorCode}
  BY <1>3, <1>4, <1>5 DEF TasksInv
<1>7. t0 \in tsk => t0 \in TSKID
  BY CycTypes
<1>8. t0 \in tsk => \A i \in Cyc!Ev3CycId : HasTask(i, t0) => i = i0
  BY <1>3, <1>4, <1>5, <1>7 DEF TasksInv
<1> QED
  BY <1>1, <1>3, <1>4, <1>5, <1>6, <1>8 DEF t0

\* While dispatching is enabled nobody is stopping a handler.
LEMMA NobodyStops == ASSUME CycInv, ~cut, dsp PROVE Stopping = {}
  BY DEF CycInv, QuietInv

\* An entry that was handed out has its task, if there is one, while the application is
\* loaded.
LEMMA GivenHasTask ==
    ASSUME Cyc!IdAssumption, CycInv, ~cut, term = "none", NEW id \in given
    PROVE  /\ cycinib[id].task \in tsk \cup {Cyc!ErrorCode}
           /\ HasTask(id, cycinib[id].task) /\ id \in Cyc!Ev3CycId
<1> DEFINE t0 == cycinib[id].task
<1>1. NoneInv /\ id \in Cyc!Ev3CycId /\ id \in 1 .. tmax_ev3cycid
  BY CycTypes DEF CycInv, TableInv, NoneInv, EntriesInv
<1>2. HasTask(id, t0) /\ t0 \in TSKID \cup {0, Cyc!ErrorCode}
  BY <1>1, CycTypes DEF HasTask, Entered
<1> HIDE DEF t0
<1>3. t0 \in tsk \cup {Cyc!ErrorCode}
  BY <1>1, <1>2 DEF NoneInv, TasksInv
<1> QED
  BY <1>1, <1>2, <1>3 DEF t0

\* What the strong part says once a step is known to keep the types
LEMMA CycInvAgain ==
    ASSUME Cyc!TypeOK', PlacesOK', ~cut' => QuietInv' /\ TableInv'
    PROVE  CycInv'
  BY DEF CycInv

LEMMA StillNone == ASSUME term' = "none", NoneInv' PROVE TableInv'
  BY DEF TableInv

\* The timer interrupt runs a handler: only the task of its entry is activated, and
\* that entry has neither been stopped nor had its task terminated.
LEMMA FiresStep == ASSUME Cyc!IdAssumption, CycInv, NEW c \in CYCID, Cyc!Fires(c) PROVE CycInv'
<1> DEFINE t0 == cycinib[slot[c]].task
<1>1. /\ c \in on /\ act' = (IF t0 \in tsk /\ act[t0] < 2 THEN [act EXCEPT ![t0] = @ + 1] ELSE act)
      /\ tmax_ev3cycid' = tmax_ev3cycid /\ cycinib' = cycinib /\ tsk' = tsk /\ cyc' = cyc
      /\ on' = on /\ slot' = slot /\ apppc' = apppc /\ my' = my /\ new' = new /\ given' = given
      /\ quiet' = quiet /\ dsp' = dsp /\ term' = term /\ k' = k /\ deleted' = deleted
      /\ cut' = cut /\ cycfailed' = cycfailed /\ left' = left /\ cycfailed = "none"
  BY DEF Cyc!Fires, Cyc!Running, Cyc!tableVars, Cyc!cycVars, Cyc!appVars, Cyc!termVars
<1>2. ASSUME NEW t \in TSKID, t # t0 PROVE act'[t] = act[t]
  BY <1>1, <1>2 DEF CycInv, Cyc!TypeOK
<1> HIDE DEF t0
<1>3. SameHolders
  BY <1>1 DEF SameHolders
<1>4. ASSUME ~cut PROVE QuietInv' /\ TableInv'
  <2>1. /\ slot[c] \in Cyc!Ev3CycId /\ HasCyc(slot[c], c)
        /\ t0 \in tsk => \A i \in Cyc!Ev3CycId : HasTask(i, t0) => i = slot[c]
        /\ term \in {"ter", "del"} => slot[c] \in k + 1 .. deleted
    BY <1>1, <1>4, RunsItsTask DEF t0
  <2>2. ASSUME NEW id \in quiet, cycfailed = "none"
        PROVE  /\ cycinib[id].cyclic \notin on
               /\ cycinib[id].task \in TSKID /\ act'[cycinib[id].task] <= 1
    <3>1. id \in given /\ id \in Cyc!Ev3CycId /\ term # "unloaded"
      BY CycTypes, <1>4 DEF CycInv, TableInv, UnloadedInv
    <3>2. /\ cycinib[id].cyclic \notin on
          /\ cycinib[id].task \in TSKID /\ act[cycinib[id].task] <= 1
      BY <1>4, <2>2 DEF CycInv, QuietInv
    <3>3. id # slot[c]
      <4>1. CASE slot[c] \in given /\ cycinib[slot[c]].cyclic = c
        BY <1>1, <3>2, <4>1
      <4>2. CASE \E a \in AppTask : apppc[a] = "cycled" /\ my[a] = slot[c] /\ new[a] = c
        <5>1. slot[c] \notin given
          BY <1>4, <3>1, <4>2
             DEF CycInv, TableInv, NoneInv, EntriesInv, TermInv, Creating, PlacesOK
        <5> QED
          BY <3>1, <5>1
      <4> QED
        BY <2>1, <4>1, <4>2 DEF HasCyc
    <3>4. HasTask(id, cycinib[id].task)
      BY <3>1 DEF HasTask, Entered
    <3>5. t0 \in tsk => cycinib[id].task # t0
      BY <2>1, <3>1, <3>3, <3>4
    <3>6. CASE t0 \in tsk
      BY <1>2, <3>2, <3>5, <3>6
    <3>7. CASE t0 \notin tsk
      BY <1>1, <3>2, <3>7
    <3> QED
      BY <3>6, <3>7
  <2>3. QuietInv'
    <3>1. Stopping' = Stopping
      BY <1>1 DEF Stopping
    <3> QED
      BY <1>1, <1>4, <2>2, <3>1 DEF CycInv, QuietInv
  <2>4. CASE term = "none"
    <3>1. NoneInv'
      BY <1>1, <1>3, <1>4, <2>4, NoneSame DEF CycInv, TableInv
    <3> QED
      BY <1>1, <2>3, <2>4, <3>1, StillNone
  <2>5. CASE term \in {"cyc", "ter", "del"}
    <3>1. TermInv /\ \A i : SameHas(i)
      BY <1>3, <1>4, <2>5, HoldersSame DEF CycInv, TableInv
    <3>2. TasksInv(k, deleted)'
      BY <1>1, <3>1 DEF TermInv, TasksInv, SameHas, Cyc!Ev3CycId
    <3>3. /\ (term = "cyc" => CycsInv(k, deleted)')
          /\ (term \in {"ter", "del"} => CycsInv(k + 1, deleted)')
      BY <1>1, <3>1 DEF TermInv, CycsInv, SameHas
    <3>4. term = "del" /\ cycfailed = "none" => TaskTerminated'
      <4>1. SUFFICES ASSUME term = "del", cycfailed = "none" PROVE TaskTerminated'
        OBVIOUS
      <4>2. k \in given /\ k \in Cyc!Ev3CycId /\ k # slot[c] /\ TaskTerminated
            /\ cycinib[k].task \in TSKID
        BY <2>1, <3>1, <4>1, CycTypes DEF TermInv, TaskTerminated
      <4>3. HasTask(k, cycinib[k].task)
        BY <4>2 DEF HasTask, Entered
      <4>4. t0 \in tsk => cycinib[k].task # t0
        BY <2>1, <4>2, <4>3
      <4>5. act'[cycinib[k].task] = act[cycinib[k].task]
        <5>1. CASE t0 \in tsk
          BY <1>2, <4>2, <4>4, <5>1
        <5>2. CASE t0 \notin tsk
          BY <1>1, <5>2
        <5> QED
          BY <5>1, <5>2
      <4> QED
        BY <1>1, <4>2, <4>5 DEF TaskTerminated
    <3>6. LeftInv(k + 1, deleted)' /\ (term \in {"cyc", "ter"} => LeftInv(k, deleted)')
      BY <1>1, <3>1 DEF TermInv, LeftInv, SameHas
    <3>5. TermInv'
      BY <1>1, <3>1, <3>2, <3>3, <3>4, <3>6 DEF TermInv
    <3> QED
      BY <1>1, <2>3, <2>5, <3>5 DEF TableInv
  <2>6. term \in {"none", "cyc", "ter", "del"}
    BY <1>1, <1>4 DEF CycInv, PlacesOK, TableInv, UnloadedInv, Cyc!TypeOK
  <2> QED
    BY <2>4, <2>5, <2>6, <2>3
<1>5. Cyc!TypeOK' /\ PlacesOK'
  BY FiresTypes
<1> QED
  BY <1>1, <1>4, <1>5, CycInvAgain

\* An activation ends, perhaps that of a task that was left.
LEMMA TaskReturnsStep ==
    ASSUME Cyc!IdAssumption, CycInv, NEW t \in TSKID, Cyc!TaskReturns(t) PROVE CycInv'
<1>1. /\ term \in {"none", "unloaded"} /\ act[t] > 0 /\ act' = [act EXCEPT ![t] = @ - 1]
      /\ tmax_ev3cycid' = tmax_ev3cycid /\ cycinib' = cycinib /\ tsk' = tsk /\ cyc' = cyc
      /\ on' = on /\ slot' = slot /\ apppc' = apppc /\ my' = my /\ new' = new /\ given' = given
      /\ quiet' = quiet /\ dsp' = dsp /\ term' = term /\ cut' = cut /\ cycfailed' = cycfailed
      /\ left' = left
  BY DEF Cyc!TaskReturns, Cyc!tableVars, Cyc!cycVars, Cyc!appVars, Cyc!termVars
<1>2. ASSUME ~cut PROVE QuietInv' /\ TableInv'
  <2>1. ASSUME NEW id \in quiet, cycfailed = "none"
        PROVE  /\ cycinib[id].cyclic \notin on
               /\ cycinib[id].task \in TSKID /\ act'[cycinib[id].task] <= 1
    <3> DEFINE u == cycinib[id].task
    <3>1. cycinib[id].cyclic \notin on /\ u \in TSKID /\ act[u] <= 1
      BY <1>2, <2>1 DEF CycInv, QuietInv
    <3> HIDE DEF u
    <3>3. act \in [TSKID -> 0 .. 2]
      BY DEF CycInv, Cyc!TypeOK
    <3>4. act'[u] <= 1
      BY <1>1, <3>1, <3>3
    <3> QED
      BY <3>1, <3>4 DEF u
  <2>2. Stopping' = Stopping /\ SameHolders
    BY <1>1 DEF Stopping, SameHolders
  <2>3. QuietInv'
    BY <1>1, <1>2, <2>1, <2>2 DEF CycInv, QuietInv
  <2>4. CASE term = "none"
    <3>1. NoneInv'
      BY <1>1, <1>2, <2>2, <2>4, NoneSame DEF CycInv, TableInv
    <3> QED
      BY <1>1, <2>3, <2>4, <3>1, StillNone
  <2>5. CASE term = "unloaded"
    BY <1>1, <1>2, <2>3, <2>5 DEF CycInv, TableInv, UnloadedInv
  <2> QED
    BY <1>1, <2>4, <2>5
<1>3. Cyc!TypeOK' /\ PlacesOK'
  BY FiresTypes
<1> QED
  BY <1>1, <1>2, <1>3, CycInvAgain

\* ev3_sta_cyc: dispatching is enabled, so that nobody is stopping a handler.
LEMMA StartsStep ==
    ASSUME Cyc!IdAssumption, CycInv, NEW a \in AppTask, NEW id \in Cyc!Ev3CycId, Cyc!Starts(a, id)
    PROVE  CycInv'
<1>1. /\ apppc[a] = "runs" /\ term = "none" /\ dsp /\ id \in given /\ quiet' = quiet \ {id}
      /\ \/ cycinib[id].cyclic \in cyc /\ on' = on \cup {cycinib[id].cyclic}
         \/ cycfailed' = "sta"
      /\ tmax_ev3cycid' = tmax_ev3cycid /\ cycinib' = cycinib /\ tsk' = tsk /\ cyc' = cyc
      /\ slot' = slot /\ apppc' = apppc /\ my' = my /\ new' = new /\ given' = given
      /\ dsp' = dsp /\ term' = term /\ cut' = cut /\ act' = act
      /\ cycfailed = "none" /\ left' = left
  BY DEF Cyc!Starts, Cyc!At, Cyc!Running, Cyc!tableVars, Cyc!tskVars, Cyc!termVars
<1>2. ASSUME ~cut PROVE QuietInv' /\ TableInv'
  <2>1. Stopping = {} /\ Stopping' = {} /\ SameHolders
    BY <1>1, <1>2, NobodyStops DEF Stopping, SameHolders
  <2>2. NoneInv /\ NoneInv'
    BY <1>1, <1>2, <2>1, NoneSame DEF CycInv, TableInv
  <2>3. ASSUME NEW i \in quiet', cycfailed' = "none"
        PROVE  /\ cycinib[i].cyclic \notin on'
               /\ cycinib[i].task \in TSKID /\ act[cycinib[i].task] <= 1
    <3>1. /\ i \in given /\ i # id /\ cycinib[i].cyclic \notin on
          /\ cycinib[i].task \in TSKID /\ act[cycinib[i].task] <= 1
      BY <1>1, <1>2, <2>3, CycTypes DEF CycInv, QuietInv
    <3>2. cycinib[id].cyclic \in CYCID /\ on' = on \cup {cycinib[id].cyclic}
      BY <1>1, <2>3, CycTypes
    <3>3. i \in 1 .. tmax_ev3cycid /\ id \in 1 .. tmax_ev3cycid
      BY <1>1, <2>2, <3>1 DEF NoneInv, EntriesInv
    <3>4. HasCyc(i, cycinib[i].cyclic) /\ HasCyc(id, cycinib[id].cyclic)
      BY <1>1, <3>1 DEF HasCyc
    <3>5. cycinib[i].cyclic # cycinib[id].cyclic
      BY <2>2, <3>1, <3>2, <3>3, <3>4 DEF NoneInv, CycsInv
    <3> QED
      BY <3>1, <3>2, <3>5
  <2>4. QuietInv'
    <3>1. \A b \in AppTask : apppc'[b] # "cancels"
      BY <2>1 DEF Stopping
    <3> QED
      BY <1>1, <2>1, <2>3, <3>1 DEF QuietInv
  <2> QED
    BY <1>1, <2>2, <2>4, StillNone
<1>3. Cyc!TypeOK' /\ PlacesOK'
  BY StartsTypes
<1> QED
  BY <1>1, <1>2, <1>3, CycInvAgain

\* ev3_stp_cyc: dispatching is disabled from before it reads the entry until it has
\* cancelled the activations.
LEMMA StopsStep ==
    ASSUME Cyc!IdAssumption, CycInv, NEW a \in AppTask, NEW id \in Cyc!Ev3CycId,
           Cyc!StopStops(a) \/ Cyc!StopCancels(a) \/ Cyc!StopCalled(a, id)
    PROVE  CycInv'
<1>1. /\ term = "none" /\ term' = "none" /\ cut' = cut /\ tmax_ev3cycid' = tmax_ev3cycid
      /\ cycinib' = cycinib /\ tsk' = tsk /\ cyc' = cyc /\ slot' = slot /\ given' = given
      /\ new' = new /\ cycfailed = "none" /\ left' = left
  BY DEF Cyc!StopStops, Cyc!StopCancels, Cyc!StopCalled, Cyc!At, Cyc!Running, Cyc!termVars, Cyc!tableVars, Cyc!tskVars, Cyc!cycVars
<1>2. ASSUME ~cut PROVE QuietInv' /\ TableInv'
  <2>1. CASE Cyc!StopCalled(a, id)
    <3>1. /\ apppc' = [apppc EXCEPT ![a] = "stops"] /\ apppc[a] = "runs" /\ id \in given /\ dsp
          /\ my' = [my EXCEPT ![a] = id] /\ on' = on /\ dsp' = FALSE /\ quiet' = quiet
          /\ act' = act /\ cycfailed' = cycfailed
      BY <2>1 DEF Cyc!StopCalled, Cyc!cycVars, Cyc!tskVars, Cyc!Goto, Cyc!At
    <3>2. /\ apppc'[a] = "stops" /\ my'[a] = id
          /\ \A b \in AppTask : b # a => apppc'[b] = apppc[b] /\ my'[b] = my[b]
      BY <3>1, CycTypes
    <3>3. Stopping = {}
      BY <1>2, <3>1, NobodyStops
    <3>4. Stopping' = {a}
      BY <3>2, <3>3 DEF Stopping
    <3>5. QuietInv'
      <4>1. \A b \in AppTask : apppc'[b] # "cancels"
        BY <3>2, <3>3 DEF Stopping
      <4> QED
        BY <1>1, <1>2, <3>1, <3>2, <3>4, <4>1 DEF CycInv, QuietInv
    <3>6. SameHolders
      BY <1>1, <3>1, <3>2 DEF SameHolders, CreatingLabels
    <3>7. NoneInv'
      BY <1>1, <1>2, <3>6, NoneSame DEF CycInv, TableInv
    <3> QED
      BY <1>1, <3>5, <3>7, StillNone
  <2>2. CASE Cyc!StopStops(a)
    <3>1. /\ apppc' = [apppc EXCEPT ![a] = "cancels"] /\ apppc[a] = "stops" /\ my' = my
          /\ act' = act /\ quiet' = quiet /\ dsp' = dsp
          /\ \/ on' = on \ {cycinib[my[a]].cyclic} /\ cycfailed' = cycfailed
             \/ cycinib[my[a]].cyclic \notin cyc /\ on' = on /\ cycfailed' = "stp"
      BY <2>2 DEF Cyc!StopStops, Cyc!tskVars, Cyc!Goto, Cyc!At
    <3>2. /\ apppc'[a] = "cancels"
          /\ \A b \in AppTask : b # a => apppc'[b] = apppc[b] /\ my'[b] = my[b]
      BY <3>1, CycTypes
    <3>3. a \in Stopping /\ Stopping' = Stopping
      BY <3>1, <3>2 DEF Stopping
    <3>4. \A b \in Stopping : b = a
      BY <1>2, <3>3 DEF CycInv, QuietInv
    <3>5. cycinib[my[a]].cyclic \notin on' /\ on' \subseteq on
      BY <3>1, CycTypes
    <3>6. \A b \in AppTask : apppc'[b] = "cancels" => b = a
      BY <3>3, <3>4 DEF Stopping
    <3>7. QuietInv'
      BY <1>1, <1>2, <3>1, <3>3, <3>5, <3>6 DEF CycInv, QuietInv
    <3>8. SameHolders
      BY <1>1, <3>1, <3>2 DEF SameHolders, CreatingLabels
    <3>9. NoneInv'
      BY <1>1, <1>2, <3>8, NoneSame DEF CycInv, TableInv
    <3> QED
      BY <1>1, <3>7, <3>9, StillNone
  <2>3. CASE Cyc!StopCancels(a)
    <3> DEFINE t == cycinib[my[a]].task
    <3>1. /\ apppc' = [apppc EXCEPT ![a] = "runs"] /\ apppc[a] = "cancels"
          /\ my' = [my EXCEPT ![a] = 0] /\ on' = on /\ dsp' = TRUE
          /\ quiet' = quiet \cup {my[a]}
          /\ IF t \in tsk THEN /\ act' = [act EXCEPT ![t] = IF @ > 1 THEN 1 ELSE @]
                               /\ cycfailed' = cycfailed
                          ELSE cycfailed' = "can"
      BY <2>3 DEF Cyc!StopCancels, Cyc!cycVars, Cyc!Goto, Cyc!At
    <3>2. /\ apppc'[a] = "runs"
          /\ \A b \in AppTask : b # a => apppc'[b] = apppc[b] /\ my'[b] = my[b]
      BY <3>1, CycTypes
    <3>3. a \in Stopping
      BY <3>1 DEF Stopping
    <3>4. Stopping' = {}
      <4>1. \A b \in Stopping : b = a
        BY <1>2, <3>3 DEF CycInv, QuietInv
      <4> QED
        BY <3>2, <4>1 DEF Stopping
    <3>5. my[a] \in given /\ cycinib[my[a]].cyclic \notin on
      BY <1>2, <3>1, <3>3 DEF CycInv, QuietInv
    <3>7. ASSUME NEW i \in quiet', cycfailed' = "none"
          PROVE  /\ cycinib[i].cyclic \notin on
                 /\ cycinib[i].task \in TSKID /\ act'[cycinib[i].task] <= 1
      <4> DEFINE u == cycinib[i].task
      <4>0. /\ act' = [act EXCEPT ![t] = IF @ > 1 THEN 1 ELSE @]
            /\ t \in TSKID
        BY <3>1, <3>7, CycTypes
      <4> HIDE DEF t
      <4>1. act \in [TSKID -> 0 .. 2]
        BY DEF CycInv, Cyc!TypeOK
      <4>2. CASE i = my[a]
        <5>1. u = t
          BY <4>2 DEF t
        <5>2. act'[t] <= 1
          BY <4>0, <4>1
        <5> QED
          BY <3>5, <4>0, <4>2, <5>1, <5>2
      <4>3. CASE i \in quiet
        <5>1. cycinib[i].cyclic \notin on /\ u \in TSKID /\ act[u] <= 1
          BY <1>1, <1>2, <4>3 DEF CycInv, QuietInv
        <5> HIDE DEF u
        <5>3. act'[u] <= 1
          BY <4>0, <4>1, <5>1
        <5> QED
          BY <5>1, <5>3 DEF u
      <4> QED
        BY <3>1, <4>2, <4>3
    <3>8. QuietInv'
      <4>1. \A b \in AppTask : apppc'[b] # "cancels"
        BY <3>4 DEF Stopping
      <4> QED
        BY <1>1, <3>1, <3>4, <3>7, <4>1 DEF QuietInv
    <3>9. SameHolders
      BY <1>1, <3>1, <3>2 DEF SameHolders, CreatingLabels
    <3>10. NoneInv'
      BY <1>1, <1>2, <3>9, NoneSame DEF CycInv, TableInv
    <3> QED
      BY <1>1, <3>8, <3>10, StillNone
  <2> QED
    BY <2>1, <2>2, <2>3
<1>3. Cyc!TypeOK' /\ PlacesOK'
  BY StopsTypes
<1> QED
  BY <1>1, <1>2, <1>3, CycInvAgain

\* While a handler is created nobody stops one, so that quietness is about those that
\* were stopped.
QuietKept ==
    cycfailed' = "none" => \A id \in quiet' :
        /\ cycinib'[id].cyclic \notin on'
        /\ cycinib'[id].task \in TSKID /\ act'[cycinib'[id].task] <= 1

LEMMA QuietCreates ==
    ASSUME CycInv, ~cut, dsp, NEW a \in AppTask, NEW label \in CreatingLabels \cup {"runs"},
           apppc' = [apppc EXCEPT ![a] = label], QuietKept
    PROVE  QuietInv'
<1>1. apppc'[a] = label /\ \A b \in AppTask : b # a => apppc'[b] = apppc[b]
  BY DEF CycInv, PlacesOK
<1>2. label \notin {"stops", "cancels"}
  BY DEF CreatingLabels
<1>3. Stopping = {}
  BY NobodyStops
<1>4. Stopping' = {}
  BY <1>1, <1>2, <1>3 DEF Stopping
<1>5. \A b \in AppTask : apppc'[b] # "cancels"
  BY <1>4 DEF Stopping
<1> QED
  BY <1>4, <1>5 DEF QuietInv, QuietKept

\* An entry is counted: it belongs to the task that counted it, and holds nothing yet.
LEMMA CountsStep ==
    ASSUME Cyc!IdAssumption, CycInv, ~cut, NEW a \in AppTask, Cyc!Counts(a) PROVE QuietInv' /\ TableInv'
<1> DEFINE i0 == tmax_ev3cycid + 1
<1>1. /\ apppc[a] = "runs" /\ term = "none" /\ dsp /\ term' = "none" /\ cycfailed = "none"
      /\ cycinib' = cycinib /\ tsk' = tsk /\ act' = act /\ cyc' = cyc /\ on' = on
      /\ slot' = slot /\ given' = given /\ quiet' = quiet /\ new' = new /\ left' = left
      /\ \/ tmax_ev3cycid' = tmax_ev3cycid /\ my' = my /\ apppc' = apppc
         \/ /\ tmax_ev3cycid < TMAX_EV3_CYC_NUM /\ tmax_ev3cycid' = i0
            /\ my' = [my EXCEPT ![a] = i0] /\ apppc' = [apppc EXCEPT ![a] = "counted"]
  BY CycTypes DEF Cyc!Counts, Cyc!Goto, Cyc!At, Cyc!Running, Cyc!tskVars, Cyc!cycVars, Cyc!termVars
<1>2. NoneInv /\ tmax_ev3cycid \in Nat
  BY <1>1, CycTypes DEF CycInv, TableInv
<1>3. \/ apppc' = [apppc EXCEPT ![a] = "counted"]
      \/ apppc' = [apppc EXCEPT ![a] = "runs"]
  BY <1>1 DEF CycInv, PlacesOK
<1>4. QuietInv'
  <2>1. QuietKept
    BY <1>1 DEF QuietKept, CycInv, QuietInv
  <2> QED
    BY <1>1, <1>3, <2>1, QuietCreates DEF CreatingLabels
<1>5. CASE tmax_ev3cycid' = tmax_ev3cycid /\ my' = my /\ apppc' = apppc
  <2>1. SameHolders
    BY <1>1, <1>5 DEF SameHolders
  <2> QED
    BY <1>1, <1>2, <1>4, <1>5, <2>1, NoneSame, StillNone
<1>6. CASE /\ tmax_ev3cycid < TMAX_EV3_CYC_NUM /\ tmax_ev3cycid' = i0
           /\ my' = [my EXCEPT ![a] = i0] /\ apppc' = [apppc EXCEPT ![a] = "counted"]
  <2>1. /\ apppc'[a] = "counted" /\ my'[a] = i0
        /\ \A b \in AppTask : b # a => apppc'[b] = apppc[b] /\ my'[b] = my[b]
    BY <1>6, CycTypes
  <2>2. Creating' = Creating \cup {a} /\ a \notin Creating
    BY <1>1, <2>1 DEF Creating
  <2>3. EntriesInv'
    <3>1. EntriesInv
      BY <1>2 DEF NoneInv
    <3>2. \A b \in Creating : my'[b] = my[b] /\ my[b] \in 1 .. tmax_ev3cycid
      BY <2>1, <2>2, <3>1 DEF EntriesInv, Creating
    <3>3. given' \subseteq 1 .. i0 /\ i0 \notin given
      BY <1>1, <1>2, <3>1 DEF EntriesInv
    <3>4. \A b \in Creating' : my'[b] \in 1 .. i0 /\ my'[b] \notin given'
      BY <1>1, <1>2, <2>1, <2>2, <3>1, <3>2, <3>3 DEF EntriesInv
    <3>5. \A b, c \in Creating' : my'[b] = my'[c] => b = c
      BY <1>2, <2>1, <2>2, <3>1, <3>2 DEF EntriesInv
    <3>6. ASSUME NEW i \in 1 .. i0 PROVE i \in given' \/ \E b \in Creating' : my'[b] = i
      <4>1. CASE i = i0
        BY <2>1, <2>2, <4>1
      <4>2. CASE i \in 1 .. tmax_ev3cycid
        BY <1>1, <2>2, <3>1, <3>2, <4>2 DEF EntriesInv
      <4> QED
        BY <1>2, <4>1, <4>2
    <3> QED
      BY <1>6, <3>3, <3>4, <3>5, <3>6 DEF EntriesInv
  <2>4. \A i : SameHas(i)
    <3>1. ASSUME NEW i PROVE SameHas(i)
      <4>1. /\ \A b \in AppTask : apppc'[b] = "made" <=> apppc[b] = "made"
            /\ \A b \in AppTask : apppc'[b] = "cycled" <=> apppc[b] = "cycled"
            /\ \A b \in AppTask : apppc'[b] \in {"entered", "cycled"} <=>
                                  apppc[b] \in {"entered", "cycled"}
            /\ \A b \in AppTask : apppc[b] \in {"made", "entered", "cycled"} => my'[b] = my[b]
        BY <1>1, <2>1
      <4>2. Entered(i)' <=> Entered(i)
        BY <1>1, <4>1 DEF Entered
      <4>3. ASSUME NEW t PROVE HasTask(i, t)' <=> HasTask(i, t)
        BY <1>1, <4>1, <4>2 DEF HasTask
      <4>4. ASSUME NEW c PROVE HasCyc(i, c)' <=> HasCyc(i, c)
        BY <1>1, <4>1 DEF HasCyc
      <4> QED
        BY <4>3, <4>4 DEF SameHas
    <3> QED
      BY <3>1
  <2>5. /\ \A i, t : HasTask(i, t) => i \in 1 .. tmax_ev3cycid
        /\ \A i, c : HasCyc(i, c) => i \in 1 .. tmax_ev3cycid
    BY <1>2, HoldersCounted DEF NoneInv
  <2>6. \A i \in 1 .. tmax_ev3cycid : i \in 1 .. i0
    BY <1>2
  <2>7. TasksInv(1, tmax_ev3cycid)'
    <3>1. TasksInv(1, tmax_ev3cycid)
      BY <1>2 DEF NoneInv
    <3> QED
      BY <1>1, <1>6, <2>4, <2>5, <2>6, <3>1 DEF TasksInv, SameHas, Cyc!Ev3CycId
  <2>8. CycsInv(1, tmax_ev3cycid)'
    <3>1. CycsInv(1, tmax_ev3cycid)
      BY <1>2 DEF NoneInv
    <3> QED
      BY <1>1, <1>6, <2>4, <2>5, <2>6, <3>1 DEF CycsInv, SameHas
  <2>9. LeftInv(1, tmax_ev3cycid)'
    <3>1. LeftInv(1, tmax_ev3cycid)
      BY <1>2 DEF NoneInv
    <3> QED
      BY <1>1, <1>6, <2>4, <2>5, <3>1 DEF LeftInv, SameHas
  <2> QED
    BY <1>1, <1>4, <2>3, <2>7, <2>8, <2>9, StillNone DEF NoneInv
<1> QED
  BY <1>1, <1>5, <1>6

\* acre_tsk: the new task, if there is one, belongs to the entry at hand.
LEMMA MakesTaskStep ==
    ASSUME Cyc!IdAssumption, CycInv, ~cut, NEW a \in AppTask, Cyc!MakesTask(a)
    PROVE  QuietInv' /\ TableInv'
<1>1. /\ apppc[a] = "counted" /\ term = "none" /\ dsp /\ term' = "none"
      /\ tmax_ev3cycid' = tmax_ev3cycid /\ cycinib' = cycinib /\ cyc' = cyc /\ on' = on
      /\ slot' = slot /\ given' = given /\ quiet' = quiet /\ my' = my
      /\ apppc' = [apppc EXCEPT ![a] = "made"] /\ cycfailed' = cycfailed /\ left' = left
  BY DEF Cyc!MakesTask, Cyc!tableVars, Cyc!cycVars, Cyc!Goto, Cyc!At, Cyc!termVars
<1>2. PICK n \in (TSKID \ tsk) \cup {Cyc!ErrorCode} :
        /\ new' = [new EXCEPT ![a] = n]
        /\ \/ n \in TSKID /\ tsk' = tsk \cup {n} /\ act' = [act EXCEPT ![n] = 0]
           \/ n = Cyc!ErrorCode /\ tsk' = tsk /\ act' = act
  BY DEF Cyc!MakesTask, Cyc!tskVars
<1>3. NoneInv
  BY <1>1 DEF CycInv, TableInv
<1>4. /\ apppc'[a] = "made" /\ new'[a] = n
      /\ \A b \in AppTask : b # a => apppc'[b] = apppc[b] /\ new'[b] = new[b]
  BY <1>1, <1>2, CycTypes
<1>5. QuietInv'
  <2>1. ASSUME NEW i \in quiet, cycfailed = "none" PROVE act'[cycinib[i].task] <= 1
    <3> DEFINE u == cycinib[i].task
    <3>1. act[u] <= 1 /\ u \in TSKID
      BY <2>1 DEF CycInv, QuietInv
    <3> HIDE DEF u
    <3>2. act \in [TSKID -> 0 .. 2]
      BY DEF CycInv, Cyc!TypeOK
    <3> QED
      BY <1>2, <3>1, <3>2 DEF u
  <2>2. QuietKept
    BY <1>1, <2>1 DEF QuietKept, CycInv, QuietInv
  <2> QED
    BY <1>1, <2>2, QuietCreates DEF CreatingLabels
<1>6. Creating' = Creating /\ EntriesInv'
  <2>1. Creating' = Creating
    BY <1>1, <1>4 DEF Creating
  <2> QED
    BY <1>1, <1>3, <2>1 DEF NoneInv, EntriesInv
<1>7. \A i : Entered(i)' <=> Entered(i)
  BY <1>1, <1>4 DEF Entered
<1>8. \A i, c : HasCyc(i, c)' <=> HasCyc(i, c)
  BY <1>1, <1>4 DEF HasCyc
<1>9. \A i, t : HasTask(i, t)' <=> HasTask(i, t) \/ (i = my[a] /\ t = n)
  BY <1>1, <1>4, <1>7 DEF HasTask
<1>10. my[a] \in 1 .. tmax_ev3cycid /\ n \notin tsk /\ n # 0 /\ n \notin left
  BY <1>1, <1>2, <1>3, CycTypes DEF NoneInv, EntriesInv, LeftInv, Creating
<1>11. TasksInv(1, tmax_ev3cycid)'
  <2>1. TasksInv(1, tmax_ev3cycid)
    BY <1>3 DEF NoneInv
  <2>2. \A t \in tsk' : t \in left' \/ \E i \in 1 .. tmax_ev3cycid : HasTask(i, t)'
    BY <1>1, <1>2, <1>9, <1>10, <2>1 DEF TasksInv
  <2>3. \A i \in 1 .. tmax_ev3cycid : \A t \in TSKID \cup {0} : HasTask(i, t)' => t \in tsk'
    BY <1>2, <1>9, <1>10, <2>1, CycTypes DEF TasksInv
  <2>4. \A i, t : HasTask(i, t) => i \in 1 .. tmax_ev3cycid
    BY <1>3, HoldersCounted DEF NoneInv
  <2>5. \A i, j \in Cyc!Ev3CycId : \A t \in TSKID : HasTask(i, t)' /\ HasTask(j, t)' => i = j
    BY <1>9, <1>10, <2>1, <2>4 DEF TasksInv
  <2> QED
    BY <1>1, <2>2, <2>3, <2>5 DEF TasksInv, Cyc!Ev3CycId
<1>12. CycsInv(1, tmax_ev3cycid)'
  BY <1>1, <1>3, <1>8 DEF NoneInv, CycsInv
<1>13. LeftInv(1, tmax_ev3cycid)'
  BY <1>1, <1>2, <1>3, <1>9, <1>10 DEF NoneInv, LeftInv
<1> QED
  BY <1>1, <1>5, <1>6, <1>11, <1>12, <1>13, StillNone DEF NoneInv

\* The task is entered: it belongs to the entry as before.
LEMMA EntersTaskStep ==
    ASSUME Cyc!IdAssumption, CycInv, ~cut, NEW a \in AppTask, Cyc!EntersTask(a)
    PROVE  QuietInv' /\ TableInv'
<1>1. /\ apppc[a] = "made" /\ term = "none" /\ dsp /\ term' = "none"
      /\ tmax_ev3cycid' = tmax_ev3cycid /\ cyc' = cyc /\ on' = on /\ new' = new
      /\ slot' = slot /\ given' = given /\ quiet' = quiet /\ my' = my /\ tsk' = tsk
      /\ act' = act /\ apppc' = [apppc EXCEPT ![a] = "entered"]
      /\ cycinib' = [cycinib EXCEPT ![my[a]].task = new[a]] /\ cycfailed' = cycfailed
      /\ left' = left
  BY DEF Cyc!EntersTask, Cyc!tskVars, Cyc!cycVars, Cyc!Goto, Cyc!At, Cyc!termVars
<1>2. NoneInv
  BY <1>1 DEF CycInv, TableInv
<1>3. my[a] \notin given /\ my[a] \in Cyc!Ev3CycId
      /\ \A b \in AppTask : apppc[b] \in {"made", "entered", "cycled"} /\ my[b] = my[a] => b = a
  BY <1>1, <1>2 DEF NoneInv, EntriesInv, Creating, CycInv, PlacesOK
<1>4. /\ apppc'[a] = "entered"
      /\ \A b \in AppTask : b # a => apppc'[b] = apppc[b]
      /\ cycinib'[my[a]].task = new[a]
      /\ \A i \in Cyc!Ev3CycId : i # my[a] => cycinib'[i] = cycinib[i]
      /\ \A i \in Cyc!Ev3CycId : cycinib'[i].cyclic = cycinib[i].cyclic
  BY <1>1, <1>3, CycTypes DEF CycInv, Cyc!TypeOK
<1>5. QuietInv'
  <2>1. \A i \in quiet : i \in Cyc!Ev3CycId /\ i # my[a]
    BY <1>3, CycTypes
  <2>2. QuietKept
    BY <1>1, <1>4, <2>1 DEF QuietKept, CycInv, QuietInv
  <2> QED
    BY <1>1, <2>2, QuietCreates DEF CreatingLabels
<1>6. Creating' = Creating /\ EntriesInv'
  <2>1. Creating' = Creating
    BY <1>1, <1>4 DEF Creating
  <2> QED
    BY <1>1, <1>2, <2>1 DEF NoneInv, EntriesInv
<1>7. \A i \in Cyc!Ev3CycId : \A c : HasCyc(i, c)' <=> HasCyc(i, c)
  BY <1>1, <1>4 DEF HasCyc
<1>8. ASSUME NEW i \in Cyc!Ev3CycId, NEW t PROVE HasTask(i, t)' <=> HasTask(i, t)
  <2>1. CASE i = my[a]
    <3>1. ~Entered(i) /\ Entered(i)'
      BY <1>1, <1>3, <1>4, <2>1 DEF Entered
    <3>2. \A b \in AppTask : apppc[b] = "made" /\ my[b] = i => b = a
      BY <1>3, <2>1
    <3>3. HasTask(i, t) <=> new[a] = t
      BY <1>1, <2>1, <3>1, <3>2 DEF HasTask
    <3>4. HasTask(i, t)' <=> new[a] = t
      BY <1>1, <1>4, <2>1, <3>1, <3>2 DEF HasTask
    <3> QED
      BY <3>3, <3>4
  <2>2. CASE i # my[a]
    <3>1. Entered(i)' <=> Entered(i)
      BY <1>1, <1>4, <2>2 DEF Entered
    <3> QED
      BY <1>1, <1>4, <2>2, <3>1 DEF HasTask
  <2> QED
    BY <2>1, <2>2
<1>9. \A i \in 1 .. tmax_ev3cycid : i \in Cyc!Ev3CycId
  BY CycTypes DEF Cyc!Ev3CycId
<1>10. TasksInv(1, tmax_ev3cycid)'
  <2>1. TasksInv(1, tmax_ev3cycid)
    BY <1>2 DEF NoneInv
  <2>2. \A i, j \in Cyc!Ev3CycId : \A t \in TSKID : HasTask(i, t)' /\ HasTask(j, t)' => i = j
    BY <1>8, <2>1 DEF TasksInv
  <2> QED
    BY <1>1, <1>8, <1>9, <2>1, <2>2 DEF TasksInv, Cyc!Ev3CycId
<1>11. CycsInv(1, tmax_ev3cycid)'
  <2>1. CycsInv(1, tmax_ev3cycid)
    BY <1>2 DEF NoneInv
  <2> QED
    BY <1>1, <1>7, <1>9, <2>1 DEF CycsInv
<1>12. LeftInv(1, tmax_ev3cycid)'
  BY <1>1, <1>2, <1>8, <1>9 DEF NoneInv, LeftInv
<1> QED
  BY <1>1, <1>5, <1>6, <1>10, <1>11, <1>12, StillNone DEF NoneInv

\* acre_cyc: the new handler belongs to the entry at hand.
LEMMA MakesCycStep ==
    ASSUME Cyc!IdAssumption, CycInv, ~cut, NEW a \in AppTask, Cyc!MakesCyc(a)
    PROVE  QuietInv' /\ TableInv'
<1>1. /\ apppc[a] = "entered" /\ term = "none" /\ dsp /\ term' = "none"
      /\ tmax_ev3cycid' = tmax_ev3cycid /\ cycinib' = cycinib /\ tsk' = tsk /\ act' = act
      /\ given' = given /\ quiet' = quiet /\ my' = my
      /\ apppc' = [apppc EXCEPT ![a] = "cycled"] /\ cycfailed' = cycfailed /\ left' = left
  BY DEF Cyc!MakesCyc, Cyc!tableVars, Cyc!tskVars, Cyc!Goto, Cyc!At, Cyc!termVars
<1>2. PICK n \in CYCID \cup {Cyc!ErrorCode} :
        /\ new' = [new EXCEPT ![a] = n]
        /\ \/ /\ n \in CYCID \ cyc /\ cyc' = cyc \cup {n} /\ slot' = [slot EXCEPT ![n] = my[a]]
              /\ on' \subseteq on \cup {n}
           \/ n = Cyc!ErrorCode /\ cyc' = cyc /\ on' = on /\ slot' = slot
  BY DEF Cyc!MakesCyc, Cyc!cycVars
<1>3. NoneInv
  BY <1>1 DEF CycInv, TableInv
<1>4. /\ apppc'[a] = "cycled" /\ new'[a] = n
      /\ \A b \in AppTask : b # a => apppc'[b] = apppc[b] /\ new'[b] = new[b]
  BY <1>1, <1>2, CycTypes
<1>5. my[a] \in 1 .. tmax_ev3cycid
  BY <1>1, <1>3 DEF NoneInv, EntriesInv, Creating
<1>6. \A i \in 1 .. tmax_ev3cycid : i \in Cyc!Ev3CycId
  BY CycTypes DEF Cyc!Ev3CycId
<1>7. QuietInv'
  <2>1. ASSUME NEW i \in quiet, cycfailed = "none" PROVE cycinib[i].cyclic \notin on'
    <3>1. i \in given /\ i \in 1 .. tmax_ev3cycid /\ i \in Cyc!Ev3CycId
          /\ cycinib[i].cyclic \notin on
      BY <1>3, <2>1, CycTypes DEF CycInv, QuietInv, NoneInv, EntriesInv
    <3>2. HasCyc(i, cycinib[i].cyclic)
      BY <3>1 DEF HasCyc
    <3>3. cycinib[i].cyclic \in CYCID => cycinib[i].cyclic \in cyc
      BY <1>3, <3>1, <3>2 DEF NoneInv, CycsInv
    <3>4. cycinib[i].cyclic \in CYCID \cup {0, Cyc!ErrorCode} /\ 0 \notin CYCID
          /\ Cyc!ErrorCode \notin CYCID
      BY <3>1, CycTypes
    <3> QED
      BY <1>2, <3>1, <3>3, <3>4
  <2>2. QuietKept
    BY <1>1, <2>1 DEF QuietKept, CycInv, QuietInv
  <2> QED
    BY <1>1, <2>2, QuietCreates DEF CreatingLabels
<1>8. Creating' = Creating /\ EntriesInv'
  <2>1. Creating' = Creating
    BY <1>1, <1>4 DEF Creating
  <2> QED
    BY <1>1, <1>3, <2>1 DEF NoneInv, EntriesInv
<1>9. \A i : Entered(i)' <=> Entered(i)
  BY <1>1, <1>4 DEF Entered
<1>10. \A i, t : HasTask(i, t)' <=> HasTask(i, t)
  BY <1>1, <1>4, <1>9 DEF HasTask
<1>11. \A i, c : HasCyc(i, c)' <=> HasCyc(i, c) \/ (i = my[a] /\ c = n)
  BY <1>1, <1>4 DEF HasCyc
<1>12. TasksInv(1, tmax_ev3cycid)'
  <2>1. TasksInv(1, tmax_ev3cycid)
    BY <1>3 DEF NoneInv
  <2> QED
    BY <1>1, <1>10, <2>1 DEF TasksInv, Cyc!Ev3CycId
<1>13. CycsInv(1, tmax_ev3cycid)'
  <2>1. CycsInv(1, tmax_ev3cycid)
    BY <1>3 DEF NoneInv
  <2>2. /\ slot \in [CYCID -> 0 .. TMAX_EV3_CYC_NUM] /\ Cyc!ErrorCode \notin CYCID
        /\ cyc \subseteq CYCID
    BY CycTypes DEF CycInv, Cyc!TypeOK
  <2>3. /\ \A c \in cyc : slot'[c] = slot[c]
        /\ n \in CYCID => n \in cyc' /\ slot'[n] = my[a]
        /\ cyc' \subseteq cyc \cup {n} /\ cyc \subseteq cyc'
    BY <1>2, <2>2
  <2>4. ASSUME NEW c \in cyc' PROVE slot'[c] \in 1 .. tmax_ev3cycid /\ HasCyc(slot[c], c)'
    <3>1. CASE c \in cyc
      BY <1>11, <2>1, <2>3, <3>1 DEF CycsInv
    <3>2. CASE c \notin cyc
      <4>1. c = n /\ n \in CYCID
        BY <1>2, <2>3, <3>2
      <4> QED
        BY <1>5, <1>11, <2>3, <4>1
    <3> QED
      BY <3>1, <3>2
  <2>5. ASSUME NEW i \in 1 .. tmax_ev3cycid, NEW c \in CYCID, HasCyc(i, c)'
        PROVE  c \in cyc' /\ slot'[c] = i
    <3>1. CASE HasCyc(i, c)
      BY <2>1, <2>3, <3>1 DEF CycsInv
    <3>2. CASE i = my[a] /\ c = n
      BY <2>3, <3>2
    <3> QED
      BY <1>11, <2>5, <3>1, <3>2
  <2> QED
    BY <1>1, <2>4, <2>5 DEF CycsInv
<1>14. LeftInv(1, tmax_ev3cycid)'
  BY <1>1, <1>3, <1>10 DEF NoneInv, LeftInv
<1> QED
  BY <1>1, <1>7, <1>8, <1>12, <1>13, <1>14, StillNone DEF NoneInv

\* The handler is entered and the entry handed out: both belong to it as before.
LEMMA EntersCycStep ==
    ASSUME Cyc!IdAssumption, CycInv, ~cut, NEW a \in AppTask, Cyc!EntersCyc(a)
    PROVE  QuietInv' /\ TableInv'
<1>1. /\ apppc[a] = "cycled" /\ term = "none" /\ dsp /\ term' = "none"
      /\ tmax_ev3cycid' = tmax_ev3cycid /\ cyc' = cyc /\ on' = on
      /\ slot' = slot /\ quiet' = quiet /\ tsk' = tsk /\ act' = act
      /\ apppc' = [apppc EXCEPT ![a] = "runs"] /\ cycfailed' = cycfailed /\ left' = left
      /\ cycinib' = [cycinib EXCEPT ![my[a]].cyclic = new[a]] /\ given' = given \cup {my[a]}
      /\ my' = [my EXCEPT ![a] = 0] /\ new' = [new EXCEPT ![a] = 0]
  BY DEF Cyc!EntersCyc, Cyc!tskVars, Cyc!cycVars, Cyc!Goto, Cyc!At, Cyc!termVars
<1>2. NoneInv
  BY <1>1 DEF CycInv, TableInv
<1>3. my[a] \notin given /\ my[a] \in Cyc!Ev3CycId /\ my[a] \in 1 .. tmax_ev3cycid
      /\ \A b \in Creating : my[b] = my[a] => b = a
  BY <1>1, <1>2 DEF NoneInv, EntriesInv, Creating, CycInv, PlacesOK
<1>4. /\ apppc'[a] = "runs"
      /\ \A b \in AppTask : b # a => apppc'[b] = apppc[b] /\ my'[b] = my[b] /\ new'[b] = new[b]
      /\ cycinib'[my[a]].cyclic = new[a]
      /\ \A i \in Cyc!Ev3CycId : i # my[a] => cycinib'[i] = cycinib[i]
      /\ \A i \in Cyc!Ev3CycId : cycinib'[i].task = cycinib[i].task
  BY <1>1, <1>3, CycTypes DEF CycInv, Cyc!TypeOK
<1>5. QuietInv'
  <2>1. \A i \in quiet : i \in Cyc!Ev3CycId /\ i # my[a]
    BY <1>3, CycTypes
  <2>2. QuietKept
    BY <1>1, <1>4, <2>1 DEF QuietKept, CycInv, QuietInv
  <2> QED
    BY <1>1, <2>2, QuietCreates
<1>6. EntriesInv'
  <2>1. Creating' = Creating \ {a} /\ a \in Creating
    BY <1>1, <1>4 DEF Creating
  <2>2. \A b \in Creating' : my'[b] = my[b] /\ b \in Creating
    BY <1>4, <2>1 DEF Creating
  <2>3. EntriesInv
    BY <1>2 DEF NoneInv
  <2>4. \A b \in Creating' : my'[b] \in 1 .. tmax_ev3cycid /\ my'[b] \notin given'
    BY <1>1, <1>3, <2>1, <2>2, <2>3 DEF EntriesInv
  <2>5. \A b, c \in Creating' : my'[b] = my'[c] => b = c
    BY <2>2, <2>3 DEF EntriesInv
  <2>6. ASSUME NEW i \in 1 .. tmax_ev3cycid PROVE i \in given' \/ \E b \in Creating' : my'[b] = i
    <3>1. i \in given \/ \E b \in Creating : my[b] = i
      BY <2>3 DEF EntriesInv
    <3>2. CASE i = my[a]
      BY <1>1, <3>2
    <3>3. CASE i # my[a]
      BY <1>1, <2>1, <2>2, <3>1, <3>3
    <3> QED
      BY <3>2, <3>3
  <2>7. given' \subseteq 1 .. tmax_ev3cycid
    BY <1>1, <1>3, <2>3 DEF EntriesInv
  <2> QED
    BY <1>1, <2>4, <2>5, <2>6, <2>7 DEF EntriesInv
<1>7. ASSUME NEW i \in Cyc!Ev3CycId, NEW t PROVE HasTask(i, t)' <=> HasTask(i, t)
  <2>1. Entered(i)' <=> Entered(i)
    <3>1. CASE i = my[a]
      BY <1>1, <3>1 DEF Entered
    <3>2. CASE i # my[a]
      BY <1>1, <1>4, <3>2 DEF Entered
    <3> QED
      BY <3>1, <3>2
  <2> QED
    BY <1>1, <1>4, <2>1 DEF HasTask
<1>8. ASSUME NEW i \in Cyc!Ev3CycId, NEW c PROVE HasCyc(i, c)' <=> HasCyc(i, c)
  <2>1. CASE i = my[a]
    <3>1. \A b \in AppTask : apppc[b] = "cycled" /\ my[b] = i => b = a
      BY <1>3, <2>1 DEF Creating
    <3>2. HasCyc(i, c) <=> new[a] = c
      BY <1>1, <1>3, <2>1, <3>1 DEF HasCyc
    <3>3. \A b \in AppTask : ~(apppc'[b] = "cycled" /\ my'[b] = i)
      BY <1>4, <3>1
    <3>4. HasCyc(i, c)' <=> new[a] = c
      BY <1>1, <1>4, <2>1, <3>3 DEF HasCyc
    <3> QED
      BY <3>2, <3>4
  <2>2. CASE i # my[a]
    <3>1. \A b \in AppTask : apppc'[b] = "cycled" /\ my'[b] = i /\ new'[b] = c <=>
                             apppc[b] = "cycled" /\ my[b] = i /\ new[b] = c
      BY <1>1, <1>4, <2>2
    <3> QED
      BY <1>1, <1>4, <2>2, <3>1 DEF HasCyc
  <2> QED
    BY <2>1, <2>2
<1>9. \A i \in 1 .. tmax_ev3cycid : i \in Cyc!Ev3CycId
  BY CycTypes DEF Cyc!Ev3CycId
<1>10. TasksInv(1, tmax_ev3cycid)'
  <2>1. TasksInv(1, tmax_ev3cycid)
    BY <1>2 DEF NoneInv
  <2>2. \A i, j \in Cyc!Ev3CycId : \A t \in TSKID : HasTask(i, t)' /\ HasTask(j, t)' => i = j
    BY <1>7, <2>1 DEF TasksInv
  <2> QED
    BY <1>1, <1>7, <1>9, <2>1, <2>2 DEF TasksInv, Cyc!Ev3CycId
<1>11. CycsInv(1, tmax_ev3cycid)'
  <2>1. CycsInv(1, tmax_ev3cycid)
    BY <1>2 DEF NoneInv
  <2> QED
    BY <1>1, <1>8, <1>9, <2>1 DEF CycsInv
<1>12. LeftInv(1, tmax_ev3cycid)'
  BY <1>1, <1>2, <1>7, <1>9 DEF NoneInv, LeftInv
<1> QED
  BY <1>1, <1>5, <1>6, <1>10, <1>11, <1>12, StillNone DEF NoneInv

LEMMA CreatesStep == ASSUME Cyc!IdAssumption, CycInv, NEW a \in AppTask, Cyc!Creates(a) PROVE CycInv'
<1>1. cut' = cut
  BY DEF Cyc!Creates, Cyc!Counts, Cyc!MakesTask, Cyc!EntersTask, Cyc!MakesCyc, Cyc!EntersCyc, Cyc!termVars
<1>2. ~cut => QuietInv' /\ TableInv'
  BY CountsStep, MakesTaskStep, EntersTaskStep, MakesCycStep, EntersCycStep DEF Cyc!Creates
<1> QED
  BY <1>1, <1>2, CreatesTypes, CycInvAgain

\* An application is loaded over an empty table.
LEMMA LoadStep == ASSUME Cyc!IdAssumption, CycInv, Cyc!Load PROVE CycInv'
<1>1. /\ term = "unloaded" /\ term' = "none" /\ apppc' = [a \in AppTask |-> "runs"]
      /\ tmax_ev3cycid' = tmax_ev3cycid /\ cycinib' = cycinib /\ tsk' = tsk /\ act' = act
      /\ cyc' = cyc /\ on' = on /\ slot' = slot /\ given' = given /\ quiet' = quiet
      /\ cut' = cut /\ left' = left
  BY DEF Cyc!Load, Cyc!tableVars, Cyc!tskVars, Cyc!cycVars
<1>2. ASSUME ~cut PROVE QuietInv' /\ TableInv'
  <2>1. tmax_ev3cycid = 0 /\ given = {} /\ tsk = left /\ cyc = {} /\ quiet = {}
    BY <1>1, <1>2, CycTypes DEF CycInv, TableInv, UnloadedInv
  <2>2. Creating' = {} /\ Stopping' = {} /\ \A a \in AppTask : apppc'[a] = "runs"
    BY <1>1 DEF Creating, Stopping
  <2>3. QuietInv'
    BY <1>1, <2>1, <2>2 DEF QuietInv
  <2>4. EntriesInv'
    BY <1>1, <2>1, <2>2 DEF EntriesInv
  <2>5. \A i, t : ~HasTask(i, t)' /\ ~HasCyc(i, t)'
    BY <1>1, <2>1, <2>2 DEF HasTask, HasCyc, Entered
  <2>6. /\ TasksInv(1, tmax_ev3cycid)' /\ CycsInv(1, tmax_ev3cycid)'
        /\ LeftInv(1, tmax_ev3cycid)'
    BY <1>1, <2>1, <2>5 DEF TasksInv, CycsInv, LeftInv
  <2> QED
    BY <1>1, <2>3, <2>4, <2>6, StillNone DEF NoneInv
<1> QED
  BY <1>1, <1>2, LoadTypes, CycInvAgain

\* No step of the terminating task activates a task or lets a handler run.
LEMMA QuietTerm ==
    ASSUME CycInv, ~cut, UNCHANGED <<apppc, my, cycinib, given, quiet, dsp>>, on' \subseteq on,
           act' = act \/ \E t \in TSKID : act' = [act EXCEPT ![t] = IF @ = 2 THEN 1 ELSE 0],
           cycfailed' = "none" => cycfailed = "none"
    PROVE  QuietInv'
<1>0. cycfailed = "none" => \A id \in quiet : cycinib[id].task \in TSKID
  BY DEF CycInv, QuietInv
<1>1. cycfailed = "none" =>
          \A id \in quiet : act'[cycinib[id].task] <= act[cycinib[id].task]
  <2>1. ASSUME NEW u \in TSKID PROVE act'[u] <= act[u]
    <3>1. act \in [TSKID -> 0 .. 2]
      BY DEF CycInv, Cyc!TypeOK
    <3> QED
      BY <3>1
  <2> QED
    BY <1>0, <2>1
<1>2. cycfailed = "none" =>
          \A id \in quiet : act[cycinib[id].task] \in 0 .. 2 /\ act'[cycinib[id].task] \in Int
  <2>1. ASSUME NEW u \in TSKID PROVE act[u] \in 0 .. 2 /\ act'[u] \in Int
    <3>1. act \in [TSKID -> 0 .. 2]
      BY DEF CycInv, Cyc!TypeOK
    <3> QED
      BY <3>1
  <2> QED
    BY <1>0, <2>1
<1>3. Stopping' = Stopping
  BY DEF Stopping
<1>4. \A id \in quiet : cycfailed = "none" => act'[cycinib[id].task] <= 1
  BY <1>1, <1>2 DEF CycInv, QuietInv
<1> QED
  BY <1>0, <1>3, <1>4 DEF CycInv, QuietInv

\* destroy_all_ev3cyc starts: no task of the application is creating a handler, so that
\* every entry was handed out.
LEMMA TermStartsStep == ASSUME Cyc!IdAssumption, CycInv, Cyc!TermStarts PROVE CycInv'
<1>1. /\ term = "none" /\ term' = "cyc" /\ dsp /\ deleted' = tmax_ev3cycid
      /\ tmax_ev3cycid' = 0 /\ k' = 1 /\ cut' = (cut \/ \E a \in AppTask : apppc[a] # "runs")
      /\ cycinib' = cycinib /\ tsk' = tsk /\ act' = act /\ cyc' = cyc /\ on' = on /\ slot' = slot
      /\ apppc' = apppc /\ my' = my /\ new' = new /\ given' = given /\ quiet' = quiet
      /\ dsp' = dsp /\ cycfailed' = cycfailed /\ left' = left
  BY DEF Cyc!TermStarts, Cyc!tskVars, Cyc!cycVars, Cyc!appVars
<1>2. ASSUME ~cut' PROVE QuietInv' /\ TableInv'
  <2>1. ~cut /\ \A a \in AppTask : apppc[a] = "runs"
    BY <1>1, <1>2
  <2>2. NoneInv
    BY <1>1, <2>1 DEF CycInv, TableInv
  <2>3. SameHolders
    BY <1>1 DEF SameHolders
  <2>4. \A i : SameHas(i)
    BY <2>3, HoldersSame
  <2>5. given = 1 .. tmax_ev3cycid
    <3>1. Creating = {}
      BY <2>1 DEF Creating
    <3> QED
      BY <2>2, <3>1 DEF NoneInv, EntriesInv
  <2>6. \A id \in given : cycinib[id].task # 0
    BY <1>1, <2>1, GivenHasTask, CycTypes
  <2>7. TasksInv(k, deleted)'
    BY <1>1, <2>2, <2>4 DEF NoneInv, TasksInv, SameHas, Cyc!Ev3CycId
  <2>8. CycsInv(k, deleted)'
    BY <1>1, <2>2, <2>4 DEF NoneInv, CycsInv, SameHas
  <2>9. k' \in 1 .. deleted' + 1
    BY <1>1, CycTypes
  <2>12. LeftInv(k, deleted)' /\ LeftInv(k + 1, deleted)'
    BY <1>1, <2>2, <2>4 DEF NoneInv, LeftInv, SameHas
  <2>10. TermInv'
    BY <1>1, <2>1, <2>5, <2>6, <2>7, <2>8, <2>9, <2>12 DEF TermInv
  <2>11. QuietInv'
    BY <1>1, <2>1, QuietTerm
  <2> QED
    BY <1>1, <2>10, <2>11 DEF TableInv
<1> QED
  BY <1>2, TermTypes, CycInvAgain

\* While the handlers are destroyed, an entry has what is in the table.
LEMMA TermHolds ==
    ASSUME Cyc!IdAssumption, CycInv, ~cut, term \in {"cyc", "ter", "del"}
    PROVE  /\ TermInv /\ QuietInv
           /\ \A i \in given : /\ i \in Cyc!Ev3CycId /\ cycinib[i].task \in TSKID \cup {Cyc!ErrorCode}
                               /\ HasTask(i, cycinib[i].task) /\ HasCyc(i, cycinib[i].cyclic)
           /\ \A i, c : HasCyc(i, c) => i \in given /\ cycinib[i].cyclic = c
           /\ \A i, t : HasTask(i, t) => i \in given /\ cycinib[i].task = t
           /\ k \in Nat /\ k >= 1 /\ deleted \in Nat
<1>1. TermInv /\ QuietInv
  BY DEF CycInv, TableInv
<1>2. \A i \in given : i \in Cyc!Ev3CycId /\ cycinib[i].task \in TSKID \cup {Cyc!ErrorCode}
  BY <1>1, CycTypes DEF TermInv
<1>3. \A i \in given : HasTask(i, cycinib[i].task) /\ HasCyc(i, cycinib[i].cyclic)
  BY DEF HasTask, HasCyc, Entered
<1>4. \A i, c : HasCyc(i, c) => i \in given /\ cycinib[i].cyclic = c
  BY <1>1 DEF HasCyc, TermInv
<1>5. \A i, t : HasTask(i, t) => i \in given /\ cycinib[i].task = t
  BY <1>1 DEF HasTask, Entered, TermInv
<1>6. k \in Nat /\ k >= 1 /\ deleted \in Nat
  BY <1>1, CycTypes DEF TermInv
<1> QED
  BY <1>1, <1>2, <1>3, <1>4, <1>5, <1>6

LEMMA TermDelCycStep == ASSUME Cyc!IdAssumption, CycInv, Cyc!TermDelCyc PROVE CycInv'
<1>1. /\ term = "cyc" /\ k <= deleted /\ term' = "ter"
      /\ cyc' = cyc \ {cycinib[k].cyclic} /\ on' = on \ {cycinib[k].cyclic}
      /\ tmax_ev3cycid' = tmax_ev3cycid /\ cycinib' = cycinib /\ tsk' = tsk /\ act' = act
      /\ slot' = slot /\ apppc' = apppc /\ my' = my /\ new' = new /\ given' = given
      /\ quiet' = quiet /\ dsp' = dsp /\ k' = k /\ deleted' = deleted /\ cut' = cut
      /\ cycfailed' = cycfailed /\ left' = left
  BY DEF Cyc!TermDelCyc, Cyc!tableVars, Cyc!tskVars, Cyc!appVars
<1>2. ASSUME ~cut PROVE QuietInv' /\ TableInv'
  <2>1. TermInv /\ \A i : SameHas(i)
    <3>1. SameHolders
      BY <1>1 DEF SameHolders
    <3> QED
      BY <1>1, <1>2, <3>1, TermHolds, HoldersSame
  <2>2. TasksInv(k, deleted)'
    BY <1>1, <2>1 DEF TermInv, TasksInv, SameHas, Cyc!Ev3CycId
  <2>3. CycsInv(k + 1, deleted)'
    <3>1. CycsInv(k, deleted) /\ given = 1 .. deleted /\ k \in given
      BY <1>1, <1>2, <2>1, TermHolds DEF TermInv
    <3>2. ASSUME NEW c \in cyc' PROVE slot[c] \in k + 1 .. deleted /\ HasCyc(slot[c], c)'
      <4>1. c \in cyc /\ c # cycinib[k].cyclic /\ slot[c] \in k .. deleted /\ HasCyc(slot[c], c)
        BY <1>1, <3>1, <3>2 DEF CycsInv
      <4>2. slot[c] # k
        BY <1>1, <1>2, <4>1, TermHolds
      <4>3. slot[c] \in k + 1 .. deleted
        BY <1>1, <1>2, <4>1, <4>2, TermHolds
      <4> QED
        BY <1>1, <2>1, <4>1, <4>3 DEF SameHas
    <3>3. ASSUME NEW i \in k + 1 .. deleted, NEW c \in CYCID, HasCyc(i, c)'
          PROVE  c \in cyc' /\ slot[c] = i
      <4>0. HasCyc(i, c)
        BY <2>1, <3>3 DEF SameHas
      <4>1. HasCyc(i, c) /\ i \in k .. deleted /\ i # k /\ k \in k .. deleted
        BY <1>1, <1>2, <4>0, TermHolds
      <4>2. c \in cyc /\ slot[c] = i
        BY <3>1, <4>1 DEF CycsInv
      <4>3. c # cycinib[k].cyclic
        BY <1>1, <1>2, <3>1, <4>1, <4>2, TermHolds DEF CycsInv
      <4> QED
        BY <1>1, <4>2, <4>3
    <3> QED
      BY <1>1, <3>2, <3>3 DEF CycsInv
  <2>6. LeftInv(k, deleted)' /\ LeftInv(k + 1, deleted)'
    BY <1>1, <2>1 DEF TermInv, LeftInv, SameHas
  <2>4. TermInv'
    BY <1>1, <2>1, <2>2, <2>3, <2>6 DEF TermInv
  <2>5. QuietInv'
    BY <1>1, <1>2, QuietTerm
  <2> QED
    BY <1>1, <2>4, <2>5 DEF TableInv
<1> QED
  BY <1>1, <1>2, TermTypes, CycInvAgain

\* The task is dormant, since the handler that activates it is gone, or was started
\* again and is left; if the entry has no task the assertion fails.
LEMMA TermTerTskStep == ASSUME Cyc!IdAssumption, CycInv, Cyc!TermTerTsk PROVE CycInv'
<1> DEFINE t == cycinib[k].task
<1>1. /\ term = "ter" /\ term' = "del"
      /\ IF t \in tsk THEN /\ act' = [act EXCEPT ![t] = IF @ = 2 THEN 1 ELSE 0]
                           /\ left' = IF act[t] = 2 THEN left \cup {t} ELSE left
                           /\ UNCHANGED cycfailed
                      ELSE cycfailed' = "ter" /\ UNCHANGED <<act, left>>
      /\ tmax_ev3cycid' = tmax_ev3cycid /\ cycinib' = cycinib /\ tsk' = tsk /\ cyc' = cyc
      /\ on' = on /\ slot' = slot /\ apppc' = apppc /\ my' = my /\ new' = new /\ given' = given
      /\ quiet' = quiet /\ dsp' = dsp /\ k' = k /\ deleted' = deleted /\ cut' = cut
  BY DEF Cyc!TermTerTsk, Cyc!tableVars, Cyc!cycVars, Cyc!appVars
<1>2. ASSUME ~cut PROVE QuietInv' /\ TableInv'
  <2>1. TermInv /\ \A i : SameHas(i)
    <3>1. SameHolders
      BY <1>1 DEF SameHolders
    <3> QED
      BY <1>1, <1>2, <3>1, TermHolds, HoldersSame
  <2>2. /\ k <= deleted /\ CycsInv(k + 1, deleted) /\ TasksInv(k, deleted) /\ k \in given
        /\ k \in k .. deleted /\ k \in Cyc!Ev3CycId /\ LeftInv(k, deleted) /\ HasTask(k, t)
    BY <1>1, <1>2, <2>1, TermHolds DEF TermInv
  <2>3. t \notin left /\ left \subseteq tsk
    BY <2>2 DEF LeftInv
  <2>4. CASE t \in tsk
    <3>1. t \in TSKID /\ act \in [TSKID -> 0 .. 2] /\ act' = [act EXCEPT ![t] = IF @ = 2 THEN 1 ELSE 0]
      BY <1>1, <2>4, CycTypes DEF CycInv, Cyc!TypeOK
    <3> HIDE DEF t
    <3>2. act'[t] \in {0, 1} /\ (act'[t] = 1 <=> act[t] = 2)
      BY <3>1
    <3>3. left' \subseteq tsk' /\ (t \in left' <=> act'[t] = 1) /\ left' \subseteq left \cup {t}
          /\ left \subseteq left'
      BY <1>1, <2>3, <2>4, <3>2
    <3>4. TaskTerminated'
      BY <1>1, <2>4, <3>2, <3>3 DEF TaskTerminated, t
    <3>5. LeftInv(k + 1, deleted)'
      <4>1. ASSUME NEW i \in k + 1 .. deleted, NEW u \in left' PROVE ~HasTask(i, u)
        <5>1. i \in k .. deleted /\ i # k /\ i \in Cyc!Ev3CycId
          BY <1>1, <1>2, TermHolds, CycTypes DEF Cyc!Ev3CycId
        <5>2. CASE u = t
          BY <2>2, <3>1, <5>1, <5>2 DEF TasksInv
        <5>3. CASE u \in left
          BY <2>2, <5>1, <5>3 DEF LeftInv
        <5> QED
          BY <3>3, <5>2, <5>3
      <4> QED
        BY <1>1, <2>1, <3>3, <4>1 DEF LeftInv, SameHas
    <3>6. TasksInv(k, deleted)'
      BY <1>1, <2>1, <2>2, <3>3 DEF TasksInv, SameHas, Cyc!Ev3CycId
    <3>7. CycsInv(k + 1, deleted)'
      BY <1>1, <2>1, <2>2 DEF CycsInv, SameHas
    <3>8. TermInv'
      BY <1>1, <2>1, <2>2, <3>4, <3>5, <3>6, <3>7 DEF TermInv
    <3>9. \E u \in TSKID : act' = [act EXCEPT ![u] = IF @ = 2 THEN 1 ELSE 0]
      BY <3>1
    <3>10. QuietInv'
      BY <1>1, <1>2, <2>4, <3>9, QuietTerm DEF t
    <3> QED
      BY <1>1, <3>8, <3>10 DEF TableInv
  <2>5. CASE t \notin tsk
    <3>1. act' = act /\ left' = left /\ cycfailed' = "ter"
      BY <1>1, <2>5
    <3>2. LeftInv(k + 1, deleted)'
      BY <1>1, <2>1, <3>1 DEF TermInv, LeftInv, SameHas
    <3>3. TasksInv(k, deleted)'
      BY <1>1, <2>1, <2>2, <3>1 DEF TasksInv, SameHas, Cyc!Ev3CycId
    <3>4. CycsInv(k + 1, deleted)'
      BY <1>1, <2>1, <2>2 DEF CycsInv, SameHas
    <3>5. TermInv'
      BY <1>1, <2>1, <2>2, <3>1, <3>2, <3>3, <3>4 DEF TermInv
    <3>6. QuietInv'
      BY <1>1, <1>2, <3>1, QuietTerm
    <3> QED
      BY <1>1, <3>5, <3>6 DEF TableInv
  <2> QED
    BY <2>4, <2>5
<1> QED
  BY <1>1, <1>2, TermTypes, CycInvAgain

\* A dormant task is deleted; one that was started again is left.
LEMMA TermDelTskStep == ASSUME Cyc!IdAssumption, CycInv, Cyc!TermDelTsk PROVE CycInv'
<1> DEFINE t0 == cycinib[k].task
<1>1. /\ term = "del" /\ term' = "cyc" /\ k' = k + 1 /\ cycfailed = "none"
      /\ tsk' = (IF act[t0] = 0 THEN tsk \ {t0} ELSE tsk)
      /\ tmax_ev3cycid' = tmax_ev3cycid /\ cycinib' = cycinib /\ act' = act /\ cyc' = cyc
      /\ on' = on /\ slot' = slot /\ apppc' = apppc /\ my' = my /\ new' = new /\ given' = given
      /\ quiet' = quiet /\ dsp' = dsp /\ deleted' = deleted /\ cut' = cut
      /\ cycfailed' = cycfailed /\ left' = left
  BY DEF Cyc!TermDelTsk, Cyc!Running, Cyc!tableVars, Cyc!cycVars, Cyc!appVars
<1>2. ASSUME ~cut PROVE QuietInv' /\ TableInv'
  <2>1. TermInv /\ \A i : SameHas(i)
    <3>1. SameHolders
      BY <1>1 DEF SameHolders
    <3> QED
      BY <1>1, <1>2, <3>1, TermHolds, HoldersSame
  <2>2. /\ k <= deleted /\ CycsInv(k + 1, deleted) /\ TasksInv(k, deleted) /\ k \in given
        /\ k \in Cyc!Ev3CycId /\ HasTask(k, t0) /\ LeftInv(k + 1, deleted)
        /\ t0 \in tsk /\ t0 \in TSKID /\ (t0 \in left <=> act[t0] = 1) /\ act[t0] \in {0, 1}
    BY <1>1, <1>2, <2>1, TermHolds, CycTypes DEF TermInv, TaskTerminated
  <2> HIDE DEF t0
  <2>3. /\ tsk' \subseteq tsk /\ tsk \subseteq tsk' \cup {t0} /\ left \subseteq tsk'
        /\ t0 \in tsk' => t0 \in left
    BY <1>1, <2>2 DEF LeftInv
  <2>4. TasksInv(k, deleted)'
    <3>1. ASSUME NEW t \in tsk', t \notin left PROVE \E i \in k + 1 .. deleted : HasTask(i, t)'
      <4>1. PICK i \in k .. deleted : HasTask(i, t)
        BY <2>2, <2>3, <3>1 DEF TasksInv
      <4>2. i # k
        BY <1>1, <1>2, <2>3, <3>1, <4>1, TermHolds DEF t0
      <4>3. i \in k + 1 .. deleted
        BY <1>1, <1>2, <4>1, <4>2, TermHolds
      <4>4. HasTask(i, t)'
        BY <2>1, <4>1 DEF SameHas
      <4> QED
        BY <4>3, <4>4
    <3>2. \A i, j \in Cyc!Ev3CycId : \A t \in TSKID : HasTask(i, t)' /\ HasTask(j, t)' => i = j
      BY <2>1, <2>2 DEF TasksInv, SameHas
    <3>3. ASSUME NEW i \in k + 1 .. deleted, NEW t \in TSKID \cup {0}, HasTask(i, t)'
          PROVE  t \in tsk'
      <4>0. HasTask(i, t)
        BY <2>1, <3>3 DEF SameHas
      <4>1. i \in k .. deleted /\ i # k /\ i \in Cyc!Ev3CycId
        BY <1>1, <1>2, TermHolds, CycTypes DEF Cyc!Ev3CycId
      <4>2. t \in tsk /\ t \in TSKID
        BY <2>2, <4>0, <4>1, CycTypes DEF TasksInv
      <4>3. t # t0
        BY <2>2, <4>0, <4>1, <4>2 DEF TasksInv
      <4> QED
        BY <2>3, <4>2, <4>3
    <3> QED
      BY <1>1, <3>1, <3>2, <3>3 DEF TasksInv, Cyc!Ev3CycId
  <2>5. LeftInv(k, deleted)' /\ LeftInv(k + 1, deleted)'
    <3>1. \A i \in k + 1 .. deleted : \A t \in left : ~HasTask(i, t)'
      BY <2>1, <2>2 DEF LeftInv, SameHas
    <3>2. \A i \in k + 1 + 1 .. deleted : i \in k + 1 .. deleted
      BY <1>1, <1>2, TermHolds
    <3> QED
      BY <1>1, <2>3, <3>1, <3>2 DEF LeftInv
  <2>6. CycsInv(k, deleted)'
    BY <1>1, <2>1, <2>2 DEF CycsInv, SameHas
  <2>7. k' \in 1 .. deleted' + 1
    BY <1>1, <1>2, <2>2, TermHolds
  <2>8. TermInv'
    BY <1>1, <2>1, <2>4, <2>5, <2>6, <2>7 DEF TermInv
  <2>9. QuietInv'
    BY <1>1, <1>2, QuietTerm
  <2> QED
    BY <1>1, <2>8, <2>9 DEF TableInv
<1> QED
  BY <1>1, <1>2, TermTypes, CycInvAgain

LEMMA TermDelAppStep == ASSUME Cyc!IdAssumption, CycInv, Cyc!TermDelApp PROVE CycInv'
<1>1. /\ term = "cyc" /\ k > deleted /\ term' = "unloaded"
      /\ apppc' = [a \in AppTask |-> "none"] /\ given' = {} /\ quiet' = {}
      /\ tmax_ev3cycid' = tmax_ev3cycid /\ tsk' = tsk /\ cyc' = cyc /\ cut' = cut /\ left' = left
  BY DEF Cyc!TermDelApp, Cyc!tableVars, Cyc!tskVars, Cyc!cycVars
<1>2. ASSUME ~cut PROVE QuietInv' /\ TableInv'
  <2>1. TermInv /\ \A i \in k .. deleted : FALSE
    BY <1>1, <1>2, TermHolds
  <2>2. tsk = left /\ cyc = {} /\ tmax_ev3cycid = 0
    BY <1>1, <2>1 DEF TermInv, TasksInv, CycsInv, LeftInv
  <2>3. \A a \in AppTask : apppc'[a] = "none"
    BY <1>1
  <2>4. Stopping' = {}
    BY <2>3 DEF Stopping
  <2>5. QuietInv'
    BY <1>1, <2>3, <2>4 DEF QuietInv
  <2>6. UnloadedInv'
    BY <1>1, <2>2, <2>3 DEF UnloadedInv
  <2> QED
    BY <1>1, <2>5, <2>6 DEF TableInv
<1> QED
  BY <1>1, <1>2, LoadTypes, CycInvAgain

LEMMA CycInitInv == ASSUME Cyc!IdAssumption, Cyc!Init PROVE CycInv
<1>1. /\ tmax_ev3cycid = 0 /\ cycinib = [id \in Cyc!Ev3CycId |-> [task |-> 0, cyclic |-> 0]]
      /\ tsk = {} /\ act = [t \in TSKID |-> 0] /\ cyc = {} /\ on = {}
      /\ slot = [c \in CYCID |-> 0] /\ apppc = [a \in AppTask |-> "none"]
      /\ my = [a \in AppTask |-> 0] /\ new = my /\ given = {} /\ quiet = {} /\ dsp = TRUE
      /\ term = "unloaded" /\ k = 0 /\ deleted = 0 /\ loads = 0 /\ cut = FALSE
      /\ left = {}
  BY DEF Cyc!Init
<1>2. TMAX_EV3_CYC_NUM \in Nat /\ MaxLoad \in Nat
  BY DEF Cyc!IdAssumption
<1>3. Cyc!TypeOK
  BY <1>1, <1>2 DEF Cyc!TypeOK
<1>4. PlacesOK
  BY <1>1, LabelsAre DEF PlacesOK
<1>5. QuietInv
  <2>1. Stopping = {}
    BY <1>1 DEF Stopping
  <2> QED
    BY <1>1, <2>1 DEF QuietInv
<1>6. TableInv
  BY <1>1 DEF TableInv, UnloadedInv
<1> QED
  BY <1>3, <1>4, <1>5, <1>6 DEF CycInv

LEMMA CycStutter == ASSUME Cyc!IdAssumption, CycInv, UNCHANGED Cyc!vars PROVE CycInv'
<1>1. /\ tmax_ev3cycid' = tmax_ev3cycid /\ cycinib' = cycinib /\ tsk' = tsk /\ act' = act
      /\ cyc' = cyc /\ on' = on /\ slot' = slot /\ apppc' = apppc /\ my' = my /\ new' = new
      /\ given' = given /\ quiet' = quiet /\ dsp' = dsp /\ term' = term /\ k' = k
      /\ deleted' = deleted /\ loads' = loads /\ cut' = cut /\ cycfailed' = cycfailed
      /\ left' = left
  BY DEF Cyc!vars, Cyc!tableVars, Cyc!tskVars, Cyc!cycVars, Cyc!appVars, Cyc!termVars
<1>2. Cyc!TypeOK' /\ PlacesOK'
  BY <1>1 DEF CycInv, Cyc!TypeOK, PlacesOK, Cyc!Ev3CycId
<1>3. SameHolders
  BY <1>1 DEF SameHolders
<1>4. ASSUME ~cut PROVE QuietInv' /\ TableInv'
  <2>1. Stopping' = Stopping /\ \A i : SameHas(i)
    BY <1>1, <1>3, HoldersSame DEF Stopping
  <2>2. QuietInv'
    BY <1>1, <1>4, <2>1 DEF CycInv, QuietInv
  <2>3. NoneInv => NoneInv'
    BY <1>1, <1>3, NoneSame
  <2>4. TermInv => TermInv'
    BY <1>1, <2>1 DEF TermInv, TasksInv, CycsInv, LeftInv, TaskTerminated, SameHas, Cyc!Ev3CycId
  <2>5. UnloadedInv => UnloadedInv'
    BY <1>1 DEF UnloadedInv
  <2> QED
    BY <1>1, <1>4, <2>2, <2>3, <2>4, <2>5 DEF CycInv, TableInv
<1> QED
  BY <1>1, <1>2, <1>4, CycInvAgain

LEMMA CycStep == ASSUME Cyc!IdAssumption, CycInv, [Cyc!Next]_Cyc!vars PROVE CycInv'
<1>1. ASSUME NEW a \in AppTask, Cyc!AppNext(a) PROVE CycInv'
  <2>1. CASE Cyc!Creates(a)
    BY <2>1, CreatesStep
  <2>2. CASE \E id \in Cyc!Ev3CycId : Cyc!Starts(a, id)
    BY <2>2, StartsStep
  <2>3. CASE \E id \in Cyc!Ev3CycId : Cyc!StopCalled(a, id)
    BY <2>3, StopsStep
  <2>4. CASE Cyc!StopStops(a) \/ Cyc!StopCancels(a)
    <3>1. my[a] \in Cyc!Ev3CycId
      BY <2>4, LabelsAre DEF Cyc!StopStops, Cyc!StopCancels, Cyc!At, CycInv, PlacesOK
    <3> QED
      BY <2>4, <3>1, StopsStep
  <2> QED
    BY <1>1, <2>1, <2>2, <2>3, <2>4 DEF Cyc!AppNext
<1>2. CASE Cyc!Load \/ Cyc!TermNext
  BY <1>2, LoadStep, TermStartsStep, TermDelCycStep, TermTerTskStep, TermDelTskStep,
     TermDelAppStep DEF Cyc!TermNext
<1>3. CASE UNCHANGED Cyc!vars
  BY <1>3, CycStutter
<1> QED
  BY <1>1, <1>2, <1>3, FiresStep, TaskReturnsStep DEF Cyc!Next

\* The tasks and cyclic handlers of the kernel against the table, in every state
\* (ev3cyclic_dri.c).
THEOREM CycInvariance == ASSUME Cyc!IdAssumption PROVE CycSpec => []CycInv
<1>1. Cyc!Init => CycInv
  BY CycInitInv
<1>2. CycInv /\ [Cyc!Next]_Cyc!vars => CycInv'
  BY CycStep
<1> QED
  BY <1>1, <1>2, PTL DEF CycSpec, Cyc!Spec

LEMMA CycInvImplies == ASSUME Cyc!IdAssumption, CycInv PROVE Cyc!CyclicsConsistent
<1>1. Cyc!TypeOK
  BY DEF CycInv
<1>2. Cyc!HandlerHasTask
  BY RunsItsTask DEF Cyc!HandlerHasTask
<1>3. Cyc!StoppedIsQuiet
  BY DEF Cyc!StoppedIsQuiet, CycInv, QuietInv
<1>4. Cyc!NothingOutlives
  BY DEF Cyc!NothingOutlives, CycInv, TableInv, UnloadedInv
<1>5. Cyc!AllInTable
  <2>1. SUFFICES
          ASSUME term = "none", ~cut, \A a \in AppTask : apppc[a] \in {"runs", "stops", "cancels"}
          PROVE  LET entries == {cycinib[id] : id \in 1 .. tmax_ev3cycid}
                 IN  /\ tsk = ({e.task : e \in entries} \ {0, Cyc!ErrorCode}) \cup left
                     /\ cyc = {e.cyclic : e \in entries} \ {0, Cyc!ErrorCode}
    BY DEF Cyc!AllInTable
  <2> DEFINE n == tmax_ev3cycid
             entries == {cycinib[id] : id \in 1 .. n}
  <2>2. /\ NoneInv /\ 0 \notin tsk /\ 0 \notin cyc /\ cyc \subseteq CYCID /\ left \subseteq tsk
        /\ Cyc!ErrorCode \notin tsk /\ Cyc!ErrorCode \notin cyc
    BY <2>1, CycTypes DEF CycInv, TableInv, NoneInv, LeftInv
  <2>3. given = 1 .. n
    <3>1. Creating = {}
      BY <2>1 DEF Creating
    <3> QED
      BY <2>2, <3>1 DEF NoneInv, EntriesInv
  <2>4. ASSUME NEW i \in 1 .. n PROVE cycinib[i].task \in tsk \cup {Cyc!ErrorCode}
    BY <2>1, <2>3, GivenHasTask
  <2>5. ASSUME NEW i \in 1 .. n, cycinib[i].cyclic \notin {0, Cyc!ErrorCode}
        PROVE  cycinib[i].cyclic \in cyc
    <3>1. HasCyc(i, cycinib[i].cyclic) /\ cycinib[i].cyclic \in CYCID
      BY <2>3, <2>5, CycTypes DEF HasCyc
    <3> QED
      BY <2>2, <3>1 DEF NoneInv, CycsInv
  <2>6. ASSUME NEW t \in tsk, t \notin left PROVE \E i \in 1 .. n : cycinib[i].task = t
    BY <2>1, <2>2, <2>6 DEF NoneInv, TasksInv, HasTask
  <2>7. ASSUME NEW c \in cyc PROVE \E i \in 1 .. n : cycinib[i].cyclic = c
    BY <2>1, <2>2 DEF NoneInv, CycsInv, HasCyc
  <2>8. tsk = ({e.task : e \in entries} \ {0, Cyc!ErrorCode}) \cup left
    BY <2>2, <2>4, <2>6
  <2>9. cyc = {e.cyclic : e \in entries} \ {0, Cyc!ErrorCode}
    BY <2>2, <2>5, <2>7
  <2> QED
    BY <2>8, <2>9
<1> QED
  BY <1>1, <1>2, <1>3, <1>4, <1>5 DEF Cyc!CyclicsConsistent


-----------------------------------------------------------------------------
(***************************************************************************)
(* The system log is a lossy log, for every size of its buffer and every   *)
(* set of entries.                                                         *)
(***************************************************************************)

\* What a call that records an entry does to a consistent buffer: one that has room
\* appends the entry, a full one drops its oldest entry as well.
LEMMA RecordAppends ==
    ASSUME BufferConsistent, NEW x \in DATA, Record(x)
    PROVE  /\ BufferConsistent'
           /\ Len(Contents(syslog_buffer, SIZE)) = syslog_buffer.count
           /\ syslog_buffer.count < SIZE =>
                /\ Contents(syslog_buffer, SIZE)' = Append(Contents(syslog_buffer, SIZE), x)
                /\ syslog_lost' = syslog_lost
           /\ ~(syslog_buffer.count < SIZE) =>
                /\ Contents(syslog_buffer, SIZE)' = Append(Tail(Contents(syslog_buffer, SIZE)), x)
                /\ syslog_lost' = syslog_lost + 1
<1> DEFINE q == syslog_buffer
<1>1. SIZE \in Nat \ {0} /\ RingOk(q, SIZE) /\ syslog_lost \in Nat
  BY LogAssumption DEF BufferConsistent, SIZE
<1>2. q.count \in 0 .. SIZE /\ Len(Contents(q, SIZE)) = q.count
  BY <1>1, RingFacts
<1>3. syslog_buffer' = ForceEnqueueData(q, SIZE, x) /\ SIZE' = SIZE
  BY DEF Record, SIZE
<1>4. CASE q.count < SIZE
  <2>1. syslog_buffer' = EnqueueData(q, SIZE, x) /\ syslog_lost' = syslog_lost
    BY <1>3, <1>4 DEF ForceEnqueueData, Record
  <2>2. /\ RingOk(EnqueueData(q, SIZE, x), SIZE)
        /\ Contents(EnqueueData(q, SIZE, x), SIZE) = Append(Contents(q, SIZE), x)
    BY <1>1, <1>4, EnqueueAppends
  <2>3. Contents(syslog_buffer, SIZE)' = Contents(syslog_buffer', SIZE)
    BY <1>3
  <2>4. RingOk(syslog_buffer, SIZE)' <=> RingOk(syslog_buffer', SIZE)
    BY <1>3
  <2> QED BY <1>1, <1>2, <1>4, <2>1, <2>2, <2>3, <2>4 DEF BufferConsistent
<1>5. CASE ~(q.count < SIZE)
  <2>1. q.count = SIZE /\ syslog_lost' = syslog_lost + 1
    BY <1>1, <1>2, <1>5 DEF Record
  <2>2. /\ RingOk(ForceEnqueueData(q, SIZE, x), SIZE)
        /\ Contents(ForceEnqueueData(q, SIZE, x), SIZE) = Append(Tail(Contents(q, SIZE)), x)
    BY <1>1, <2>1, ForceEnqueueDropsOldest
  <2>3. Contents(syslog_buffer, SIZE)' = Contents(syslog_buffer', SIZE)
    BY <1>3
  <2>4. RingOk(syslog_buffer, SIZE)' <=> RingOk(syslog_buffer', SIZE)
    BY <1>3
  <2> QED BY <1>1, <1>2, <1>3, <1>5, <2>1, <2>2, <2>3, <2>4 DEF BufferConsistent
<1> QED BY <1>4, <1>5

\* A read takes the oldest entry.
LEMMA ReadTakesOldest ==
    ASSUME BufferConsistent, ReaLog
    PROVE  /\ BufferConsistent'
           /\ Contents(syslog_buffer, SIZE) # <<>>
           /\ Contents(syslog_buffer, SIZE)' = Tail(Contents(syslog_buffer, SIZE))
           /\ rea' = <<Head(Contents(syslog_buffer, SIZE)), syslog_lost>>
           /\ syslog_lost' = 0
<1> DEFINE q == syslog_buffer
<1>1. SIZE \in Nat /\ RingOk(q, SIZE) /\ q.count > 0
  BY LogAssumption DEF BufferConsistent, SIZE, ReaLog
<1>2. /\ syslog_buffer' = DequeueData(q, SIZE) /\ SIZE' = SIZE
      /\ rea' = <<FirstData(q), syslog_lost>> /\ syslog_lost' = 0
  BY DEF ReaLog, SIZE
<1>3. /\ RingOk(DequeueData(q, SIZE), SIZE)
      /\ Contents(q, SIZE) # <<>> /\ FirstData(q) = Head(Contents(q, SIZE))
      /\ Contents(DequeueData(q, SIZE), SIZE) = Tail(Contents(q, SIZE))
  BY <1>1, DequeueTakesOldest
<1>4. /\ Contents(syslog_buffer, SIZE)' = Contents(syslog_buffer', SIZE)
      /\ RingOk(syslog_buffer, SIZE)' <=> RingOk(syslog_buffer', SIZE)
  BY <1>2
<1> QED BY <1>2, <1>3, <1>4 DEF BufferConsistent

-----------------------------------------------------------------------------
\* The empty buffer has no contents.
LEMMA StartsEmpty ==
    ASSUME LogInit
    PROVE  BufferConsistent /\ Contents(syslog_buffer, SIZE) = <<>>
<1>1. SIZE \in Nat \ {0}
  BY LogAssumption DEF SIZE
<1>2. EmptyRing(SIZE).count = 0 /\ EmptyRing(SIZE).head = 0 /\ EmptyRing(SIZE).tail = 0
  BY DEF EmptyRing
<1>3. EmptyRing(SIZE) \in RingType(SIZE)
  BY <1>1 DEF EmptyRing, RingType
<1>4. RingOk(EmptyRing(SIZE), SIZE)
  BY <1>1, <1>2, <1>3 DEF RingOk, Place
<1>5. Contents(EmptyRing(SIZE), SIZE) = <<>>
  BY <1>2 DEF Contents
<1> QED BY <1>4, <1>5 DEF LogInit, BufferConsistent

\* Every step of the log keeps its buffer consistent and is a step of the lossy log,
\* or one that it does not see.
LEMMA StepIsLossy ==
    ASSUME BufferConsistent, [LogNext]_logVars
    PROVE  /\ BufferConsistent'
           /\ [Lossy!Next]_<<Contents(syslog_buffer, SIZE), syslog_lost, rea>>
<1>0. SIZE' = SIZE
  BY DEF SIZE
<1>1. ASSUME UNCHANGED bufVars
      PROVE  /\ BufferConsistent'
             /\ UNCHANGED <<Contents(syslog_buffer, SIZE), syslog_lost, rea>>
  BY <1>0, <1>1 DEF bufVars, BufferConsistent
<1>2. ASSUME NEW x \in DATA, NEW prio \in PRIO, WriLog(x, prio)
      PROVE  /\ BufferConsistent'
             /\ [Lossy!Next]_<<Contents(syslog_buffer, SIZE), syslog_lost, rea>>
  <2>1. CASE prio \in syslog_logmask
    <3>1. Record(x) /\ rea' = rea
      BY <1>2, <2>1 DEF WriLog
    <3>2. Lossy!Write(x)
      BY <3>1, RecordAppends DEF Lossy!Write
    <3> QED BY <3>1, <3>2, RecordAppends DEF Lossy!Next
  <2>2. CASE prio \notin syslog_logmask
    <3>1. UNCHANGED bufVars
      BY <1>2, <2>2 DEF WriLog, bufVars
    <3> QED BY <1>1, <3>1
  <2> QED BY <2>1, <2>2
<1>3. ASSUME ReaLog
      PROVE  /\ BufferConsistent'
             /\ [Lossy!Next]_<<Contents(syslog_buffer, SIZE), syslog_lost, rea>>
  <2>1. Lossy!Read
    BY <1>3, ReadTakesOldest DEF Lossy!Read
  <2> QED BY <1>3, <2>1, ReadTakesOldest DEF Lossy!Next
<1>4. ASSUME NEW mask \in SUBSET PRIO, MskLogFirst(mask) \/ MskLogSecond(mask)
      PROVE  UNCHANGED bufVars
  BY <1>4 DEF MskLogFirst, MskLogSecond
<1>5. CASE UNCHANGED logVars
  BY <1>1, <1>5 DEF logVars
<1> QED BY <1>1, <1>2, <1>3, <1>4, <1>5 DEF LogNext

\* The buffer stays consistent for any size: its head, tail and count agree.
THEOREM LogBufferStaysConsistent == LogSpec => []BufferConsistent
<1>1. LogInit => BufferConsistent
  BY StartsEmpty
<1>2. BufferConsistent /\ [LogNext]_logVars => BufferConsistent'
  BY StepIsLossy
<1> QED BY <1>1, <1>2, PTL DEF LogSpec

\* The system log implements the lossy log: entries come out in the order they went
\* in, only the oldest are lost, and the reader is told of each.
THEOREM LogIsLossyLog == LogSpec => IsLossyLog
<1>1. LogInit => Lossy!Init
  BY StartsEmpty DEF Lossy!Init, LogInit
<1>2. BufferConsistent /\ [LogNext]_logVars
        => [Lossy!Next]_<<Contents(syslog_buffer, SIZE), syslog_lost, rea>>
  BY StepIsLossy
<1> QED
  BY <1>1, <1>2, LogBufferStaysConsistent, PTL DEF LogSpec, IsLossyLog, Lossy!Spec

-----------------------------------------------------------------------------
(***************************************************************************)
(* The log task.  The entries in the log are the last ones recorded: those *)
(* up to Gone have left it, and those after LastRead among them were lost  *)
(* since the last one was read.                                            *)
(***************************************************************************)
InLog == Contents(syslog_buffer, SIZE)
Gone    == written - syslog_buffer.count
LastRead == Gone - syslog_lost
MESSAGE == [entry : Nat, lost : Nat]

\* The numbers in s follow one another after g.
Numbered(s, g) == s \in Seq(Nat) /\ \A i \in 1 .. Len(s) : s[i] = g + i

\* The entries a sequence of messages has to hold once those up to n are read
Wanted(n) == (1 .. n) \ (lostnos \cup hidden)

LtTypeInv ==
    /\ written <= MaxLog /\ hidden \subseteq 1 .. MaxLog
    /\ syslog_logmask \subseteq PRIO /\ syslog_lowmask \subseteq PRIO
    /\ logtask \in {"start", "msk", "rea", "lost", "print", "dly"}
    /\ flush \in {"idle", "ref", "por", "dly"} /\ count \in 0 .. SIZE /\ mark \in 0 .. written
    /\ kernel \in {"running", "terminating", "terminated"}

QueueInv ==
    /\ port \in Seq(MESSAGE) /\ low \in Seq(MESSAGE) /\ lostlog \in Nat
    /\ sent \in 0 .. Len(port) /\ Len(port) - sent <= PORTSIZE
    /\ \A i \in DOMAIN port : port[i].lost <= written

\* The masks, from where the log task is.
MaskInv ==
    IF logtask = "start" THEN syslog_lowmask = PRIO ELSE syslog_logmask = LogUptoNotice

\* Which entries are in the log, which were lost, and which was read last
NumbersInv ==
    /\ BufferConsistent
    /\ written \in Nat /\ syslog_buffer.count \in 0 .. written
    /\ Numbered(InLog, Gone)
    /\ lostnos \subseteq 1 .. Gone
    /\ syslog_lost \in 0 .. Gone
    /\ LastRead + 1 .. Gone \subseteq lostnos
    /\ logbuf \in 0 .. LastRead /\ logbuf \notin lostnos
    /\ Running => logbuf = LastRead

\* What was given to the port, from what the log task has read
PortInv ==
    /\ Printed(port) = Wanted(logbuf) \ InHand
    /\ IsFiniteSet(Told(port))
    /\ Lost(port) + lostlog = Cardinality(lostnos \cap (1 .. logbuf))
    /\ logtask = "print" => lostlog = 0
    /\ logtask \in {"lost", "print"} => logbuf > 0 /\ logbuf \notin hidden
    /\ ToldInPlace

\* What has been put out: a prefix of what the port was given, and after all of it
\* the entries read since.
OutInv ==
    /\ Running => low = <<>>
    /\ \A i \in DOMAIN port : i \in DOMAIN Output => Output[i] = port[i]
    /\ Len(Output) < Len(port) => logbuf = LastRead
    /\ \A i \in DOMAIN Output : Output[i].entry <= LastRead
    /\ Wanted(LastRead) \ (1 .. logbuf) \subseteq Printed(Output)
    /\ InOrder(Output)
    /\ kernel = "terminated" => Len(Output) >= Len(port) /\ syslog_buffer.count = 0

\* The task in logtask_flush looks at the port once the log has let go of every entry
\* it counted.
FlushInv == flush = "por" => mark <= Gone

LogInv == LtTypeInv /\ MaskInv /\ QueueInv /\ NumbersInv /\ PortInv /\ OutInv /\ FlushInv

\* A message more on a sequence of messages: the entry it has is printed as well,
LEMMA PrintsOneMore ==
    ASSUME NEW p \in Seq(MESSAGE), NEW m \in MESSAGE
    PROVE  Printed(Append(p, m)) = Printed(p) \cup ({m.entry} \ {0})
<1>1. /\ DOMAIN Append(p, m) = 1 .. Len(p) + 1 /\ DOMAIN p = 1 .. Len(p) /\ Len(p) \in Nat
      /\ \A i \in 1 .. Len(p) : Append(p, m)[i] = p[i]
      /\ Append(p, m)[Len(p) + 1] = m
  OBVIOUS
<1>2. Range(Append(p, m)) = Range(p) \cup {m}
  <2>1. ASSUME NEW y \in Range(Append(p, m))
        PROVE  y \in Range(p) \cup {m}
    <3>1. PICK i \in 1 .. Len(p) + 1 : y = Append(p, m)[i]
      BY <1>1, <2>1 DEF Range
    <3>2. i \in 1 .. Len(p) \/ i = Len(p) + 1
      BY <1>1
    <3> QED BY <1>1, <3>1, <3>2 DEF Range
  <2>2. ASSUME NEW y \in Range(p)
        PROVE  y \in Range(Append(p, m))
    <3>1. PICK i \in 1 .. Len(p) : y = p[i]
      BY <1>1, <2>2 DEF Range
    <3>2. i \in 1 .. Len(p) + 1 /\ y = Append(p, m)[i]
      BY <1>1, <3>1
    <3> QED BY <1>1, <3>2 DEF Range
  <2>3. m \in Range(Append(p, m))
    <3>1. Len(p) + 1 \in DOMAIN Append(p, m)
      BY <1>1
    <3> QED BY <1>1, <3>1 DEF Range
  <2> QED BY <2>1, <2>2, <2>3
<1> QED BY <1>2 DEF Printed

\* and the losses it tells are told as well.
LEMMA TellsMore ==
    ASSUME NEW p \in Seq(MESSAGE), NEW m \in MESSAGE, IsFiniteSet(Told(p))
    PROVE  /\ IsFiniteSet(Told(Append(p, m)))
           /\ Lost(p) \in Nat
           /\ Lost(Append(p, m)) = Lost(p) + m.lost
<1> DEFINE here == {Len(p) + 1} \X (1 .. m.lost)
<1>1. /\ DOMAIN Append(p, m) = 1 .. Len(p) + 1 /\ DOMAIN p = 1 .. Len(p) /\ Len(p) \in Nat
      /\ \A i \in 1 .. Len(p) : Append(p, m)[i] = p[i]
      /\ Append(p, m)[Len(p) + 1] = m /\ m.lost \in Nat
  BY DEF MESSAGE
<1>2. Told(Append(p, m)) = Told(p) \cup here
  <2>1. ASSUME NEW y \in Told(Append(p, m))
        PROVE  y \in Told(p) \cup here
    <3>1. PICK i \in 1 .. Len(p) + 1 : y \in {i} \X (1 .. Append(p, m)[i].lost)
      BY <1>1, <2>1 DEF Told
    <3>2. CASE i \in 1 .. Len(p)
      BY <1>1, <3>1, <3>2 DEF Told
    <3>3. CASE i = Len(p) + 1
      BY <1>1, <3>1, <3>3
    <3> QED BY <1>1, <3>2, <3>3
  <2>2. ASSUME NEW y \in Told(p)
        PROVE  y \in Told(Append(p, m))
    <3>1. PICK i \in 1 .. Len(p) : y \in {i} \X (1 .. p[i].lost)
      BY <1>1, <2>2 DEF Told
    <3>2. i \in DOMAIN Append(p, m) /\ y \in {i} \X (1 .. Append(p, m)[i].lost)
      BY <1>1, <3>1
    <3> QED BY <3>2 DEF Told
  <2>3. ASSUME NEW y \in here
        PROVE  y \in Told(Append(p, m))
    <3>1. Len(p) + 1 \in DOMAIN Append(p, m)
          /\ y \in {Len(p) + 1} \X (1 .. Append(p, m)[Len(p) + 1].lost)
      BY <1>1, <2>3
    <3> QED BY <3>1 DEF Told
  <2> QED BY <2>1, <2>2, <2>3
<1>3. Told(p) \cap here = {}
  <2>1. ASSUME NEW y \in Told(p), y \in here
        PROVE  FALSE
    <3>1. PICK i \in 1 .. Len(p) : y \in {i} \X (1 .. p[i].lost)
      BY <1>1, <2>1 DEF Told
    <3>2. y[1] = i
      BY <3>1
    <3>3. y[1] = Len(p) + 1
      BY <2>1
    <3> QED BY <1>1, <3>1, <3>2, <3>3
  <2> HIDE DEF here
  <2> QED BY <2>1
<1>4. IsFiniteSet(here) /\ Cardinality(here) = m.lost
  <2>1. IsFiniteSet({Len(p) + 1}) /\ Cardinality({Len(p) + 1}) = 1
    BY FS_Singleton
  <2>2. IsFiniteSet(1 .. m.lost) /\ Cardinality(1 .. m.lost) = m.lost
    <3>1. m.lost \in Int /\ 1 \in Int
      BY <1>1
    <3>2. /\ IsFiniteSet(1 .. m.lost)
          /\ Cardinality(1 .. m.lost) = IF 1 > m.lost THEN 0 ELSE m.lost - 1 + 1
      BY ONLY <3>1, FS_Interval
    <3> QED BY <1>1, <3>2
  <2>3. IsFiniteSet(here) /\ Cardinality(here) = 1 * m.lost
    BY <2>1, <2>2, FS_Product
  <2> QED BY <1>1, <2>3
<1>5. Cardinality({}) = 0 /\ Cardinality(Told(p)) \in Nat
  BY FS_EmptySet, FS_CardinalityType
<1> HIDE DEF here
<1>6. /\ IsFiniteSet(Told(p) \cup here)
      /\ Cardinality(Told(p) \cup here) = Cardinality(Told(p)) + Cardinality(here) - 0
  <2>1. Cardinality(Told(p) \cap here) = 0
    BY <1>3, <1>5
  <2>2. Cardinality(Told(p) \cup here)
          = Cardinality(Told(p)) + Cardinality(here) - Cardinality(Told(p) \cap here)
    BY <1>4, FS_Union
  <2>3. IsFiniteSet(Told(p) \cup here)
    BY <1>4, FS_Union
  <2> QED BY <2>1, <2>2, <2>3
<1> QED BY <1>1, <1>2, <1>4, <1>5, <1>6 DEF Lost

-----------------------------------------------------------------------------
\* ToldInPlace, of a sequence of messages p when the entries in lo were lost and those
\* in hi are not printed
ToldSo(p, lo, hi) ==
    \A i \in DOMAIN p :
        p[i].entry > 0 =>
            /\ Printed(SubSeq(p, 1, i - 1)) = (1 .. p[i].entry - 1) \ (lo \cup hi)
            /\ Lost(SubSeq(p, 1, i - 1)) = Cardinality(lo \cap (1 .. p[i].entry - 1))

\* The messages before the last one, and before one of the others
LEMMA BeforeLast ==
    ASSUME NEW p \in Seq(MESSAGE), NEW m \in MESSAGE
    PROVE  /\ DOMAIN Append(p, m) = DOMAIN p \cup {Len(p) + 1}
           /\ DOMAIN p = 1 .. Len(p)
           /\ Append(p, m)[Len(p) + 1] = m
           /\ SubSeq(Append(p, m), 1, Len(p)) = p
           /\ \A i \in DOMAIN p : /\ Append(p, m)[i] = p[i]
                                  /\ SubSeq(Append(p, m), 1, i - 1) = SubSeq(p, 1, i - 1)
<1>1. /\ DOMAIN Append(p, m) = 1 .. Len(p) + 1 /\ DOMAIN p = 1 .. Len(p) /\ Len(p) \in Nat
      /\ \A i \in 1 .. Len(p) : Append(p, m)[i] = p[i]
      /\ Append(p, m)[Len(p) + 1] = m
  OBVIOUS
<1>2. SubSeq(Append(p, m), 1, Len(p)) = p
  OBVIOUS
<1>3. ASSUME NEW i \in 1 .. Len(p)
      PROVE  SubSeq(Append(p, m), 1, i - 1) = SubSeq(p, 1, i - 1)
  BY <1>1
<1> QED BY <1>1, <1>2, <1>3

\* A message that tells losses alone changes nothing in what comes before an entry.
LEMMA TellsInPlace ==
    ASSUME NEW p \in Seq(MESSAGE), NEW m \in MESSAGE, NEW lo, NEW hi,
           ToldSo(p, lo, hi), m.entry = 0
    PROVE  ToldSo(Append(p, m), lo, hi)
<1>1. ASSUME NEW i \in DOMAIN Append(p, m), Append(p, m)[i].entry > 0
      PROVE  /\ i \in DOMAIN p /\ Append(p, m)[i] = p[i]
             /\ SubSeq(Append(p, m), 1, i - 1) = SubSeq(p, 1, i - 1)
  BY <1>1, BeforeLast
<1> QED BY <1>1 DEF ToldSo

\* An entry is in its place when all those before it are.
LEMMA PrintsInPlace ==
    ASSUME NEW p \in Seq(MESSAGE), NEW m \in MESSAGE, NEW lo, NEW hi, ToldSo(p, lo, hi),
           Printed(p) = (1 .. m.entry - 1) \ (lo \cup hi),
           Lost(p) = Cardinality(lo \cap (1 .. m.entry - 1))
    PROVE  ToldSo(Append(p, m), lo, hi)
<1> DEFINE a == Append(p, m)
<1>1. ASSUME NEW i \in DOMAIN a, a[i].entry > 0
      PROVE  /\ Printed(SubSeq(a, 1, i - 1)) = (1 .. a[i].entry - 1) \ (lo \cup hi)
             /\ Lost(SubSeq(a, 1, i - 1)) = Cardinality(lo \cap (1 .. a[i].entry - 1))
  <2>1. CASE i \in DOMAIN p
    <3>1. a[i] = p[i] /\ SubSeq(a, 1, i - 1) = SubSeq(p, 1, i - 1)
      BY <2>1, BeforeLast
    <3> HIDE DEF a
    <3> QED BY <1>1, <2>1, <3>1 DEF ToldSo
  <2>2. CASE i = Len(p) + 1
    <3>1. a[i] = m /\ SubSeq(a, 1, Len(p)) = p /\ Len(p) \in Nat
      BY <2>2, BeforeLast
    <3>2. i - 1 = Len(p)
      BY <2>2, <3>1
    <3> HIDE DEF a
    <3> QED BY <3>1, <3>2
  <2>3. i \in DOMAIN p \/ i = Len(p) + 1
    BY <1>1, BeforeLast
  <2> HIDE DEF a
  <2> QED BY <2>1, <2>2, <2>3
<1> HIDE DEF a
<1>2. ToldSo(a, lo, hi)
  BY <1>1 DEF ToldSo
<1> QED BY <1>2 DEF a

\* Entries lost that come after those in a sequence change nothing in it.
LEMMA LostLater ==
    ASSUME NEW p \in Seq(MESSAGE), NEW lo, NEW lo2, NEW hi, NEW last \in Nat, ToldSo(p, lo, hi),
           lo \subseteq lo2, \A x \in lo2 : x \in lo \/ x > last,
           \A i \in DOMAIN p : p[i].entry <= last
    PROVE  ToldSo(p, lo2, hi)
<1>1. ASSUME NEW i \in DOMAIN p
      PROVE  /\ (1 .. p[i].entry - 1) \ (lo2 \cup hi) = (1 .. p[i].entry - 1) \ (lo \cup hi)
             /\ lo2 \cap (1 .. p[i].entry - 1) = lo \cap (1 .. p[i].entry - 1)
  <2>0. p[i] \in MESSAGE
    OBVIOUS
  <2>1. p[i].entry \in Nat /\ p[i].entry <= last
    BY <2>0 DEF MESSAGE
  <2>2. ASSUME NEW x \in 1 .. p[i].entry - 1
        PROVE  x \in lo2 <=> x \in lo
    BY <2>1, <2>2
  <2> QED BY <2>2
<1> QED BY <1>1 DEF ToldSo

\* The entries in a sequence where each is told in its place are in order.
LEMMA ToldIsInOrder ==
    ASSUME NEW p \in Seq(MESSAGE), NEW lo, NEW hi, ToldSo(p, lo, hi)
    PROVE  InOrder(p)
<1>1. ASSUME NEW i \in DOMAIN p, NEW j \in DOMAIN p, i < j, p[i].entry > 0, p[j].entry > 0
      PROVE  p[i].entry < p[j].entry
  <2>1. /\ i \in 1 .. Len(p) /\ j \in 1 .. Len(p) /\ Len(p) \in Nat
        /\ p[i] \in MESSAGE /\ p[j] \in MESSAGE
    OBVIOUS
  <2>6. p[i].entry \in Nat /\ p[j].entry \in Nat
    BY <2>1 DEF MESSAGE
  <2>2. /\ DOMAIN SubSeq(p, 1, j - 1) = 1 .. j - 1
        /\ SubSeq(p, 1, j - 1)[i] = p[i] /\ i \in 1 .. j - 1
    BY <1>1, <2>1
  <2>3. p[i] \in Range(SubSeq(p, 1, j - 1))
    BY <2>2 DEF Range
  <2>4. p[i].entry \in Printed(SubSeq(p, 1, j - 1))
    BY <1>1, <2>6, <2>3 DEF Printed
  <2>5. p[i].entry \in 1 .. p[j].entry - 1
    BY <1>1, <2>4 DEF ToldSo
  <2> QED BY <2>6, <2>5
<1> QED BY <1>1 DEF InOrder

-----------------------------------------------------------------------------
\* Numbers that follow one another still do when the next one is appended,
LEMMA NumbersGrow ==
    ASSUME NEW s, NEW g \in Nat, Numbered(s, g), NEW x, x = g + Len(s) + 1
    PROVE  Numbered(Append(s, x), g)
<1>1. s \in Seq(Nat) /\ Len(s) \in Nat /\ x \in Nat
  BY DEF Numbered
<1>2. /\ Append(s, x) \in Seq(Nat) /\ Len(Append(s, x)) = Len(s) + 1
      /\ \A i \in 1 .. Len(s) : Append(s, x)[i] = s[i]
      /\ Append(s, x)[Len(s) + 1] = x
  BY <1>1
<1>3. ASSUME NEW i \in 1 .. Len(s) + 1
      PROVE  Append(s, x)[i] = g + i
  <2>1. CASE i \in 1 .. Len(s)
    BY <1>2, <2>1 DEF Numbered
  <2>2. CASE i = Len(s) + 1
    BY <1>1, <1>2, <2>2
  <2> QED BY <1>1, <2>1, <2>2
<1> QED BY <1>2, <1>3 DEF Numbered

\* and when the first one is taken away.
LEMMA NumbersShrink ==
    ASSUME NEW s, NEW g \in Nat, Numbered(s, g), s # <<>>
    PROVE  /\ Head(s) = g + 1 /\ Numbered(Tail(s), g + 1)
           /\ Len(s) \in Nat \ {0} /\ Len(Tail(s)) = Len(s) - 1
<1>1. s \in Seq(Nat) /\ Len(s) \in Nat \ {0}
  BY DEF Numbered
<1>2. /\ Tail(s) \in Seq(Nat) /\ Len(Tail(s)) = Len(s) - 1 /\ Head(s) = s[1]
      /\ \A i \in 1 .. Len(s) - 1 : Tail(s)[i] = s[i + 1]
  BY <1>1
<1>3. Head(s) = g + 1
  BY <1>1, <1>2 DEF Numbered
<1>4. ASSUME NEW i \in 1 .. Len(s) - 1
      PROVE  Tail(s)[i] = (g + 1) + i
  <2>1. s[i + 1] = g + (i + 1)
    BY <1>1, <1>4 DEF Numbered
  <2> QED BY <1>1, <1>2, <2>1
<1> QED BY <1>1, <1>2, <1>3, <1>4 DEF Numbered

\* The log holds as many entries as it counts.
LEMMA LogLength ==
    BufferConsistent => /\ Len(InLog) = syslog_buffer.count /\ syslog_buffer.count \in 0 .. SIZE
                        /\ SIZE \in Nat \ {0}
<1> SUFFICES ASSUME BufferConsistent
             PROVE  /\ Len(InLog) = syslog_buffer.count /\ syslog_buffer.count \in 0 .. SIZE
                    /\ SIZE \in Nat \ {0}
  OBVIOUS
<1>1. SIZE \in Nat \ {0} /\ RingOk(syslog_buffer, SIZE)
  BY LogAssumption DEF SIZE, BufferConsistent
<1> QED BY <1>1, RingFacts DEF InLog

\* An entry that is recorded is the next one, and one that is lost for it came after
\* the last one read.
LEMMA Recorded ==
    ASSUME NumbersInv, written + 1 \in DATA, Record(written + 1),
           written' = written + 1, UNCHANGED <<logbuf, kernel>>,
           lostnos' = IF syslog_buffer.count < SIZE THEN lostnos
                      ELSE lostnos \cup {FirstData(syslog_buffer)}
    PROVE  /\ NumbersInv' /\ Gone <= Gone' /\ LastRead' = LastRead
           /\ lostnos \subseteq lostnos' /\ \A x \in lostnos' : x \in lostnos \/ x > LastRead
           /\ lostnos' \subseteq 1 .. written'
<1> DEFINE full == ~(syslog_buffer.count < SIZE)
<1>1. /\ BufferConsistent /\ BufferConsistent'
      /\ ~full => InLog' = Append(InLog, written + 1) /\ syslog_lost' = syslog_lost
      /\ full => InLog' = Append(Tail(InLog), written + 1) /\ syslog_lost' = syslog_lost + 1
  BY RecordAppends DEF NumbersInv, InLog
<1>2. /\ Len(InLog) = syslog_buffer.count /\ syslog_buffer.count \in 0 .. SIZE
      /\ SIZE \in Nat \ {0}
  BY <1>1, LogLength
<1>3. Len(InLog') = syslog_buffer'.count
  <2>1. (Len(InLog) = syslog_buffer.count)'
    BY <1>1, LogLength, PTL
  <2> QED BY <2>1
<1>4. /\ written \in Nat /\ Gone \in Nat /\ Numbered(InLog, Gone) /\ syslog_buffer.count \in 0 .. written
      /\ lostnos \subseteq 1 .. Gone /\ syslog_lost \in 0 .. Gone
      /\ LastRead + 1 .. Gone \subseteq lostnos /\ logbuf \in 0 .. LastRead /\ logbuf \notin lostnos
      /\ Gone + syslog_buffer.count = written /\ LastRead + syslog_lost = Gone /\ LastRead \in Nat
  BY DEF NumbersInv, Gone, LastRead
<1>9. /\ written \in Nat /\ Gone \in Nat /\ syslog_buffer.count \in Nat /\ written = Gone + syslog_buffer.count
      /\ lostnos \subseteq 1 .. Gone
  BY <1>4
<1>5. /\ Gone' = written' - syslog_buffer'.count /\ LastRead' = Gone' - syslog_lost'
      /\ Running' <=> Running
  BY DEF Gone, LastRead, Running
<1>6. Running => logbuf = LastRead
  BY DEF NumbersInv
<1>7. CASE ~full
  <2>1. Numbered(InLog', Gone)
    BY <1>1, <1>2, <1>4, <1>7, NumbersGrow
  <2>2. Len(InLog') = Len(InLog) + 1
    BY <1>1, <1>4, <1>7 DEF Numbered
  <2>3. syslog_buffer'.count = syslog_buffer.count + 1 /\ syslog_lost' = syslog_lost
        /\ lostnos' = lostnos
    BY <1>1, <1>2, <1>3, <1>7, <2>2
  <2>5. Gone' = Gone /\ LastRead' = LastRead /\ written' \in Nat /\ syslog_buffer'.count \in 0 .. written'
    <3>1. written' = written + 1 /\ Gone' = written' - (syslog_buffer.count + 1)
      BY <1>5, <2>3
    <3>2. Gone' = Gone
      BY <1>9, <3>1
    <3>3. LastRead' = LastRead
      BY <1>4, <1>5, <2>3, <3>2
    <3>4. written' \in Nat /\ syslog_buffer'.count \in 0 .. written'
      BY <1>4, <2>3, <3>1
    <3> QED BY <3>2, <3>3, <3>4
  <2>6. lostnos' \subseteq 1 .. written'
    <3>1. Gone \in 0 .. written'
      BY <1>9
    <3>2. 1 .. Gone \subseteq 1 .. written'
      BY <3>1
    <3> QED BY <1>9, <2>3, <3>2
  <2>4. NumbersInv'
    BY <1>1, <1>4, <1>5, <1>6, <2>1, <2>3, <2>5 DEF NumbersInv
  <2> QED BY <1>4, <2>3, <2>4, <2>5, <2>6
<1>8. CASE full
  <2>1. syslog_buffer.count = SIZE /\ InLog # <<>> /\ syslog_buffer.count > 0
    BY <1>2, <1>8
  <2>2. /\ Head(InLog) = Gone + 1 /\ Numbered(Tail(InLog), Gone + 1)
        /\ Len(Tail(InLog)) = Len(InLog) - 1
    BY <1>4, <2>1, NumbersShrink
  <2>3. Numbered(InLog', Gone + 1)
    <3>1. written + 1 = (Gone + 1) + Len(Tail(InLog)) + 1
      <4> DEFINE length == Len(Tail(InLog))
      <4>1. length = syslog_buffer.count - 1
        BY <1>2, <2>2
      <4> HIDE DEF length
      <4>2. written + 1 = (Gone + 1) + length + 1
        BY <1>9, <4>1
      <4> QED BY <4>2 DEF length
    <3>2. Gone + 1 \in Nat /\ InLog' = Append(Tail(InLog), written + 1)
      BY <1>1, <1>4, <1>8
    <3> QED BY <2>2, <3>1, <3>2, NumbersGrow
  <2>4. Len(InLog') = Len(InLog)
    <3>1. Tail(InLog) \in Seq(Nat)
      BY <2>2 DEF Numbered
    <3>2. Len(InLog') = Len(Tail(InLog)) + 1
      BY <1>1, <1>8, <3>1
    <3> QED BY <1>2, <2>2, <3>2
  <2>5. FirstData(syslog_buffer) = Gone + 1
    <3>1. RingOk(syslog_buffer, SIZE)
      BY <1>1 DEF BufferConsistent
    <3>2. FirstData(syslog_buffer) = Head(InLog)
      BY <1>2, <2>1, <3>1, DequeueTakesOldest DEF InLog
    <3> QED BY <2>2, <3>2
  <2>6. /\ Gone' = Gone + 1 /\ LastRead' = LastRead /\ lostnos' = lostnos \cup {Gone + 1}
        /\ syslog_lost' = syslog_lost + 1 /\ written' \in Nat /\ syslog_buffer'.count \in 0 .. written'
    <3>1. syslog_buffer'.count = syslog_buffer.count /\ syslog_lost' = syslog_lost + 1
          /\ lostnos' = lostnos \cup {Gone + 1}
      BY <1>1, <1>2, <1>3, <1>8, <2>4, <2>5
    <3> QED BY <1>4, <1>5, <3>1
  <2>7. /\ lostnos' \subseteq 1 .. Gone' /\ LastRead' + 1 .. Gone' \subseteq lostnos'
        /\ logbuf \notin lostnos'
    <3>1. lostnos' \subseteq 1 .. Gone'
      <4>1. 1 .. Gone \subseteq 1 .. Gone + 1 /\ Gone + 1 \in 1 .. Gone + 1
        BY <1>9
      <4> QED BY <1>9, <2>6, <4>1
    <3>2. LastRead' + 1 .. Gone' \subseteq lostnos'
      BY <1>4, <2>6
    <3>3. logbuf # Gone + 1
      BY <1>4
    <3> QED BY <1>4, <2>6, <3>1, <3>2, <3>3
  <2>8. NumbersInv'
    <3>1. BufferConsistent' /\ logbuf' = logbuf
      BY <1>1, <1>4
    <3>2. Numbered(InLog', Gone')
      BY <2>3, <2>6
    <3>3. syslog_lost' \in 0 .. Gone'
      <4>1. syslog_lost \in 0 .. Gone /\ Gone \in Nat
        BY <1>1, <1>9 DEF NumbersInv
      <4> QED BY <2>6, <4>1
    <3>4. logbuf' \in 0 .. LastRead' /\ logbuf' \notin lostnos'
      BY <1>4, <2>6, <2>7, <3>1
    <3>5. Running' => logbuf' = LastRead'
      BY <1>5, <1>6, <2>6, <3>1
    <3> QED BY <2>6, <2>7, <3>1, <3>2, <3>3, <3>4, <3>5 DEF NumbersInv
  <2>9. \A x \in lostnos' : x \in lostnos \/ x > LastRead
    BY <1>4, <2>6
  <2>10. lostnos' \subseteq 1 .. written'
    <3>1. Gone + 1 \in 1 .. written'
      <4>1. syslog_buffer.count \in Nat \ {0}
        BY <1>4, <2>1
      <4> QED BY <1>9, <4>1
    <3>2. 1 .. Gone \subseteq 1 .. written'
      BY <1>9
    <3> QED BY <1>9, <2>6, <3>1, <3>2
  <2> QED BY <1>4, <2>6, <2>8, <2>9, <2>10
<1> QED BY <1>7, <1>8

\* An entry that is read is the first one still in the log.
LEMMA Fetched ==
    ASSUME NumbersInv, ReaLog, UNCHANGED <<written, lostnos>>
    PROVE  /\ rea'[1] = Gone + 1 /\ rea'[2] = syslog_lost /\ syslog_lost' = 0
           /\ Gone' = Gone + 1 /\ LastRead' = Gone + 1 /\ Gone + 1 \in 1 .. written
           /\ Gone + 1 \notin lostnos
           /\ logbuf' = Gone + 1 \/ (logbuf' = logbuf /\ ~Running') => NumbersInv'
<1>1. /\ BufferConsistent /\ BufferConsistent' /\ InLog # <<>> /\ InLog' = Tail(InLog)
      /\ rea' = <<Head(InLog), syslog_lost>> /\ syslog_lost' = 0
  BY ReadTakesOldest DEF NumbersInv, InLog
<1>2. /\ Len(InLog) = syslog_buffer.count /\ syslog_buffer.count \in 0 .. SIZE
      /\ SIZE \in Nat \ {0}
  BY <1>1, LogLength
<1>3. Len(InLog') = syslog_buffer'.count
  <2>1. (Len(InLog) = syslog_buffer.count)'
    BY <1>1, LogLength, PTL
  <2> QED BY <2>1
<1>4. /\ written \in Nat /\ Gone \in Nat /\ Numbered(InLog, Gone) /\ syslog_buffer.count \in 0 .. written
      /\ lostnos \subseteq 1 .. Gone /\ syslog_lost \in 0 .. Gone
      /\ logbuf \in 0 .. LastRead /\ logbuf \notin lostnos
      /\ Gone + syslog_buffer.count = written /\ LastRead + syslog_lost = Gone /\ LastRead \in Nat
  BY DEF NumbersInv, Gone, LastRead
<1>5. /\ Head(InLog) = Gone + 1 /\ Numbered(Tail(InLog), Gone + 1)
      /\ Len(InLog) \in Nat \ {0} /\ Len(Tail(InLog)) = Len(InLog) - 1
  BY <1>1, <1>4, NumbersShrink
<1>6. /\ Gone' = written' - syslog_buffer'.count /\ LastRead' = Gone' - syslog_lost'
  BY DEF Gone, LastRead
<1>7. /\ Gone' = Gone + 1 /\ LastRead' = Gone + 1 /\ Gone + 1 \in 1 .. written
      /\ written' \in Nat /\ syslog_buffer'.count \in 0 .. written'
  <2>1. syslog_buffer'.count = syslog_buffer.count - 1 /\ syslog_buffer.count \in Nat \ {0}
    BY <1>1, <1>2, <1>3, <1>5
  <2> QED BY <1>1, <1>4, <1>6, <2>1
<1>8. Gone + 1 \notin lostnos
  BY <1>4
<1>9. ASSUME logbuf' = Gone + 1 \/ (logbuf' = logbuf /\ ~Running')
      PROVE  NumbersInv'
  <2>1. lostnos' \subseteq 1 .. Gone' /\ LastRead' + 1 .. Gone' = {} /\ syslog_lost' \in 0 .. Gone'
    BY <1>1, <1>4, <1>7
  <2>2. logbuf' \in 0 .. LastRead' /\ logbuf' \notin lostnos' /\ (Running' => logbuf' = LastRead')
    BY <1>4, <1>7, <1>8, <1>9
  <2> QED BY <1>1, <1>5, <1>7, <2>1, <2>2 DEF NumbersInv
<1> QED BY <1>1, <1>5, <1>7, <1>8, <1>9

\* The entries stay as they are when the log does.
LEMMA NumbersKept ==
    ASSUME NumbersInv, UNCHANGED <<syslog_buffer, syslog_lost, written, lostnos, logbuf>>,
           Running' => Running
    PROVE  NumbersInv' /\ Gone' = Gone /\ LastRead' = LastRead
<1>1. Gone' = Gone /\ LastRead' = LastRead /\ InLog' = InLog /\ BufferConsistent'
  BY DEF Gone, LastRead, InLog, BufferConsistent, NumbersInv, SIZE
<1> QED BY <1>1 DEF NumbersInv

-----------------------------------------------------------------------------
\* Of the entries lost up to g, those after l, which all were, and the others
LEMMA LostSplit ==
    ASSUME NEW g \in Nat, NEW l \in 0 .. g, NEW lo \in SUBSET (1 .. g), l + 1 .. g \subseteq lo
    PROVE  IsFiniteSet(lo) /\ Cardinality(lo) = Cardinality(lo \cap (1 .. l)) + (g - l)
           /\ Cardinality(lo) \in 0 .. g
<1>1. /\ IsFiniteSet(1 .. g) /\ Cardinality(1 .. g) = g
      /\ IsFiniteSet(l + 1 .. g) /\ Cardinality(l + 1 .. g) = g - l
  <2>1. /\ 1 \in Int /\ g \in Int /\ l + 1 \in Int
        /\ (IF 1 > g THEN 0 ELSE g - 1 + 1) = g
        /\ (IF l + 1 > g THEN 0 ELSE g - (l + 1) + 1) = g - l
    OBVIOUS
  <2>2. /\ IsFiniteSet(1 .. g)
        /\ Cardinality(1 .. g) = IF 1 > g THEN 0 ELSE g - 1 + 1
    BY ONLY <2>1, FS_Interval
  <2>3. /\ IsFiniteSet(l + 1 .. g)
        /\ Cardinality(l + 1 .. g) = IF l + 1 > g THEN 0 ELSE g - (l + 1) + 1
    BY ONLY <2>1, FS_Interval
  <2> QED BY <2>1, <2>2, <2>3
<1>2. IsFiniteSet(lo) /\ Cardinality(lo) <= g /\ Cardinality(lo) \in Nat
  <2>1. IsFiniteSet(lo) /\ Cardinality(lo) <= Cardinality(1 .. g)
    BY <1>1, FS_Subset
  <2> QED BY <1>1, <2>1, FS_CardinalityType
<1>3. IsFiniteSet(lo \cap (1 .. l)) /\ Cardinality(lo \cap (1 .. l)) \in Nat
  BY <1>2, FS_Subset, FS_CardinalityType
<1>4. (lo \cap (1 .. l)) \cap (l + 1 .. g) = {} /\ (lo \cap (1 .. l)) \cup (l + 1 .. g) = lo
  <2>1. ASSUME NEW x \in lo
        PROVE  x \in 1 .. l \/ x \in l + 1 .. g
    OBVIOUS
  <2>2. ASSUME NEW x \in 1 .. l
        PROVE  x \notin l + 1 .. g
    OBVIOUS
  <2> QED BY <2>1, <2>2
<1>5. Cardinality({}) = 0
  BY FS_EmptySet
<1>6. Cardinality((lo \cap (1 .. l)) \cup (l + 1 .. g))
        = Cardinality(lo \cap (1 .. l)) + Cardinality(l + 1 .. g)
            - Cardinality((lo \cap (1 .. l)) \cap (l + 1 .. g))
  BY <1>1, <1>3, FS_Union
<1>7. Cardinality(lo) = Cardinality(lo \cap (1 .. l)) + (g - l) - 0
  BY <1>1, <1>4, <1>5, <1>6
<1> QED BY <1>2, <1>3, <1>7

\* What the numbers come to: plain facts of NumbersInv
LEMMA NumberFacts ==
    NumbersInv => /\ Gone \in Nat /\ LastRead \in 0 .. Gone /\ syslog_lost = Gone - LastRead
                  /\ logbuf \in 0 .. LastRead /\ logbuf \notin lostnos
                  /\ lostnos \in SUBSET (1 .. Gone) /\ LastRead + 1 .. Gone \subseteq lostnos
                  /\ syslog_lost \in Nat
                  /\ Gone <= written
<1> SUFFICES ASSUME NumbersInv
             PROVE  /\ Gone \in Nat /\ LastRead \in 0 .. Gone /\ syslog_lost = Gone - LastRead
                    /\ logbuf \in 0 .. LastRead /\ logbuf \notin lostnos
                    /\ lostnos \in SUBSET (1 .. Gone) /\ LastRead + 1 .. Gone \subseteq lostnos
                    /\ syslog_lost \in Nat
                    /\ Gone <= written
  OBVIOUS
<1>1. Gone \in Nat /\ Gone <= written
  BY DEF NumbersInv, Gone
<1>2. syslog_lost \in 0 .. Gone
  BY DEF NumbersInv
<1>3. LastRead \in 0 .. Gone /\ syslog_lost = Gone - LastRead
  BY <1>1, <1>2 DEF LastRead
<1> QED BY <1>1, <1>2, <1>3 DEF NumbersInv

\* The places of the messages on the port are told so.
LEMMA ToldIsToldSo == ToldInPlace <=> ToldSo(port, lostnos, hidden)
  BY DEF ToldInPlace, ToldSo

\* The log task never tells more losses than there are.
LEMMA LossesBounded ==
    PortInv /\ NumbersInv /\ lostlog \in Nat => lostlog \in 0 .. written
<1> SUFFICES ASSUME PortInv, NumbersInv, lostlog \in Nat
             PROVE  lostlog <= written
  OBVIOUS
<1>1. Lost(port) \in Nat
  BY FS_CardinalityType DEF PortInv, Lost
<1>2. Gone \in Nat /\ logbuf \in 0 .. Gone /\ Gone <= written
  BY NumberFacts
<1>3. /\ lostnos \cap (1 .. logbuf) \in SUBSET (1 .. logbuf)
      /\ logbuf + 1 .. logbuf \subseteq lostnos \cap (1 .. logbuf)
  BY <1>2
<1>4. Cardinality(lostnos \cap (1 .. logbuf)) \in 0 .. logbuf
  BY <1>2, <1>3, LostSplit
<1>5. Lost(port) + lostlog = Cardinality(lostnos \cap (1 .. logbuf))
  BY DEF PortInv
<1> HIDE DEF PortInv
<1>6. written \in Nat
  BY DEF NumbersInv
<1>7. Cardinality(lostnos \cap (1 .. logbuf)) <= written
  BY <1>2, <1>4, <1>6
<1> QED BY <1>1, <1>5, <1>6, <1>7

\* What is on the port are entries wanted, up to the last one read.
LEMMA PortEntries ==
    QueueInv /\ NumbersInv /\ PortInv =>
        /\ \A i \in DOMAIN port : port[i].entry \in 0 .. logbuf
        /\ InOrder(port)
<1> SUFFICES ASSUME QueueInv, NumbersInv, PortInv
             PROVE  /\ \A i \in DOMAIN port : port[i].entry \in 0 .. logbuf
                    /\ InOrder(port)
  OBVIOUS
<1>1. port \in Seq(MESSAGE) /\ logbuf \in Nat
  BY NumberFacts DEF QueueInv
<1>2. ASSUME NEW i \in DOMAIN port
      PROVE  port[i].entry \in 0 .. logbuf
  <2>1. port[i] \in MESSAGE
    BY <1>1
  <2>2. port[i].entry \in Nat
    BY <2>1 DEF MESSAGE
  <2>3. port[i].entry # 0 => port[i].entry \in Printed(port)
    BY DEF Printed, Range
  <2>4. Printed(port) \subseteq 1 .. logbuf
    BY DEF PortInv, Wanted
  <2> QED BY <1>1, <2>2, <2>3, <2>4
<1>3. ToldSo(port, lostnos, hidden)
  BY ToldIsToldSo DEF PortInv
<1>4. InOrder(port)
  BY <1>1, <1>3, ToldIsInOrder
<1> QED BY <1>2, <1>4

\* While the system runs what has left the port is all that was put out.
LEMMA OutWhileRunning ==
    QueueInv /\ NumbersInv /\ PortInv /\ Running /\ low = <<>> => OutInv
<1> SUFFICES ASSUME QueueInv, NumbersInv, PortInv, Running, low = <<>>
             PROVE  OutInv
  OBVIOUS
<1>1. port \in Seq(MESSAGE) /\ sent \in 0 .. Len(port) /\ Len(port) \in Nat
  BY DEF QueueInv
<1>2. /\ Output = SubSeq(port, 1, sent) /\ DOMAIN Output = 1 .. sent /\ Len(Output) = sent
      /\ \A i \in 1 .. sent : Output[i] = port[i]
  BY <1>1 DEF Output
<1>3. /\ \A i \in DOMAIN port : port[i].entry \in 0 .. logbuf
      /\ InOrder(port)
  BY PortEntries
<1>4. logbuf = LastRead
  BY DEF NumbersInv
<1>5. DOMAIN Output \subseteq DOMAIN port
  BY <1>1, <1>2
<1>6. InOrder(Output)
  BY <1>2, <1>3, <1>5 DEF InOrder
<1>7. \A i \in DOMAIN Output : Output[i].entry <= LastRead
  <2>1. ASSUME NEW i \in DOMAIN Output
        PROVE  Output[i].entry <= LastRead
    <3>1. port[i].entry \in 0 .. logbuf /\ Output[i] = port[i]
      BY <1>2, <1>3, <1>5
    <3> QED BY <1>4, <3>1, NumberFacts
  <2> QED BY <2>1
<1>8. Wanted(LastRead) \ (1 .. logbuf) = {}
  BY <1>4 DEF Wanted
<1>9. kernel # "terminated"
  BY DEF Running
<1> QED BY <1>2, <1>4, <1>5, <1>6, <1>7, <1>8, <1>9 DEF OutInv

-----------------------------------------------------------------------------
\* What the port was given stays in its place when neither changes.
LEMMA PortKept ==
    ASSUME PortInv, UNCHANGED <<port, lostnos, hidden, logbuf, lostlog>>,
           \/ logtask' = logtask
           \/ logtask \notin {"lost", "print"} /\ logtask' \notin {"lost", "print"}
    PROVE  PortInv'
<1>1. InHand' = InHand /\ Wanted(logbuf)' = Wanted(logbuf)
  BY DEF InHand, Wanted
<1>2. ToldInPlace' <=> ToldInPlace
  BY DEF ToldInPlace
<1>3. Printed(port)' = Printed(port) /\ Told(port)' = Told(port) /\ Lost(port)' = Lost(port)
  BY DEF Printed, Told, Lost
<1> QED BY <1>1, <1>2, <1>3 DEF PortInv

\* So does what was put out.
LEMMA OutKept ==
    ASSUME OutInv, UNCHANGED <<port, sent, low, logbuf, lostnos, hidden>>, LastRead' = LastRead,
           Running' => Running,
           kernel' = "terminated" => Len(Output) >= Len(port) /\ syslog_buffer.count' = 0
    PROVE  OutInv'
<1>1. /\ Output' = Output /\ Wanted(LastRead)' = Wanted(LastRead)
      /\ InOrder(Output)' = InOrder(Output) /\ Printed(Output)' = Printed(Output)
  BY DEF Output, Wanted, InOrder, Printed
<1> QED BY <1>1 DEF OutInv

\* A step while the system runs puts out nothing but what leaves the port.
LEMMA RunningStep ==
    ASSUME LogInv, Running, Running', low' = low, LtTypeInv', MaskInv', QueueInv',
           NumbersInv', PortInv', FlushInv'
    PROVE  LogInv'
<1>1. (low = <<>>)'
  BY DEF LogInv, OutInv
<1>2. OutInv'
  BY <1>1, OutWhileRunning, PTL
<1> QED BY <1>2 DEF LogInv

\* The messages on the port tell no more losses than entries were recorded.
LEMMA QueueGrows ==
    ASSUME QueueInv, NEW m \in MESSAGE, Put(m), m.lost <= written, lostlog' \in Nat,
           UNCHANGED <<low, sent, written>>, written \in Nat
    PROVE  QueueInv'
<1>1. /\ port \in Seq(MESSAGE) /\ sent \in 0 .. Len(port) /\ Len(port) \in Nat
      /\ Len(port) - sent < PORTSIZE /\ port' = Append(port, m) /\ PORTSIZE \in Nat
  BY EntryAssumption DEF QueueInv, Put
<1>2. port' \in Seq(MESSAGE) /\ Len(port') = Len(port) + 1
  BY <1>1
<1>3. Len(port') - sent <= PORTSIZE /\ sent \in 0 .. Len(port')
  BY <1>1, <1>2
<1>4. \A i \in DOMAIN port' : port'[i].lost <= written
  <2>1. ASSUME NEW i \in DOMAIN port'
        PROVE  port'[i].lost <= written
    <3>1. port'[i] = m \/ (i \in DOMAIN port /\ port'[i] = port[i])
      BY <1>1, BeforeLast
    <3> QED BY <3>1 DEF QueueInv
  <2> QED BY <2>1
<1> QED BY <1>2, <1>3, <1>4 DEF QueueInv

\* An entry is logged.
LEMMA WritesKeep ==
    ASSUME LogInv, NEW prio \in PRIO, Writes(prio)
    PROVE  LogInv'
<1>1. /\ Running /\ Running' /\ LtTypeInv /\ MaskInv /\ QueueInv /\ NumbersInv /\ PortInv /\ FlushInv
      /\ prio \in syslog_logmask => written < MaxLog
      /\ UNCHANGED <<hidden, port, sent, low, flush, count, mark, kernel, logtask, logbuf, lostlog>>
      /\ UNCHANGED <<syslog_logmask, syslog_lowmask>>
  BY DEF LogInv, Writes, Log, WriLog, Running, flushVars, ltVars, maskVars
<1>2. MaskInv'
  BY <1>1 DEF MaskInv
<1>3. CASE prio \in syslog_logmask
  <2>1. /\ Record(written + 1) /\ written' = written + 1
        /\ lostnos' = IF syslog_buffer.count < SIZE THEN lostnos
                      ELSE lostnos \cup {FirstData(syslog_buffer)}
    BY <1>3 DEF Writes, Log, WriLog
  <2>2. written \in Nat /\ written + 1 \in DATA
    BY <1>1, <1>3, EntryAssumption DEF NumbersInv
  <2>3. /\ NumbersInv' /\ Gone <= Gone' /\ LastRead' = LastRead
        /\ lostnos \subseteq lostnos' /\ \A x \in lostnos' : x \in lostnos \/ x > LastRead
    BY <1>1, <2>1, <2>2, Recorded
  <2>4. LtTypeInv'
    BY <1>1, <1>3, <2>1, <2>2, EntryAssumption DEF LtTypeInv, SIZE
  <2>5. QueueInv'
    <3>1. ASSUME NEW i \in DOMAIN port
          PROVE  port[i].lost <= written + 1
      <4>1. port[i] \in MESSAGE /\ port[i].lost <= written
        BY <1>1 DEF QueueInv
      <4> QED BY <2>2, <4>1 DEF MESSAGE
    <3> QED BY <1>1, <2>1, <3>1 DEF QueueInv
  <2>6. Gone' \in Nat /\ Gone \in Nat /\ LastRead \in Nat /\ logbuf \in Nat /\ logbuf = LastRead
    <3>1. Gone \in Nat /\ LastRead \in 0 .. Gone /\ logbuf \in 0 .. LastRead
      BY <1>1, NumberFacts
    <3>2. (Gone \in Nat)'
      BY <2>3, NumberFacts, PTL
    <3> QED BY <1>1, <3>1, <3>2 DEF NumbersInv
  <2>7. FlushInv'
    <3>1. mark \in Nat
      BY <1>1, <2>2 DEF LtTypeInv
    <3> QED BY <1>1, <2>3, <2>6, <3>1 DEF FlushInv
  <2>8. PortInv'
    <3>1. ASSUME NEW x \in 1 .. logbuf
          PROVE  x \in lostnos' <=> x \in lostnos
      BY <2>3, <2>6
    <3>2. Wanted(logbuf)' = Wanted(logbuf) /\ lostnos' \cap (1 .. logbuf) = lostnos \cap (1 .. logbuf)
      BY <1>1, <3>1 DEF Wanted
    <3>3. /\ InHand' = InHand /\ Printed(port)' = Printed(port) /\ Told(port)' = Told(port)
          /\ Lost(port)' = Lost(port)
      BY <1>1 DEF InHand, Printed, Told, Lost
    <3>4. ToldSo(port, lostnos', hidden)
      <4>1. \A i \in DOMAIN port : port[i].entry <= logbuf
        BY <1>1, <2>6, PortEntries
      <4>2. ToldSo(port, lostnos, hidden) /\ port \in Seq(MESSAGE)
        BY <1>1, ToldIsToldSo DEF PortInv, QueueInv
      <4>3. \A x \in lostnos' : x \in lostnos \/ x > logbuf
        BY <2>3, <2>6
      <4> QED BY <2>3, <2>6, <4>1, <4>2, <4>3, LostLater
    <3>5. ToldInPlace'
      BY <1>1, <3>4 DEF ToldInPlace, ToldSo
    <3> QED BY <1>1, <3>2, <3>3, <3>5 DEF PortInv
  <2> QED BY <1>1, <1>2, <2>3, <2>4, <2>5, <2>7, <2>8, RunningStep
<1>4. CASE prio \notin syslog_logmask
  <2>1. UNCHANGED <<syslog_buffer, syslog_lost, written, lostnos>>
    BY <1>4 DEF Writes, Log, WriLog
  <2>2. NumbersInv' /\ Gone' = Gone
    BY <1>1, <2>1, NumbersKept
  <2>3. PortInv'
    BY <1>1, <2>1, PortKept
  <2>4. LtTypeInv' /\ QueueInv' /\ FlushInv'
    BY <1>1, <2>1, <2>2 DEF LtTypeInv, QueueInv, FlushInv, SIZE
  <2> QED BY <1>1, <1>2, <2>2, <2>3, <2>4, RunningStep
<1> QED BY <1>3, <1>4

\* The log task sets the masks.
LEMMA StartsKeep == ASSUME LogInv, LtStarts PROVE LogInv'
<1>1. /\ Running /\ Running' /\ LtTypeInv /\ MaskInv /\ QueueInv /\ NumbersInv /\ PortInv /\ FlushInv
      /\ UNCHANGED <<syslog_buffer, syslog_lost, written, lostnos, hidden, port, sent, low, flush,
                     count, mark, kernel, logbuf, lostlog>>
      /\ \/ logtask = "start" /\ logtask' = "msk" /\ syslog_logmask' = LogUptoNotice
              /\ syslog_lowmask' = syslog_lowmask
         \/ logtask = "msk" /\ logtask' = "rea" /\ syslog_lowmask' = LogUptoEmerg
              /\ syslog_logmask' = syslog_logmask
  BY DEF LogInv, LtStarts, MskLogFirst, MskLogSecond, bufVars, flushVars, Running
<1>2. NumbersInv' /\ Gone' = Gone
  BY <1>1, NumbersKept
<1>3. PortInv'
  BY <1>1, PortKept
<1>4. MaskInv'
  BY <1>1 DEF MaskInv
<1>5. LtTypeInv' /\ QueueInv' /\ FlushInv'
  BY <1>1, <1>2, EntryAssumption DEF LtTypeInv, QueueInv, FlushInv, SIZE
<1> QED BY <1>1, <1>2, <1>3, <1>4, <1>5, RunningStep

\* The log task reads an entry.
LEMMA ReadsKeep == ASSUME LogInv, LtReads PROVE LogInv'
<1> DEFINE g == Gone + 1
<1>1. /\ Running /\ Running' /\ LtTypeInv /\ MaskInv /\ QueueInv /\ NumbersInv /\ PortInv /\ FlushInv
      /\ logtask = "rea" /\ ReaLog
      /\ UNCHANGED <<syslog_logmask, syslog_lowmask, written, lostnos, hidden, port, sent, low,
                     flush, count, mark, kernel>>
      /\ logbuf' = rea'[1] /\ lostlog' = lostlog + rea'[2]
      /\ logtask' = IF logbuf' \in hidden THEN "rea" ELSE IF lostlog' > 0 THEN "lost" ELSE "print"
  BY DEF LogInv, LtReads, ReaLog, maskVars, flushVars, Running
<1>2. /\ logbuf' = g /\ lostlog' = lostlog + syslog_lost /\ g \in 1 .. written /\ g \notin lostnos
      /\ NumbersInv' /\ Gone' = g
  BY <1>1, Fetched
<1>3. /\ Gone \in Nat /\ LastRead \in 0 .. Gone /\ syslog_lost = Gone - LastRead
      /\ logbuf = LastRead /\ lostnos \in SUBSET (1 .. Gone) /\ LastRead + 1 .. Gone \subseteq lostnos
      /\ syslog_lost \in Nat /\ lostlog \in Nat
  BY <1>1, NumberFacts DEF NumbersInv, QueueInv
<1> HIDE DEF g
<1>4. g \in Nat /\ g = Gone + 1 /\ lostlog' \in Nat
  BY <1>2, <1>3 DEF g
<1>5. PortInv'
  <2>1. Printed(port)' = Printed(port) /\ Told(port)' = Told(port) /\ Lost(port)' = Lost(port)
    BY <1>1 DEF Printed, Told, Lost
  <2>2. Printed(port) = Wanted(logbuf)
    BY <1>1 DEF PortInv, InHand
  <2>3. InHand' = IF g \in hidden THEN {} ELSE {g}
    BY <1>1, <1>2 DEF InHand
  <2>4. Wanted(logbuf)' = (1 .. g) \ (lostnos \cup hidden)
    BY <1>1, <1>2 DEF Wanted
  <2>5. Printed(port)' = Wanted(logbuf)' \ InHand'
    <3>1. ASSUME NEW x \in 1 .. g
          PROVE  x \in 1 .. LastRead \/ x \in lostnos \/ x = g
      BY <1>3, <1>4
    <3>2. 1 .. LastRead \subseteq 1 .. g /\ g \notin 1 .. LastRead
      BY <1>3, <1>4
    <3>3. Wanted(logbuf) = (1 .. LastRead) \ (lostnos \cup hidden)
      BY <1>3 DEF Wanted
    <3>4. CASE g \in hidden
      <4>1. InHand' = {}
        BY <2>3, <3>4
      <4> QED BY <2>1, <2>2, <2>4, <3>1, <3>2, <3>3, <3>4, <4>1
    <3>5. CASE g \notin hidden
      <4>1. InHand' = {g}
        BY <2>3, <3>5
      <4> QED BY <2>1, <2>2, <2>4, <3>1, <3>2, <3>3, <3>5, <4>1
    <3> QED BY <3>4, <3>5
  <2>6. Lost(port)' + lostlog' = Cardinality(lostnos \cap (1 .. logbuf))'
    <3>1. /\ Cardinality(lostnos) = Cardinality(lostnos \cap (1 .. LastRead)) + (Gone - LastRead)
          /\ IsFiniteSet(lostnos)
      BY <1>3, LostSplit
    <3>2. Lost(port) + lostlog = Cardinality(lostnos \cap (1 .. LastRead))
      BY <1>1, <1>3 DEF PortInv
    <3>3. lostnos \cap (1 .. g) = lostnos
      <4>1. 1 .. Gone \subseteq 1 .. g
        BY <1>3, <1>4
      <4> QED BY <1>3, <4>1
    <3>4. Lost(port) \in Nat
      BY <1>1, FS_CardinalityType DEF PortInv, Lost
    <3>5. Cardinality(lostnos \cap (1 .. logbuf))' = Cardinality(lostnos)
      BY <1>1, <1>2, <3>3
    <3>6. Cardinality(lostnos) = (Lost(port) + lostlog) + syslog_lost
      BY <1>3, <3>1, <3>2
    <3> QED BY <1>2, <1>3, <2>1, <3>4, <3>5, <3>6
  <2>7. logtask' = "print" => lostlog' = 0
    BY <1>1, <1>4
  <2>8. logtask' \in {"lost", "print"} => logbuf' > 0 /\ logbuf' \notin hidden'
    BY <1>1, <1>2
  <2>9. ToldInPlace'
    BY <1>1 DEF PortInv, ToldInPlace
  <2>10. IsFiniteSet(Told(port))'
    BY <1>1, <2>1 DEF PortInv
  <2> QED BY <2>5, <2>6, <2>7, <2>8, <2>9, <2>10 DEF PortInv
<1>6. LtTypeInv'
  <2>1. logtask' \in {"rea", "lost", "print"}
    BY <1>1
  <2> QED BY <1>1, <2>1 DEF LtTypeInv, SIZE
<1>7. MaskInv'
  BY <1>1 DEF MaskInv
<1>8. QueueInv'
  BY <1>1, <1>4 DEF QueueInv
<1>9. FlushInv'
  <2>1. mark \in Nat
    BY <1>1 DEF LtTypeInv, NumbersInv
  <2> QED BY <1>1, <1>2, <1>3, <1>4, <2>1 DEF FlushInv
<1> QED BY <1>1, <1>2, <1>5, <1>6, <1>7, <1>8, <1>9, RunningStep

\* A message that tells the losses is given to the port.
LEMMA TellingInPlace ==
    ASSUME PortInv, QueueInv, NumbersInv, Put(LostMessage(lostlog)), lostlog' = 0,
           UNCHANGED <<lostnos, hidden, logbuf>>,
           \/ logtask = "lost" /\ logtask' = "print"
           \/ logtask \notin {"lost", "print"} /\ logtask' \notin {"lost", "print"}
    PROVE  PortInv'
<1> DEFINE m == LostMessage(lostlog)
<1>1. m \in MESSAGE /\ m.entry = 0 /\ m.lost = lostlog /\ lostlog \in Nat /\ port \in Seq(MESSAGE)
  BY DEF QueueInv, MESSAGE, LostMessage
<1>2. port' = Append(port, m)
  BY DEF Put
<1> HIDE DEF m
<1>3. Printed(port)' = Printed(port)
  <2>1. Printed(port') = Printed(port) \cup ({0} \ {0})
    BY <1>1, <1>2, PrintsOneMore
  <2>2. Printed(port)' = Printed(port')
    BY DEF Printed
  <2> QED BY <2>1, <2>2
<1>4. /\ IsFiniteSet(Told(port)') /\ Lost(port) \in Nat /\ Lost(port)' = Lost(port) + lostlog
  <2>1. /\ IsFiniteSet(Told(port')) /\ Lost(port) \in Nat /\ Lost(port') = Lost(port) + lostlog
    BY <1>1, <1>2, TellsMore DEF PortInv
  <2>2. Told(port)' = Told(port') /\ Lost(port)' = Lost(port')
    BY DEF Told, Lost
  <2> QED BY <2>1, <2>2
<1>5. InHand' = InHand /\ Wanted(logbuf)' = Wanted(logbuf)
  BY DEF InHand, Wanted
<1>6. ToldInPlace'
  <2>1. ToldSo(port', lostnos, hidden)
    BY <1>1, <1>2, TellsInPlace, ToldIsToldSo DEF PortInv
  <2> QED BY <2>1 DEF ToldInPlace, ToldSo
<1>7. Lost(port)' + lostlog' = Cardinality(lostnos \cap (1 .. logbuf))'
  BY <1>1, <1>4 DEF PortInv
<1> QED BY <1>3, <1>4, <1>5, <1>6, <1>7 DEF PortInv

\* The log task tells losses before an entry,
LEMMA TellsKeep == ASSUME LogInv, LtTellsLoss PROVE LogInv'
<1>1. /\ Running /\ Running' /\ LtTypeInv /\ MaskInv /\ QueueInv /\ NumbersInv /\ PortInv /\ FlushInv
      /\ logtask = "lost" /\ logtask' = "print" /\ Put(LostMessage(lostlog)) /\ lostlog' = 0
      /\ UNCHANGED <<syslog_buffer, syslog_lost, syslog_logmask, syslog_lowmask, written, lostnos,
                     hidden, logbuf, sent, low, flush, count, mark, kernel>>
  BY DEF LogInv, LtTellsLoss, logVars, bufVars, maskVars, flushVars, Running
<1>2. NumbersInv' /\ Gone' = Gone
  BY <1>1, NumbersKept
<1>3. PortInv'
  BY <1>1, TellingInPlace
<1>4. QueueInv'
  <2>1. /\ LostMessage(lostlog) \in MESSAGE /\ LostMessage(lostlog).lost <= written
        /\ written \in Nat
    <3>1. lostlog \in 0 .. written /\ lostlog \in Nat
      BY <1>1, LossesBounded DEF QueueInv
    <3>2. written \in Nat
      BY <1>1 DEF NumbersInv
    <3> QED BY <3>1, <3>2 DEF LostMessage, MESSAGE
  <2> QED BY <1>1, <2>1, QueueGrows
<1>5. LtTypeInv' /\ FlushInv' /\ MaskInv'
  BY <1>1, <1>2 DEF LtTypeInv, FlushInv, MaskInv, SIZE
<1> QED BY <1>1, <1>2, <1>3, <1>4, <1>5, RunningStep

\* prints one,
LEMMA PrintsKeep == ASSUME LogInv, LtPrints PROVE LogInv'
<1> DEFINE m == Message(logbuf)
<1>1. /\ Running /\ Running' /\ LtTypeInv /\ MaskInv /\ QueueInv /\ NumbersInv /\ PortInv /\ FlushInv
      /\ logtask = "print" /\ logtask' = "rea" /\ Put(m)
      /\ UNCHANGED <<syslog_buffer, syslog_lost, syslog_logmask, syslog_lowmask, written, lostnos,
                     hidden, logbuf, lostlog, sent, low, flush, count, mark, kernel>>
  BY DEF LogInv, LtPrints, logVars, bufVars, maskVars, flushVars, Running
<1>2. NumbersInv' /\ Gone' = Gone
  BY <1>1, NumbersKept
<1>3. /\ written \in Nat /\ logbuf \in Nat /\ logbuf > 0 /\ logbuf \notin lostnos
      /\ logbuf \notin hidden /\ lostlog = 0
      /\ Printed(port) = Wanted(logbuf) \ {logbuf}
  BY <1>1, NumberFacts DEF PortInv, InHand, NumbersInv
<1>4. m \in MESSAGE /\ m.entry = logbuf /\ m.lost = 0 /\ port \in Seq(MESSAGE)
  BY <1>1, <1>3 DEF QueueInv, Message, MESSAGE
<1> HIDE DEF m
<1>5. port' = Append(port, m)
  BY <1>1 DEF Put
<1>6. (1 .. logbuf - 1) \ (lostnos \cup hidden) = Printed(port)
      /\ lostnos \cap (1 .. logbuf) = lostnos \cap (1 .. logbuf - 1)
  <2>1. ASSUME NEW x
        PROVE  x \in 1 .. logbuf - 1 <=> x \in 1 .. logbuf /\ x # logbuf
    BY <1>3
  <2> QED BY <1>3, <2>1 DEF Wanted
<1>7. PortInv'
  <2>1. Printed(port)' = Wanted(logbuf)'
    <3>1. Printed(port') = Printed(port) \cup ({logbuf} \ {0})
      BY <1>4, <1>5, PrintsOneMore
    <3>2. Printed(port)' = Printed(port')
      BY DEF Printed
    <3>3. logbuf \in Wanted(logbuf)
      BY <1>3 DEF Wanted
    <3>4. {logbuf} \ {0} = {logbuf}
      BY <1>3
    <3>5. Wanted(logbuf)' = Wanted(logbuf)
      BY <1>1 DEF Wanted
    <3> QED BY <1>3, <3>1, <3>2, <3>3, <3>4, <3>5
  <2>2. InHand' = {}
    BY <1>1 DEF InHand
  <2>3. /\ IsFiniteSet(Told(port)') /\ Lost(port) \in Nat /\ Lost(port)' = Lost(port)
    <3>1. /\ IsFiniteSet(Told(port')) /\ Lost(port) \in Nat /\ Lost(port') = Lost(port) + 0
      BY <1>1, <1>4, <1>5, TellsMore DEF PortInv
    <3>2. Told(port)' = Told(port') /\ Lost(port)' = Lost(port')
      BY DEF Told, Lost
    <3> QED BY <3>1, <3>2
  <2>4. Lost(port) + lostlog = Cardinality(lostnos \cap (1 .. logbuf))
    BY <1>1 DEF PortInv
  <2>5. ToldInPlace'
    <3>1. ToldSo(port, lostnos, hidden)
      BY <1>1, ToldIsToldSo DEF PortInv
    <3>2. Lost(port) = Cardinality(lostnos \cap (1 .. m.entry - 1))
      <4>1. Lost(port) = Cardinality(lostnos \cap (1 .. logbuf))
        BY <1>3, <2>3, <2>4
      <4>2. 1 .. m.entry - 1 = 1 .. logbuf - 1
        BY <1>4
      <4> QED BY <1>6, <4>1, <4>2
    <3>3. ToldSo(port', lostnos, hidden)
      BY <1>4, <1>5, <1>6, <3>1, <3>2, PrintsInPlace
    <3> QED BY <1>1, <3>3 DEF ToldInPlace, ToldSo
  <2> QED BY <1>1, <2>1, <2>2, <2>3, <2>4, <2>5 DEF PortInv
<1>8. QueueInv'
  BY <1>1, <1>3, <1>4, QueueGrows DEF QueueInv
<1>9. LtTypeInv' /\ FlushInv' /\ MaskInv'
  BY <1>1, <1>2 DEF LtTypeInv, FlushInv, MaskInv, SIZE
<1> QED BY <1>1, <1>2, <1>7, <1>8, <1>9, RunningStep

\* and rests, once it has told the losses that no entry followed.
LEMMA RestsKeep == ASSUME LogInv, LtRests PROVE LogInv'
<1>1. /\ Running /\ Running' /\ LtTypeInv /\ MaskInv /\ QueueInv /\ NumbersInv /\ PortInv /\ FlushInv
      /\ logtask = "rea" /\ logtask' = "dly" /\ lostlog' = 0
      /\ IF lostlog > 0 THEN Put(LostMessage(lostlog)) ELSE UNCHANGED port
      /\ UNCHANGED <<syslog_buffer, syslog_lost, syslog_logmask, syslog_lowmask, written, lostnos,
                     hidden, logbuf, sent, low, flush, count, mark, kernel>>
  BY DEF LogInv, LtRests, logVars, bufVars, maskVars, flushVars, Running
<1>2. NumbersInv' /\ Gone' = Gone
  BY <1>1, NumbersKept
<1>3. lostlog \in Nat /\ written \in Nat /\ lostlog <= written
  BY <1>1, LossesBounded DEF QueueInv, NumbersInv
<1>4. PortInv' /\ QueueInv'
  <2>1. CASE lostlog > 0
    <3>1. LostMessage(lostlog) \in MESSAGE /\ LostMessage(lostlog).lost <= written
      BY <1>3 DEF LostMessage, MESSAGE
    <3> QED BY <1>1, <1>3, <2>1, <3>1, TellingInPlace, QueueGrows
  <2>2. CASE ~(lostlog > 0)
    <3>1. lostlog' = lostlog /\ port' = port
      BY <1>1, <1>3, <2>2
    <3>2. PortInv'
      BY <1>1, <3>1, PortKept
    <3> QED BY <1>1, <3>1, <3>2 DEF QueueInv
  <2> QED BY <2>1, <2>2
<1>5. LtTypeInv' /\ FlushInv' /\ MaskInv'
  BY <1>1, <1>2 DEF LtTypeInv, FlushInv, MaskInv, SIZE
<1> QED BY <1>1, <1>2, <1>4, <1>5, RunningStep

\* The log task goes on, or a message leaves the port,
LEMMA QuietKeep == ASSUME LogInv, LtResumes \/ Sends PROVE LogInv'
<1>1. /\ Running /\ Running' /\ LtTypeInv /\ MaskInv /\ QueueInv /\ NumbersInv /\ PortInv /\ FlushInv
      /\ UNCHANGED <<syslog_buffer, syslog_lost, syslog_logmask, syslog_lowmask, written, lostnos,
                     hidden, logbuf, lostlog, port, low, flush, count, mark, kernel>>
      /\ logtask' = logtask \/ (logtask = "dly" /\ logtask' = "rea")
      /\ sent' = sent \/ (sent < Len(port) /\ sent' = sent + 1)
  BY DEF LogInv, LtResumes, Sends, logVars, bufVars, maskVars, flushVars, ltVars, Running
<1>2. NumbersInv' /\ Gone' = Gone
  BY <1>1, NumbersKept
<1>3. PortInv'
  BY <1>1, PortKept
<1>4. QueueInv'
  <2>1. sent \in 0 .. Len(port) /\ Len(port) \in Nat /\ Len(port) - sent <= PORTSIZE /\ PORTSIZE \in Nat
    BY <1>1, EntryAssumption DEF QueueInv
  <2>2. sent' \in 0 .. Len(port) /\ Len(port) - sent' <= PORTSIZE
    BY <1>1, <2>1
  <2> QED BY <1>1, <2>2 DEF QueueInv
<1>5. LtTypeInv' /\ FlushInv' /\ MaskInv'
  BY <1>1, <1>2 DEF LtTypeInv, FlushInv, MaskInv, SIZE
<1> QED BY <1>1, <1>2, <1>3, <1>4, <1>5, RunningStep

\* or the task in logtask_flush does.
LEMMA FlushKeeps ==
    ASSUME LogInv, (\E c \in 0 .. SIZE : FlushCalled(c)) \/ FlushStep \/ FlushReleased
    PROVE  LogInv'
<1>1. /\ Running /\ Running' /\ LtTypeInv /\ MaskInv /\ QueueInv /\ NumbersInv /\ PortInv /\ FlushInv
      /\ UNCHANGED <<syslog_buffer, syslog_lost, syslog_logmask, syslog_lowmask, written, lostnos,
                     hidden, logtask, logbuf, lostlog, port, sent, low, kernel>>
  BY DEF LogInv, FlushCalled, FlushStep, FlushRefs, FlushRefsPort, FlushWakes, FlushReleased,
         logVars, bufVars, maskVars, ltVars, Running
<1>2. NumbersInv' /\ Gone' = Gone
  BY <1>1, NumbersKept
<1>3. PortInv' /\ QueueInv' /\ MaskInv'
  BY <1>1, PortKept DEF QueueInv, MaskInv
<1>4. written \in Nat /\ Gone \in Nat /\ syslog_buffer.count \in 0 .. SIZE /\ SIZE \in Nat
      /\ Gone = written - syslog_buffer.count
  BY <1>1, NumberFacts, LogLength DEF NumbersInv, Gone
<1>5. /\ flush' \in {"idle", "ref", "por", "dly"} /\ count' \in 0 .. SIZE /\ mark' \in 0 .. written
      /\ flush' = "por" => mark' <= Gone
  <2>1. CASE \E c \in 0 .. SIZE : FlushCalled(c)
    BY <1>4, <2>1 DEF FlushCalled
  <2>2. CASE FlushRefs
    <3>1. count' = count /\ mark' = written /\ count \in 0 .. SIZE
          /\ flush' = IF syslog_buffer.count > count THEN "dly" ELSE IF count = 0 THEN "por" ELSE "idle"
      BY <1>1, <2>2 DEF FlushRefs, LtTypeInv
    <3>2. flush' = "por" => syslog_buffer.count = 0
      BY <1>4, <3>1
    <3>3. flush' \in {"idle", "ref", "por", "dly"}
      BY <3>1
    <3> QED BY <1>4, <3>1, <3>2, <3>3
  <2>3. CASE FlushRefsPort \/ FlushWakes \/ FlushReleased
    <3>1. count' = count /\ mark' = mark /\ flush' \in {"idle", "ref", "dly"}
      BY <2>3 DEF FlushRefsPort, FlushWakes, FlushReleased
    <3> QED BY <1>1, <3>1 DEF LtTypeInv
  <2> QED BY <2>1, <2>2, <2>3 DEF FlushStep
<1>6. LtTypeInv' /\ FlushInv'
  BY <1>1, <1>2, <1>5 DEF LtTypeInv, FlushInv, SIZE
<1> QED BY <1>1, <1>2, <1>3, <1>6, RunningStep

-----------------------------------------------------------------------------
\* The system terminates, and logtask_terminate ends.
LEMMA EndsKeep == ASSUME LogInv, ExtKer \/ TerminateEnds PROVE LogInv'
<1>1. /\ LtTypeInv /\ MaskInv /\ QueueInv /\ NumbersInv /\ PortInv /\ FlushInv /\ OutInv
      /\ UNCHANGED <<syslog_buffer, syslog_lost, syslog_logmask, syslog_lowmask, written, lostnos,
                     hidden, logtask, logbuf, lostlog, port, sent, low, flush, count, mark>>
      /\ kernel' \in {"terminating", "terminated"} /\ ~Running'
      /\ kernel' = "terminated" => sent + Len(low) >= Len(port) /\ syslog_buffer.count = 0
  BY DEF LogInv, ExtKer, TerminateEnds, logVars, bufVars, maskVars, ltVars, flushVars, Running
<1>2. NumbersInv' /\ Gone' = Gone /\ LastRead' = LastRead
  BY <1>1, NumbersKept
<1>3. PortInv' /\ QueueInv' /\ MaskInv'
  BY <1>1, PortKept DEF QueueInv, MaskInv
<1>4. LtTypeInv' /\ FlushInv'
  BY <1>1, <1>2 DEF LtTypeInv, FlushInv, SIZE
<1>5. Len(Output) = sent + Len(low)
  BY <1>1 DEF QueueInv, Output
<1>6. OutInv'
  BY <1>1, <1>2, <1>5, OutKept
<1> QED BY <1>2, <1>3, <1>4, <1>6 DEF LogInv

\* Of what is put out at the end: a message more, whose entry comes after those before it
LEMMA OutGrows ==
    ASSUME NEW p \in Seq(MESSAGE), NEW m \in MESSAGE, InOrder(p),
           m.entry > 0 => \A i \in DOMAIN p : p[i].entry < m.entry
    PROVE  InOrder(Append(p, m))
<1> DEFINE a == Append(p, m)
<1>1. ASSUME NEW i \in DOMAIN a, NEW j \in DOMAIN a, i < j, a[i].entry > 0, a[j].entry > 0
      PROVE  a[i].entry < a[j].entry
  <2>1. i \in 1 .. Len(p) + 1 /\ j \in 1 .. Len(p) + 1 /\ Len(p) \in Nat
    OBVIOUS
  <2>2. i \in DOMAIN p /\ a[i] = p[i]
    BY <1>1, <2>1
  <2>3. CASE j \in 1 .. Len(p)
    <3>1. j \in DOMAIN p /\ a[j] = p[j]
      BY <2>3
    <3> HIDE DEF a
    <3> QED BY <1>1, <2>2, <3>1 DEF InOrder
  <2>4. CASE j = Len(p) + 1
    <3>1. a[j] = m
      BY <2>4
    <3> HIDE DEF a
    <3> QED BY <1>1, <2>2, <3>1
  <2> QED BY <2>1, <2>3, <2>4
<1> HIDE DEF a
<1>2. InOrder(a)
  BY <1>1 DEF InOrder
<1> QED BY <1>2 DEF a

\* What is appended to the second of two sequences is appended to both.
LEMMA AppendedLast ==
    ASSUME NEW s \in Seq(MESSAGE), NEW t \in Seq(MESSAGE), NEW m \in MESSAGE
    PROVE  s \o Append(t, m) = Append(s \o t, m)
<1> DEFINE a == s \o Append(t, m)  b == Append(s \o t, m)
<1>1. a \in Seq(MESSAGE) /\ b \in Seq(MESSAGE) /\ Len(a) = Len(s) + Len(t) + 1 /\ Len(b) = Len(a)
  OBVIOUS
<1>2. ASSUME NEW i \in 1 .. Len(a)
      PROVE  a[i] = b[i]
  OBVIOUS
<1> HIDE DEF a, b
<1>3. a = b
  BY <1>1, <1>2
<1> QED BY <1>3 DEF a, b

\* logtask_terminate puts out a message that the port has left.
LEMMA GetsKeep == ASSUME LogInv, TerminateGets PROVE LogInv'
<1> DEFINE m == port[sent + Len(low) + 1]
<1>1. /\ LtTypeInv /\ MaskInv /\ QueueInv /\ NumbersInv /\ PortInv /\ FlushInv /\ OutInv
      /\ UNCHANGED <<syslog_buffer, syslog_lost, syslog_logmask, syslog_lowmask, written, lostnos,
                     hidden, logtask, logbuf, lostlog, port, sent, flush, count, mark, kernel>>
      /\ kernel = "terminating" /\ ~Running' /\ ~Running
      /\ sent + Len(low) < Len(port) /\ low' = Append(low, m)
  BY DEF LogInv, TerminateGets, logVars, bufVars, maskVars, ltVars, flushVars, Running
<1>2. NumbersInv' /\ Gone' = Gone /\ LastRead' = LastRead
  BY <1>1, NumbersKept
<1>3. /\ port \in Seq(MESSAGE) /\ low \in Seq(MESSAGE) /\ sent \in 0 .. Len(port)
      /\ Len(port) \in Nat /\ Len(low) \in Nat
  BY <1>1 DEF QueueInv
<1>4. /\ Output \in Seq(MESSAGE) /\ Len(Output) = sent + Len(low)
      /\ sent + Len(low) + 1 \in 1 .. Len(port) /\ m \in MESSAGE
  BY <1>1, <1>3 DEF Output
<1>5. Output' = Append(Output, m)
  <2>1. SubSeq(port, 1, sent) \in Seq(MESSAGE)
    BY <1>3
  <2>2. SubSeq(port, 1, sent) \o Append(low, m) = Append(SubSeq(port, 1, sent) \o low, m)
    BY <1>3, <1>4, <2>1, AppendedLast
  <2> QED BY <1>1, <2>2 DEF Output
<1>6. /\ m = port[Len(Output) + 1] /\ Len(Output) + 1 \in DOMAIN port /\ Len(Output) < Len(port)
      /\ Len(Output) \in Nat
  BY <1>1, <1>3, <1>4
<1> HIDE DEF m
<1>7. logbuf = LastRead /\ \A i \in DOMAIN port : i \in DOMAIN Output => Output[i] = port[i]
  BY <1>1, <1>6 DEF OutInv
<1>8. /\ \A i \in DOMAIN port : port[i].entry \in 0 .. logbuf
      /\ InOrder(port) /\ logbuf \in Nat
  BY <1>1, PortEntries, NumberFacts
<1>9. OutInv'
  <2>1. /\ DOMAIN Output' = DOMAIN Output \cup {Len(Output) + 1} /\ DOMAIN Output = 1 .. Len(Output)
        /\ Output'[Len(Output) + 1] = m /\ \A i \in DOMAIN Output : Output'[i] = Output[i]
        /\ Len(Output') = Len(Output) + 1
    BY <1>4, <1>5, BeforeLast
  <2>2. \A i \in DOMAIN port : i \in DOMAIN Output' => Output'[i] = port[i]
    BY <1>6, <1>7, <2>1
  <2>3. \A i \in DOMAIN Output' : Output'[i].entry <= LastRead
    <3>1. m.entry <= LastRead
      BY <1>6, <1>7, <1>8
    <3> QED BY <1>1, <2>1, <3>1 DEF OutInv
  <2>4. (Wanted(LastRead) \ (1 .. logbuf))' = {}
    BY <1>1, <1>2, <1>7 DEF Wanted
  <2>5. InOrder(Output')
    <3>1. DOMAIN Output \subseteq DOMAIN port
      BY <1>3, <1>6, <2>1
    <3>2. ASSUME m.entry > 0, NEW i \in DOMAIN Output
          PROVE  Output[i].entry < m.entry
      <4>1. i \in DOMAIN port /\ Output[i] = port[i] /\ i < Len(Output) + 1
        BY <1>6, <1>7, <2>1, <3>1
      <4>2. port[i].entry > 0 => port[i].entry < m.entry
        BY <1>6, <1>8, <3>2, <4>1 DEF InOrder
      <4>3. port[i].entry \in Nat
        BY <1>8, <4>1
      <4> QED BY <3>2, <4>1, <4>2, <4>3
    <3>3. InOrder(Output)
      BY <1>1 DEF OutInv
    <3> QED BY <1>4, <1>5, <3>2, <3>3, OutGrows
  <2>6. InOrder(Output)'
    BY <2>5 DEF InOrder
  <2> QED BY <1>1, <1>2, <1>7, <2>1, <2>2, <2>3, <2>4, <2>6 DEF OutInv
<1>10. PortInv' /\ MaskInv'
  BY <1>1, PortKept DEF MaskInv
<1>11. LtTypeInv' /\ FlushInv' /\ QueueInv'
  <2>1. low' \in Seq(MESSAGE)
    BY <1>1, <1>3, <1>4
  <2> QED BY <1>1, <1>2, <2>1 DEF LtTypeInv, FlushInv, QueueInv, SIZE
<1> QED BY <1>2, <1>9, <1>10, <1>11 DEF LogInv

\* The sequence p goes on after o, with entries that come in order, up to l.
GoesAfter(p, o, l) ==
    /\ p \in Seq(MESSAGE) /\ Len(o) <= Len(p) /\ \A i \in DOMAIN o : i \in DOMAIN p /\ p[i] = o[i]
    /\ \A i \in DOMAIN p : p[i].entry <= l
    /\ Printed(o) \subseteq Printed(p) /\ InOrder(p)

\* So it does with a message more that has no entry, or one after l.
LEMMA GoesFurther ==
    ASSUME NEW o \in Seq(MESSAGE), NEW l \in Nat, NEW p, GoesAfter(p, o, l),
           NEW m \in MESSAGE, NEW g \in Nat, l <= g,
           m.entry = 0 \/ (m.entry = g /\ l < g)
    PROVE  GoesAfter(Append(p, m), o, g) /\ (m.entry > 0 => g \in Printed(Append(p, m)))
<1> DEFINE a == Append(p, m)
<1>1. /\ p \in Seq(MESSAGE) /\ Len(o) <= Len(p) /\ \A i \in DOMAIN o : i \in DOMAIN p /\ p[i] = o[i]
      /\ \A i \in DOMAIN p : p[i].entry <= l
      /\ Printed(o) \subseteq Printed(p) /\ InOrder(p)
  BY DEF GoesAfter
<1>2. /\ DOMAIN a = DOMAIN p \cup {Len(p) + 1} /\ a[Len(p) + 1] = m
      /\ \A i \in DOMAIN p : a[i] = p[i]
  BY <1>1, BeforeLast
<1>3. a \in Seq(MESSAGE) /\ Len(o) <= Len(a) /\ Len(p) \in Nat
  BY <1>1
<1>4. \A i \in DOMAIN p : p[i] \in MESSAGE
  BY <1>1
<1>5. Printed(a) = Printed(p) \cup ({m.entry} \ {0})
  BY <1>1, PrintsOneMore
<1>6. InOrder(a)
  <2>1. ASSUME m.entry > 0, NEW i \in DOMAIN p
        PROVE  p[i].entry < m.entry
    <3>1. p[i].entry \in Nat /\ p[i].entry <= l /\ m.entry = g /\ l < g
      BY <1>1, <1>4, <2>1 DEF MESSAGE
    <3> QED BY <3>1
  <2> QED BY <1>1, <2>1, OutGrows
<1> HIDE DEF a
<1>7. ASSUME NEW i \in DOMAIN a
      PROVE  a[i].entry <= g
  <2>1. CASE i \in DOMAIN p
    <3>1. p[i].entry \in Nat /\ p[i].entry <= l /\ a[i] = p[i]
      BY <1>1, <1>2, <1>4, <2>1 DEF MESSAGE
    <3> QED BY <3>1
  <2>2. CASE i = Len(p) + 1
    BY <1>2, <2>2
  <2> QED BY <1>2, <2>1, <2>2
<1>8. GoesAfter(a, o, g)
  BY <1>1, <1>2, <1>3, <1>5, <1>6, <1>7 DEF GoesAfter
<1>9. m.entry > 0 => g \in Printed(a)
  BY <1>5
<1> QED BY <1>8, <1>9 DEF a

\* A sequence after another one is as long as both, with the elements of both.
LEMMA OneAfterTheOther ==
    ASSUME NEW S, NEW s \in Seq(S), NEW r \in Seq(S)
    PROVE  s \o r \in Seq(S) /\ Len(s \o r) = Len(s) + Len(r)
OBVIOUS

\* logtask_terminate puts out the next entry in the log, with the losses before it.
LEMMA FinishKeeps == ASSUME LogInv, TerminateReads PROVE LogInv'
<1> DEFINE g    == Gone + 1
           mid  == IF syslog_lost > 0 THEN Append(low, LostMessage(syslog_lost)) ELSE low
           some == IF syslog_lost > 0 THEN Append(Output, LostMessage(syslog_lost)) ELSE Output
<1>1. /\ LtTypeInv /\ MaskInv /\ QueueInv /\ NumbersInv /\ PortInv /\ FlushInv /\ OutInv
      /\ UNCHANGED <<syslog_logmask, syslog_lowmask, written, lostnos, hidden, logtask, logbuf,
                     lostlog, port, sent, flush, count, mark, kernel>>
      /\ kernel = "terminating" /\ ~Running' /\ ~Running
      /\ sent + Len(low) >= Len(port) /\ ReaLog
      /\ low' = low \o (IF rea'[2] > 0 THEN <<LostMessage(rea'[2])>> ELSE <<>>)
                    \o (IF rea'[1] \in hidden THEN <<>> ELSE <<Message(rea'[1])>>)
  BY DEF LogInv, TerminateReads, ReaLog, maskVars, ltVars, flushVars, Running
<1>2. /\ rea'[1] = g /\ rea'[2] = syslog_lost /\ g \in 1 .. written /\ NumbersInv' /\ Gone' = g
      /\ LastRead' = g
  BY <1>1, Fetched
<1>3. /\ Gone \in Nat /\ LastRead \in 0 .. Gone /\ LastRead \in Nat /\ syslog_lost \in Nat
      /\ lostnos \in SUBSET (1 .. Gone) /\ LastRead + 1 .. Gone \subseteq lostnos
      /\ logbuf \in Nat
  BY <1>1, NumberFacts
<1>4. /\ port \in Seq(MESSAGE) /\ low \in Seq(MESSAGE) /\ sent \in 0 .. Len(port)
      /\ Len(port) \in Nat /\ Len(low) \in Nat /\ SubSeq(port, 1, sent) \in Seq(MESSAGE)
  BY <1>1 DEF QueueInv
<1>5. /\ Output \in Seq(MESSAGE) /\ Len(Output) = sent + Len(low) /\ Len(Output) >= Len(port)
  <2> DEFINE printed == SubSeq(port, 1, sent)
  <2>1. printed \in Seq(MESSAGE) /\ Len(printed) = sent
    BY <1>4
  <2>2. Output = printed \o low
    BY DEF Output
  <2> HIDE DEF printed
  <2>3. Output \in Seq(MESSAGE) /\ Len(Output) = Len(printed) + Len(low)
    BY <1>4, <2>1, <2>2, OneAfterTheOther
  <2>4. sent + Len(low) >= Len(port)
    BY <1>1
  <2> QED BY <2>1, <2>3, <2>4
<1>6. /\ LostMessage(syslog_lost) \in MESSAGE /\ LostMessage(syslog_lost).entry = 0
      /\ g \in Nat /\ LastRead < g
      /\ Message(g) \in MESSAGE /\ Message(g).entry = g /\ g > 0
  BY <1>3 DEF LostMessage, Message, MESSAGE
<1>7. mid \in Seq(MESSAGE) /\ some = SubSeq(port, 1, sent) \o mid
  <2>1. CASE syslog_lost > 0
    <3>1. /\ mid = Append(low, LostMessage(syslog_lost))
          /\ some = Append(Output, LostMessage(syslog_lost))
      BY <2>1
    <3> HIDE DEF mid, some
    <3>2. Append(low, LostMessage(syslog_lost)) \in Seq(MESSAGE)
      BY <1>4, <1>6
    <3>3. Append(Output, LostMessage(syslog_lost))
            = SubSeq(port, 1, sent) \o Append(low, LostMessage(syslog_lost))
      BY <1>4, <1>6, AppendedLast DEF Output
    <3> QED BY <3>1, <3>2, <3>3
  <2>2. CASE ~(syslog_lost > 0)
    <3>1. mid = low /\ some = Output
      BY <2>2
    <3> HIDE DEF mid, some
    <3> QED BY <1>4, <3>1 DEF Output
  <2> QED BY <2>1, <2>2
<1>8. low' = IF g \in hidden THEN mid ELSE Append(mid, Message(g))
  <2>1. low \o (IF syslog_lost > 0 THEN <<LostMessage(syslog_lost)>> ELSE <<>>) = mid
    BY <1>4, <1>6
  <2> HIDE DEF mid, g
  <2>2. low' = mid \o (IF g \in hidden THEN <<>> ELSE <<Message(g)>>)
    BY <1>1, <1>2, <2>1
  <2> QED BY <1>6, <1>7, <2>2
<1>9. Output' = IF g \in hidden THEN some ELSE Append(some, Message(g))
  <2>1. Output' = SubSeq(port, 1, sent) \o low'
    BY <1>1 DEF Output
  <2> HIDE DEF mid, some, g
  <2> QED BY <1>4, <1>6, <1>7, <1>8, <2>1, AppendedLast
<1>10. GoesAfter(Output, Output, LastRead)
  <2>1. InOrder(Output) /\ \A i \in DOMAIN Output : Output[i].entry <= LastRead
    BY <1>1 DEF OutInv
  <2> QED BY <1>5, <2>1 DEF GoesAfter
<1>11. GoesAfter(some, Output, LastRead)
  <2>1. CASE syslog_lost > 0
    <3>1. some = Append(Output, LostMessage(syslog_lost))
      BY <2>1
    <3> HIDE DEF some, mid, g
    <3> QED BY <1>3, <1>5, <1>6, <1>10, <3>1, GoesFurther
  <2>2. CASE ~(syslog_lost > 0)
    BY <1>10, <2>2
  <2> QED BY <2>1, <2>2
<1> HIDE DEF some, mid
<1>12. GoesAfter(Output', Output, g) /\ (g \in hidden \/ g \in Printed(Output'))
  <2>1. CASE g \in hidden
    <3>1. Output' = some
      BY <1>9, <2>1
    <3>2. some \in Seq(MESSAGE) /\ \A i \in DOMAIN some : some[i].entry <= LastRead
      BY <1>11 DEF GoesAfter
    <3>3. ASSUME NEW i \in DOMAIN some
          PROVE  some[i].entry <= g
      <4>1. some[i] \in MESSAGE /\ some[i].entry <= LastRead
        BY <3>2
      <4> HIDE DEF g
      <4> QED BY <1>3, <1>6, <4>1 DEF MESSAGE
    <3> QED BY <1>11, <2>1, <3>1, <3>3 DEF GoesAfter
  <2>2. CASE g \notin hidden
    <3>1. Output' = Append(some, Message(g))
      BY <1>9, <2>2
    <3> HIDE DEF g
    <3> QED BY <1>3, <1>5, <1>6, <1>11, <3>1, GoesFurther
  <2> QED BY <2>1, <2>2
<1>13. /\ Len(Output) <= Len(Output') /\ \A i \in DOMAIN Output : i \in DOMAIN Output' /\ Output'[i] = Output[i]
       /\ \A i \in DOMAIN Output' : Output'[i].entry <= g
       /\ Printed(Output) \subseteq Printed(Output') /\ InOrder(Output') /\ Output' \in Seq(MESSAGE)
  BY <1>12 DEF GoesAfter
<1>14. OutInv'
  <2>1. Len(Output') >= Len(port) /\ Len(Output') \in Nat
    BY <1>4, <1>5, <1>13
  <2>2. \A i \in DOMAIN port : i \in DOMAIN Output' => Output'[i] = port[i]
    <3>1. ASSUME NEW i \in DOMAIN port
          PROVE  i \in DOMAIN Output /\ Output[i] = port[i]
      <4>1. i \in 1 .. Len(port) /\ DOMAIN Output = 1 .. Len(Output) /\ Len(Output) \in Nat
        BY <1>4, <1>5
      <4>2. i \in DOMAIN Output
        BY <1>4, <1>5, <4>1
      <4> QED BY <1>1, <4>2 DEF OutInv
    <3> QED BY <1>13, <3>1
  <2>3. (Wanted(LastRead) \ (1 .. logbuf))' \subseteq Printed(Output')
    <3>1. (Wanted(LastRead) \ (1 .. logbuf))' = ((1 .. g) \ (lostnos \cup hidden)) \ (1 .. logbuf)
      BY <1>1, <1>2 DEF Wanted
    <3>2. ASSUME NEW x \in 1 .. g
          PROVE  x \in 1 .. LastRead \/ x \in lostnos \/ x = g
      BY <1>3
    <3>3. Wanted(LastRead) \ (1 .. logbuf) \subseteq Printed(Output')
      BY <1>1, <1>13 DEF OutInv
    <3> HIDE DEF g
    <3> QED BY <1>12, <3>1, <3>2, <3>3 DEF Wanted
  <2>4. InOrder(Output)' /\ Printed(Output)' = Printed(Output')
    BY <1>13 DEF InOrder, Printed
  <2>5. Len(Output)' = Len(Output') /\ ~(Len(Output') < Len(port))
    BY <1>4, <2>1
  <2> HIDE DEF g
  <2> QED BY <1>1, <1>2, <1>13, <2>2, <2>3, <2>4, <2>5 DEF OutInv
<1>15. PortInv' /\ MaskInv'
  BY <1>1, PortKept DEF MaskInv
<1>16. LtTypeInv' /\ QueueInv'
  <2>1. low' \in Seq(MESSAGE)
    <3> HIDE DEF g
    <3> QED BY <1>6, <1>7, <1>8
  <2> QED BY <1>1, <2>1 DEF LtTypeInv, QueueInv, SIZE
<1>17. FlushInv'
  <2>1. mark \in Nat
    BY <1>1 DEF LtTypeInv, NumbersInv
  <2> QED BY <1>1, <1>2, <1>3, <2>1 DEF FlushInv
<1> QED BY <1>2, <1>14, <1>15, <1>16, <1>17 DEF LogInv

-----------------------------------------------------------------------------
\* At the start nothing is logged.
LEMMA LogStarts == Init => LogInv
<1> SUFFICES ASSUME Init PROVE LogInv
  OBVIOUS
<1>1. /\ LogInit /\ written = 0 /\ lostnos = {} /\ hidden \in SUBSET (1 .. MaxLog)
      /\ logtask = "start" /\ logbuf = 0 /\ lostlog = 0 /\ port = <<>> /\ sent = 0 /\ low = <<>>
      /\ flush = "idle" /\ count = 0 /\ mark = 0 /\ kernel = "running"
  BY DEF Init
<1>2. /\ BufferConsistent /\ InLog = <<>> /\ syslog_lost = 0
      /\ syslog_logmask = {} /\ syslog_lowmask = PRIO
  BY <1>1, StartsEmpty DEF LogInit, InLog
<1>3. syslog_buffer.count = 0 /\ SIZE \in Nat
  BY <1>2, LogLength
<1>4. Gone = 0 /\ LastRead = 0
  BY <1>1, <1>2, <1>3 DEF Gone, LastRead
<1>5. NumbersInv
  <2>1. Numbered(InLog, Gone)
    BY <1>2 DEF Numbered
  <2> QED BY <1>1, <1>2, <1>3, <1>4, <2>1 DEF NumbersInv
<1>6. LtTypeInv /\ MaskInv /\ FlushInv
  BY <1>1, <1>2, <1>3, EntryAssumption DEF LtTypeInv, MaskInv, FlushInv
<1>7. QueueInv
  BY <1>1, EntryAssumption DEF QueueInv
<1>8. PortInv
  <2>1. Printed(port) = {} /\ Told(port) = {}
    BY <1>1 DEF Printed, Told, Range
  <2>2. IsFiniteSet({}) /\ Cardinality({}) = 0
    BY FS_EmptySet
  <2>3. Wanted(logbuf) = {} /\ lostnos \cap (1 .. logbuf) = {}
    BY <1>1 DEF Wanted
  <2>4. ToldInPlace
    BY <1>1 DEF ToldInPlace
  <2>5. IsFiniteSet(Told(port)) /\ Lost(port) = 0 /\ Cardinality(lostnos \cap (1 .. logbuf)) = 0
    BY <2>1, <2>2, <2>3 DEF Lost
  <2>6. Printed(port) = Wanted(logbuf) \ InHand
    BY <2>1, <2>3
  <2>7. Lost(port) + lostlog = Cardinality(lostnos \cap (1 .. logbuf))
    BY <1>1, <2>5
  <2> QED BY <1>1, <2>4, <2>5, <2>6, <2>7 DEF PortInv
<1>9. OutInv
  BY <1>1, <1>5, <1>7, <1>8, OutWhileRunning DEF Running
<1> QED BY <1>5, <1>6, <1>7, <1>8, <1>9 DEF LogInv

\* A step that changes nothing
LEMMA LogStutters == ASSUME LogInv, UNCHANGED vars PROVE LogInv'
<1>1. /\ LtTypeInv /\ MaskInv /\ QueueInv /\ NumbersInv /\ PortInv /\ FlushInv /\ OutInv
      /\ UNCHANGED <<syslog_buffer, syslog_lost, syslog_logmask, syslog_lowmask, written, lostnos,
                     hidden, logtask, logbuf, lostlog, port, sent, low, flush, count, mark, kernel>>
  BY DEF LogInv, vars, logVars, bufVars, maskVars, ltVars, flushVars
<1>2. NumbersInv' /\ Gone' = Gone /\ LastRead' = LastRead
  BY <1>1, NumbersKept DEF Running
<1>3. PortInv' /\ QueueInv' /\ MaskInv'
  BY <1>1, PortKept DEF QueueInv, MaskInv
<1>4. LtTypeInv' /\ FlushInv'
  BY <1>1, <1>2 DEF LtTypeInv, FlushInv, SIZE
<1>5. OutInv'
  BY <1>1, <1>2, OutKept DEF OutInv, Running
<1> QED BY <1>2, <1>3, <1>4, <1>5 DEF LogInv

LEMMA LogSteps == ASSUME LogInv, [Next]_vars PROVE LogInv'
<1>1. CASE \E prio \in PRIO : Writes(prio)
  BY <1>1, WritesKeep
<1>2. CASE LogTaskStep
  BY <1>2, StartsKeep, ReadsKeep, TellsKeep, PrintsKeep, RestsKeep, QuietKeep DEF LogTaskStep
<1>3. CASE Sends
  BY <1>3, QuietKeep
<1>4. CASE (\E c \in 0 .. SIZE : FlushCalled(c)) \/ FlushStep \/ FlushReleased
  BY <1>4, FlushKeeps
<1>5. CASE ExtKer \/ TerminateEnds
  BY <1>5, EndsKeep
<1>6. CASE TerminateGets
  BY <1>6, GetsKeep
<1>7. CASE TerminateReads
  BY <1>7, FinishKeeps
<1>8. CASE UNCHANGED vars
  BY <1>8, LogStutters
<1> QED BY <1>1, <1>2, <1>3, <1>4, <1>5, <1>6, <1>7, <1>8 DEF Next

\* What the inductive invariant says of the log task
LEMMA LogInvHonest == LogInv => LogTaskIsHonest
<1> SUFFICES ASSUME LogInv PROVE LogTaskIsHonest
  OBVIOUS
<1>1. LtTypeInv /\ MaskInv /\ QueueInv /\ NumbersInv /\ PortInv /\ OutInv
  BY DEF LogInv
<1>2. /\ Gone \in Nat /\ LastRead \in 0 .. Gone /\ syslog_lost = Gone - LastRead
      /\ logbuf \in 0 .. LastRead /\ logbuf \notin lostnos
      /\ lostnos \in SUBSET (1 .. Gone) /\ LastRead + 1 .. Gone \subseteq lostnos
      /\ syslog_lost \in Nat /\ Gone <= written /\ written \in Nat
  BY <1>1, NumberFacts DEF NumbersInv
<1>3. port \in Seq(MESSAGE) /\ sent \in 0 .. Len(port) /\ Len(port) \in Nat
  BY <1>1 DEF QueueInv
<1>4. LogTaskTypeOK
  <2>1. /\ written \in 0 .. MaxLog /\ logbuf \in 0 .. written
    BY <1>1, <1>2, EntryAssumption DEF LtTypeInv
  <2>2. lostnos \subseteq 1 .. written
    <3>1. 1 .. Gone \subseteq 1 .. written
      BY <1>2
    <3> QED BY <1>2, <3>1
  <2>3. lostlog \in 0 .. written
    BY <1>1, LossesBounded DEF QueueInv
  <2>4. ASSUME NEW i \in DOMAIN port
        PROVE  port[i] \in [entry : 0 .. written, lost : 0 .. written]
    <3>1. port[i] \in MESSAGE
      BY <1>3
    <3>2. port[i].entry \in 0 .. logbuf /\ port[i].lost <= written
      BY <1>1, PortEntries DEF QueueInv
    <3>3. port[i].entry \in 0 .. written /\ port[i].lost \in 0 .. written
      BY <1>2, <2>1, <3>1, <3>2 DEF MESSAGE
    <3> QED BY <3>1, <3>3 DEF MESSAGE
  <2> QED BY <1>1, <2>1, <2>2, <2>3, <2>4 DEF LogTaskTypeOK, LtTypeInv, QueueInv
<1>5. NoneUnheard
  BY <1>1, EntryAssumption DEF NoneUnheard, MaskInv
<1>6. LossesAdd
  <2>1. SUFFICES ASSUME Running
                 PROVE  Lost(port) + lostlog + syslog_lost = Cardinality(lostnos)
    BY DEF LossesAdd
  <2>2. logbuf = LastRead
    BY <1>1, <2>1 DEF NumbersInv
  <2>3. Cardinality(lostnos) = Cardinality(lostnos \cap (1 .. LastRead)) + (Gone - LastRead)
    BY <1>2, LostSplit
  <2>4. Lost(port) + lostlog = Cardinality(lostnos \cap (1 .. LastRead))
    BY <1>1, <2>2 DEF PortInv
  <2> QED BY <1>2, <2>3, <2>4
<1>7. ToldInPlace
  BY <1>1 DEF PortInv
<1>8. TerminatedIsOut
  <2>1. SUFFICES ASSUME kernel = "terminated"
                 PROVE  /\ Wanted(written) \subseteq Printed(Output) \cup InHand
                        /\ InOrder(Output)
    BY DEF TerminatedIsOut, Wanted
  <2>2. /\ Len(Output) >= Len(port) /\ syslog_buffer.count = 0 /\ InOrder(Output)
        /\ Wanted(LastRead) \ (1 .. logbuf) \subseteq Printed(Output)
        /\ \A i \in DOMAIN port : i \in DOMAIN Output => Output[i] = port[i]
    BY <1>1, <2>1 DEF OutInv
  <2>3. Gone = written
    BY <1>2, <2>2 DEF Gone
  <2>4. Output \in Seq(MESSAGE)
    BY <1>1, <1>3 DEF Output, QueueInv
  <2>5. Printed(port) \subseteq Printed(Output)
    <3>1. ASSUME NEW i \in DOMAIN port
          PROVE  port[i] \in Range(Output)
      <4>1. i \in DOMAIN Output
        BY <1>3, <2>2, <2>4
      <4> QED BY <2>2, <4>1 DEF Range
    <3>2. Range(port) \subseteq Range(Output)
      BY <3>1 DEF Range
    <3> QED BY <3>2 DEF Printed
  <2>6. Printed(port) = Wanted(logbuf) \ InHand
    BY <1>1 DEF PortInv
  <2>7. ASSUME NEW x \in Wanted(written)
        PROVE  x \in Printed(Output) \cup InHand
    <3>1. x \in 1 .. written /\ x \notin lostnos /\ x \notin hidden
      BY DEF Wanted
    <3>2. x \in 1 .. LastRead
      BY <1>2, <2>3, <3>1
    <3>3. CASE x \in 1 .. logbuf
      BY <2>5, <2>6, <3>1, <3>3 DEF Wanted
    <3>4. CASE x \notin 1 .. logbuf
      BY <2>2, <3>1, <3>2, <3>4 DEF Wanted
    <3> QED BY <3>3, <3>4
  <2> QED BY <2>2, <2>7
<1> QED BY <1>4, <1>5, <1>6, <1>7, <1>8 DEF LogTaskIsHonest

\* The inductive invariant of the log task: the numbers of the entries in the log, of
\* those lost and of those on the port fit together, wherever the log task is.
THEOREM LogInvariance == Spec => []LogInv
<1> QED BY LogStarts, LogSteps, PTL DEF Spec

\* When logtask_flush(0) succeeds, every entry recorded before it found the log empty
\* has left the port or was lost, but for one in hand of the log task.
LEMMA FlushingIsOut ==
    ASSUME LogInv, [Next]_vars
    PROVE  FlushesAll
<1> SUFFICES ASSUME flush = "por" /\ flush' = "idle"
             PROVE  Wanted(mark) \subseteq Printed(SubSeq(port, 1, sent)) \cup InHand
  BY DEF FlushesAll, Wanted
<1>1. FlushRefsPort
  <2>1. flush' # flush
    OBVIOUS
  <2> QED
    BY <2>1 DEF Next, vars, flushVars, Writes, Log, LogTaskStep, LtStarts, LtReads,
       LtTellsLoss, LtPrints, LtRests, LtResumes, Sends, FlushCalled, FlushStep, FlushRefs,
       FlushWakes, FlushReleased, ExtKer, TerminateGets, TerminateReads, TerminateEnds
<1>2. LtTypeInv /\ QueueInv /\ NumbersInv /\ PortInv /\ mark <= Gone /\ Running /\ sent = Len(port)
  BY <1>1 DEF LogInv, FlushInv, FlushRefsPort
<1>3. /\ Gone \in Nat /\ LastRead \in 0 .. Gone /\ LastRead + 1 .. Gone \subseteq lostnos
      /\ logbuf = LastRead /\ mark \in Nat
  BY <1>2, NumberFacts DEF NumbersInv, LtTypeInv
<1>4. SubSeq(port, 1, sent) = port
  BY <1>2 DEF QueueInv
<1>5. ASSUME NEW x \in Wanted(mark)
      PROVE  x \in Printed(port) \cup InHand
  <2>1. x \in 1 .. mark /\ x \notin lostnos /\ x \notin hidden
    BY DEF Wanted
  <2>2. x \in 1 .. logbuf
    BY <1>2, <1>3, <2>1
  <2> QED BY <1>2, <2>1, <2>2 DEF PortInv, Wanted
<1> QED BY <1>4, <1>5

-----------------------------------------------------------------------------
(***************************************************************************)
(* The services side by side (MCServices)                                  *)
(***************************************************************************)

\* The inductive invariant: that of the part explored.  Nothing is logged in the
\* others, so that the invariant of the log holds in each.
ServicesInv ==
    /\ part \in {"log", "loader", "cyclic", "tex"}
    /\ LogInv
    /\ part = "loader" => LoaderInv
    /\ part = "cyclic" => CycInv
    /\ part = "tex" => TexInv

servicesVars == <<vars, part, loaderOnly, cycOnly, texOnly>>

\* One part is explored, and every part starts in order.
LEMMA ServicesInit == MCInit => ServicesInv
<1>1. MCInit => LogInv
  BY LogStarts DEF MCInit, NoLog
<1>2. MCInit => /\ part \in {"log", "loader", "cyclic", "tex"}
                /\ part = "loader" => Loader!Init
                /\ part = "cyclic" => Cyc!Init
                /\ part = "tex" => Tex!Init
  BY DEF MCInit
<1> QED
  BY <1>1, <1>2, LoaderInit, CycInitInv, TexInitInv, MCServicesAssumption
     DEF ServicesInv, MCServicesAssumption

\* Every step is one of the part explored, or none, and leaves the log alone unless
\* the log is explored.
LEMMA StepsOfParts ==
    ASSUME ServicesInv, [MCNext]_servicesVars
    PROVE  /\ part' = part
           /\ [Next]_vars /\ (part # "log" => UNCHANGED vars)
           /\ part = "loader" => [Loader!Next]_Loader!vars
           /\ part = "cyclic" => [Cyc!Next]_Cyc!vars
           /\ part = "tex" => [Tex!Next]_Tex!vars
<1>1. CASE MCNext
  BY <1>1 DEF MCNext, LogRuns, LoaderRuns, CyclicRuns, TexRuns
<1>2. CASE UNCHANGED servicesVars
  <2>1. UNCHANGED <<vars, part, loaderOnly, cycOnly, texOnly>>
    BY <1>2 DEF servicesVars
  <2>2. UNCHANGED Loader!vars
    BY <2>1 DEF loaderOnly, Loader!vars, Loader!loaderVars, Loader!cardVars, Loader!usbVars
  <2>3. UNCHANGED Cyc!vars
    BY <2>1 DEF cycOnly, Cyc!vars, Cyc!tableVars, Cyc!tskVars, Cyc!cycVars, Cyc!appVars,
                Cyc!termVars
  <2>4. UNCHANGED Tex!vars
    BY <2>1 DEF texOnly, Tex!vars, Tex!tcbVars, Tex!sysVars
  <2> QED
    BY <2>1, <2>2, <2>3, <2>4
<1> QED
  BY <1>1, <1>2

\* Every step keeps the invariant of the part it is taken in.
LEMMA ServicesStep == ServicesInv /\ [MCNext]_servicesVars => ServicesInv'
<1>1. SUFFICES ASSUME ServicesInv, [MCNext]_servicesVars
               PROVE  ServicesInv'
  OBVIOUS
<1>2. LogInv'
  BY <1>1, StepsOfParts, LogSteps DEF ServicesInv
<1>3. part = "loader" => LoaderInv'
  BY <1>1, StepsOfParts, LoaderStep, MCServicesAssumption
     DEF ServicesInv, MCServicesAssumption
<1>4. part = "cyclic" => CycInv'
  BY <1>1, StepsOfParts, CycStep, MCServicesAssumption DEF ServicesInv, MCServicesAssumption
<1>5. part = "tex" => TexInv'
  BY <1>1, StepsOfParts, TexStep, MCServicesAssumption DEF ServicesInv, MCServicesAssumption
<1> QED
  BY <1>1, <1>2, <1>3, <1>4, <1>5, StepsOfParts DEF ServicesInv

\* The invariant of whichever service is explored
THEOREM ServicesInvariance == MCSpec => []ServicesInv
BY ServicesInit, ServicesStep, PTL DEF MCSpec, servicesVars

\* Whoever logs when, and wherever the system is terminated, what comes out of the port
\* and of logtask_terminate is the log: each entry in its order, none missing but the
\* one in hand, and each loss told right before the entry that followed it.
THEOREM LogTaskAlwaysHonest == MCSpec => []LogTaskIsHonest
BY ServicesInvariance, LogInvHonest, PTL DEF ServicesInv

\* The console, the application and the USB task share the card by one semaphore,
\* and what the tasks of the loader find when they go on is what they assert.
THEOREM LoaderAlwaysConsistent == MCSpec => []LoaderConsistent
<1>1. ServicesInv => LoaderConsistent
  BY LoaderInvImplies DEF ServicesInv, LoaderConsistent
<1> QED
  BY <1>1, ServicesInvariance, PTL

\* The table of cyclic handlers agrees with the tasks and handlers of the kernel also
\* while entries are made or removed, whichever of the tasks, the timer interrupt and
\* the terminating task comes first.
THEOREM CyclicsAlwaysConsistent == MCSpec => []CyclicsConsistent
<1>1. ServicesInv => CyclicsConsistent
  BY CycInvImplies, MCServicesAssumption
     DEF ServicesInv, CyclicsConsistent, MCServicesAssumption
<1> QED
  BY <1>1, ServicesInvariance, PTL

\* The routine of a task starts at once in every exit but the two that overlook it;
\* the interrupted code finds the mask, the dispatching and, in a system task, the
\* exceptions as it left them; and a routine of a system task is interrupted by another
\* only after it has called ena_tex, however deep they nest and however often one is
\* called again (task_except.c:75-357, core_support.S).
THEOREM RoutinesAlwaysInContext == MCSpec => []RoutinesInContext
<1>1. ServicesInv => RoutinesInContext
  BY TexInvImplies, MCServicesAssumption
     DEF ServicesInv, RoutinesInContext, MCServicesAssumption
<1> QED
  BY <1>1, ServicesInvariance, PTL

\* When logtask_flush(0) succeeds, every entry recorded before it found the log empty
\* has left the port or was lost, but for one in hand of the log task; and a USB task
\* that waits for the card has it before the console goes on.
THEOREM NobodyIsEverPassedOver == MCSpec => NobodyIsPassedOver
<1>1. ServicesInv /\ [MCNext]_servicesVars =>
          [FlushesAll /\ (part = "loader" => Loader!HandsToUsb)]_<<vars, loaderOnly>>
  <2>1. SUFFICES ASSUME ServicesInv, [MCNext]_servicesVars, ~UNCHANGED <<vars, loaderOnly>>
                 PROVE  FlushesAll /\ (part = "loader" => Loader!HandsToUsb)
    OBVIOUS
  <2>2. FlushesAll
    BY <2>1, StepsOfParts, FlushingIsOut DEF ServicesInv
  <2>3. ASSUME part = "loader"
        PROVE  Loader!HandsToUsb
    <3>1. UNCHANGED vars /\ ~UNCHANGED loaderOnly
      BY <2>1, <2>3, StepsOfParts
    <3>2. Loader!Next
      BY <2>1, <2>3, <3>1, StepsOfParts
         DEF loaderOnly, Loader!vars, Loader!loaderVars, Loader!cardVars, Loader!usbVars
    <3> QED
      BY <2>1, <2>3, <3>2, CardGoesToUsb DEF ServicesInv
  <2> QED
    BY <2>2, <2>3
<1> QED
  BY <1>1, ServicesInvariance, PTL DEF MCSpec, servicesVars, NobodyIsPassedOver

\* The log task, its clients and logtask_terminate use the log by its calls only.
LEMMA LogIsUsedByCalls ==
    ASSUME LogInv, [Next]_vars
    PROVE  [LogNext]_logVars
<1>1. ASSUME NEW prio \in PRIO, Writes(prio)
      PROVE  [LogNext]_logVars
  <2>1. WriLog(written + 1, prio) /\ (prio \in syslog_logmask => written < MaxLog)
    BY <1>1 DEF Writes, Log
  <2>2. CASE prio \in syslog_logmask
    <3>1. written + 1 \in DATA
      BY <2>1, <2>2, EntryAssumption DEF LogInv, NumbersInv
    <3> QED
      BY <2>1, <3>1 DEF LogNext
  <2>3. CASE prio \notin syslog_logmask
    BY <2>1, <2>3 DEF WriLog, logVars, bufVars, maskVars
  <2> QED
    BY <2>2, <2>3
<1>2. CASE LtStarts
  <2>1. LogUptoNotice \in SUBSET PRIO /\ LogUptoEmerg \in SUBSET PRIO
    BY EntryAssumption
  <2> QED
    BY <1>2, <2>1 DEF LtStarts, LogNext
<1>3. CASE LtReads \/ TerminateReads
  BY <1>3 DEF LtReads, TerminateReads, LogNext
<1>4. CASE UNCHANGED vars
  BY <1>4 DEF vars
<1> QED
  BY <1>1, <1>2, <1>3, <1>4 DEF Next, LogTaskStep, LtTellsLoss, LtPrints, LtRests, LtResumes,
     Sends, FlushCalled, FlushStep, FlushRefs, FlushRefsPort, FlushWakes, FlushReleased,
     ExtKer, TerminateGets, TerminateEnds

\* Whatever the log task and logtask_terminate do between two calls, the buffer of the
\* log stays whole and its reader is told just what was lost.
THEOREM LogAlwaysLossy == MCSpec => []BufferConsistent /\ IsLossyLog
<1>1. MCInit => LogInit
  BY DEF MCInit, NoLog, Init
<1>2. ServicesInv /\ [MCNext]_servicesVars => [LogNext]_logVars
  BY StepsOfParts, LogIsUsedByCalls DEF ServicesInv
<1>3. MCSpec => LogSpec
  BY <1>1, <1>2, ServicesInvariance, PTL DEF MCSpec, servicesVars, LogSpec
<1> QED
  BY <1>3, LogBufferStaysConsistent, LogIsLossyLog
=============================================================================
