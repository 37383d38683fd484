-------------------------------- MODULE EV3Cyclic --------------------------------
(***************************************************************************)
(* The cyclic handlers of EV3RT applications (ev3cyclic_dri.c): each is a  *)
(* kernel cyclic handler that activates a task.  Tasks of the application  *)
(* create, start and stop them; the timer interrupt runs the handlers; the *)
(* loader destroys them all at any moment, when it terminates the          *)
(* application, and loads the next one.                                    *)
(*                                                                         *)
(* The terminating task has a higher priority than the application and     *)
(* does not wait while it destroys.  A failed assertion stops the system.  *)
(* A task whose activation is queued is started again by ter_tsk, so that  *)
(* it lives on when its application is gone.                               *)
(***************************************************************************)
EXTENDS Integers

CONSTANTS
    AppTask,            \* the tasks of the application
    TMAX_EV3_CYC_NUM,
    TSKID, CYCID,       \* the kernel's IDs for tasks and cyclic handlers
    MaxLoad             \* bound: applications loaded

ErrorCode == -1         \* in place of an ID; 0 is that of the initial table

IdAssumption ==
    /\ {0, ErrorCode} \cap TSKID = {} /\ {0, ErrorCode} \cap CYCID = {}
    /\ TMAX_EV3_CYC_NUM \in Nat /\ MaxLoad \in Nat

VARIABLES
    tmax_ev3cycid, cycinib,     \* the table, of the task and the cyclic handler
    tsk, act,       \* the tasks that exist, and their pending activations
    cyc, on, slot,  \* the cyclic handlers that exist, run, and their entries
    pc, my, new,    \* where each task of the application is, its entry and new ID
    given,          \* the IDs __ev3_acre_cyc has returned
    quiet,          \* those that were stopped after they were last started
    dsp,            \* whether dispatching is enabled
    term, k, count, \* where the terminating task is
    loads,
    left,           \* the tasks that ter_tsk has started again
    cut,            \* an application was terminated while it created a handler
    failed          \* the assertion that failed

tableVars == <<tmax_ev3cycid, cycinib>>
tskVars   == <<tsk, act>>
cycVars   == <<cyc, on, slot>>
appVars   == <<pc, my, new, given, quiet, dsp>>
termVars  == <<term, k, count, loads, left, cut>>
vars      == <<tableVars, tskVars, cycVars, appVars, termVars, failed>>

Ev3CycId == 1 .. TMAX_EV3_CYC_NUM
Running  == failed = "none"

\* Task a runs and is at label.
At(a, label) ==
    /\ Running /\ term = "none"
    /\ pc[a] = label
    /\ dsp \/ pc[a] \in {"stops", "cancels"}

Goto(a, label) == pc' = [pc EXCEPT ![a] = label]

-----------------------------------------------------------------------------
\* __ev3_acre_cyc: an entry is counted with the CPU locked, then a task and a
\* cyclic handler are created, and each is entered after it exists.
\* Fault: one entry too many.
CountsPast(a) ==
    /\ At(a, "runs")
    /\ IF tmax_ev3cycid > TMAX_EV3_CYC_NUM
       THEN failed' = "acre" /\ UNCHANGED <<tmax_ev3cycid, my, pc>>
       ELSE /\ tmax_ev3cycid' = tmax_ev3cycid + 1
            /\ my' = [my EXCEPT ![a] = tmax_ev3cycid']
            /\ Goto(a, "counted")
            /\ UNCHANGED failed
    /\ UNCHANGED <<cycinib, tskVars, cycVars, new, given, quiet, dsp, termVars>>

\* Fault: the CPU is not locked, and another task has read the count before.
CountsUnlocked(a) ==
    /\ At(a, "runs")
    /\ IF tmax_ev3cycid >= TMAX_EV3_CYC_NUM
       THEN failed' = "acre" /\ UNCHANGED <<tmax_ev3cycid, my, pc>>
       ELSE /\ tmax_ev3cycid' = IF \E b \in AppTask : pc[b] = "counted"
                                THEN tmax_ev3cycid ELSE tmax_ev3cycid + 1
            /\ my' = [my EXCEPT ![a] = tmax_ev3cycid']
            /\ Goto(a, "counted")
            /\ UNCHANGED failed
    /\ UNCHANGED <<cycinib, tskVars, cycVars, new, given, quiet, dsp, termVars>>

Counts(a) ==
    /\ At(a, "runs")
    /\ IF tmax_ev3cycid >= TMAX_EV3_CYC_NUM
       THEN failed' = "acre" /\ UNCHANGED <<tmax_ev3cycid, my, pc>>
       ELSE /\ tmax_ev3cycid' = tmax_ev3cycid + 1
            /\ my' = [my EXCEPT ![a] = tmax_ev3cycid']
            /\ Goto(a, "counted")
            /\ UNCHANGED failed
    /\ UNCHANGED <<cycinib, tskVars, cycVars, new, given, quiet, dsp, termVars>>

\* acre_tsk: any free ID, or an error: E_NOSPT when malloc_ex has found no stack,
\* E_NOMEM, or E_NOID, which leftover tasks may cause.  It is only reported.
MakesTask(a) ==
    /\ At(a, "counted")
    /\ \/ \E t \in TSKID \ tsk :
             tsk' = tsk \cup {t} /\ act' = [act EXCEPT ![t] = 0] /\ new' = [new EXCEPT ![a] = t]
       \/ new' = [new EXCEPT ![a] = ErrorCode] /\ UNCHANGED tskVars
    /\ Goto(a, "made")
    /\ UNCHANGED <<tableVars, cycVars, my, given, quiet, dsp, termVars, failed>>

\* Fault: the cyclic handler is created before the task is entered.
EntersLater(a) ==
    /\ At(a, "made")
    /\ Goto(a, "entered")
    /\ UNCHANGED <<tableVars, tskVars, cycVars, my, new, given, quiet, dsp, termVars, failed>>

EntersTask(a) ==
    /\ At(a, "made")
    /\ cycinib' = [cycinib EXCEPT ![my[a]].task = new[a]]
    /\ Goto(a, "entered")
    /\ UNCHANGED <<tmax_ev3cycid, tskVars, cycVars, my, new, given, quiet, dsp, termVars, failed>>

\* acre_cyc, also without a task: the attribute may be TA_STA; an error (E_NOID, or
\* E_PAR for what the application has passed) is only reported.
MakesCyc(a) ==
    /\ At(a, "entered")
    /\ \/ \E c \in CYCID \ cyc, sta \in BOOLEAN :
             /\ cyc' = cyc \cup {c}
             /\ on' = IF sta THEN on \cup {c} ELSE on
             /\ slot' = [slot EXCEPT ![c] = my[a]]
             /\ new' = [new EXCEPT ![a] = c]
       \/ new' = [new EXCEPT ![a] = ErrorCode] /\ UNCHANGED cycVars
    /\ Goto(a, "cycled")
    /\ UNCHANGED <<tableVars, tskVars, my, given, quiet, dsp, termVars, failed>>

EntersCyc(a) ==
    /\ At(a, "cycled")
    /\ cycinib' = [cycinib EXCEPT ![my[a]].cyclic = new[a]]
    /\ given' = given \cup {my[a]}
    /\ my' = [my EXCEPT ![a] = 0] /\ new' = [new EXCEPT ![a] = 0]
    /\ Goto(a, "runs")
    /\ UNCHANGED <<tmax_ev3cycid, tskVars, cycVars, quiet, dsp, termVars, failed>>

\* __ev3_sta_cyc
Starts(a, id) ==
    /\ At(a, "runs") /\ id \in given
    /\ IF cycinib[id].cyclic \in cyc
       THEN on' = on \cup {cycinib[id].cyclic} /\ UNCHANGED failed
       ELSE failed' = "sta" /\ UNCHANGED on
    /\ quiet' = quiet \ {id}
    /\ UNCHANGED <<tableVars, tskVars, cyc, slot, pc, my, new, given, dsp, termVars>>

\* __ev3_stp_cyc, with dispatching disabled; the interrupt is not.
StopCalled(a, id) ==
    /\ At(a, "runs") /\ id \in given
    /\ dsp' = FALSE
    /\ my' = [my EXCEPT ![a] = id]
    /\ Goto(a, "stops")
    /\ UNCHANGED <<tableVars, tskVars, cycVars, new, given, quiet, termVars, failed>>

\* Fault: the activations are cancelled before the handler is stopped.
StopCancelsFirst(a) ==
    /\ At(a, "stops")
    /\ act' = [act EXCEPT ![cycinib[my[a]].task] = IF @ > 1 THEN 1 ELSE @]
    /\ Goto(a, "cancels")
    /\ UNCHANGED <<tableVars, tsk, cycVars, my, new, given, quiet, dsp, termVars, failed>>

StopStops(a) ==
    /\ At(a, "stops")
    /\ IF cycinib[my[a]].cyclic \in cyc
       THEN on' = on \ {cycinib[my[a]].cyclic} /\ UNCHANGED failed
       ELSE failed' = "stp" /\ UNCHANGED on
    /\ Goto(a, "cancels")
    /\ UNCHANGED <<tableVars, tskVars, cyc, slot, my, new, given, quiet, dsp, termVars>>

\* can_act, of a task that may be running.
StopCancels(a) ==
    LET t == cycinib[my[a]].task
    IN  /\ At(a, "cancels")
        /\ IF t \in tsk THEN act' = [act EXCEPT ![t] = IF @ > 1 THEN 1 ELSE @] /\ UNCHANGED failed
                        ELSE failed' = "can" /\ UNCHANGED act
        /\ quiet' = quiet \cup {my[a]}
        /\ dsp' = TRUE
        /\ my' = [my EXCEPT ![a] = 0]
        /\ Goto(a, "runs")
        /\ UNCHANGED <<tableVars, tsk, cycVars, new, given, termVars>>

-----------------------------------------------------------------------------
\* ev3_cyc_cychdr, from the timer interrupt: iact_tsk; 2 is one queued.
Fires(c) ==
    /\ Running /\ c \in on
    /\ LET t == cycinib[slot[c]].task
       IN  act' = IF t \in tsk /\ act[t] < 2 THEN [act EXCEPT ![t] = @ + 1] ELSE act
    /\ UNCHANGED <<tableVars, tsk, cycVars, appVars, termVars, failed>>

\* ev3_cyc_tsk returns, and starts again if it is queued.  A task that is left runs
\* when the terminating task is done.
TaskReturns(t) ==
    /\ Running /\ term \in {"none", "unloaded"} /\ dsp
    /\ t \in tsk /\ act[t] > 0
    /\ act' = [act EXCEPT ![t] = @ - 1]
    /\ UNCHANGED <<tableVars, tsk, cycVars, appVars, termVars, failed>>

-----------------------------------------------------------------------------
Load ==
    /\ Running /\ term = "unloaded" /\ loads < MaxLoad
    /\ loads' = loads + 1
    /\ term' = "none"
    /\ pc' = [a \in AppTask |-> "runs"]
    /\ UNCHANGED <<tableVars, tskVars, cycVars, my, new, given, quiet, dsp, k, count, left, cut,
                   failed>>

\* destroy_all_ev3cyc
TermStarts ==
    /\ Running /\ term = "none" /\ dsp
    /\ count' = tmax_ev3cycid /\ tmax_ev3cycid' = 0
    /\ k' = 1
    /\ term' = "cyc"
    /\ cut' = (cut \/ \E a \in AppTask : pc[a] # "runs")
    /\ UNCHANGED <<cycinib, tskVars, cycVars, appVars, loads, left, failed>>

TermDelCyc ==
    /\ Running /\ term = "cyc" /\ k <= count
    /\ cyc' = cyc \ {cycinib[k].cyclic} /\ on' = on \ {cycinib[k].cyclic}
    /\ term' = "ter"
    /\ UNCHANGED <<tableVars, tskVars, slot, appVars, k, count, loads, left, cut, failed>>

\* Fault: the handler may still activate the task.
TermKeepsCyc ==
    /\ Running /\ term = "cyc" /\ k <= count
    /\ term' = "ter"
    /\ UNCHANGED <<tableVars, tskVars, cycVars, appVars, k, count, loads, left, cut, failed>>

\* Fault: the task is not terminated.
TermLeavesTsk ==
    /\ Running /\ term = "ter"
    /\ failed' = IF cycinib[k].task \in tsk THEN failed ELSE "ter"
    /\ term' = "del"
    /\ UNCHANGED <<tableVars, tskVars, cycVars, appVars, k, count, loads, left, cut>>

\* ter_tsk starts the task again if an activation is queued.  The assertion takes E_OK,
\* and E_OBJ of a dormant task.
TermTerTsk ==
    LET t == cycinib[k].task
    IN  /\ Running /\ term = "ter"
        /\ IF t \in tsk
           THEN /\ act' = [act EXCEPT ![t] = IF @ = 2 THEN 1 ELSE 0]
                /\ left' = IF act[t] = 2 THEN left \cup {t} ELSE left
                /\ UNCHANGED failed
           ELSE failed' = "ter" /\ UNCHANGED <<act, left>>
        /\ term' = "del"
        /\ UNCHANGED <<tableVars, tsk, cycVars, appVars, k, count, loads, cut>>

\* E_OBJ of del_tsk, for a task that was started again, is only reported, as is E_ID.
TermDelTsk ==
    /\ Running /\ term = "del"
    /\ tsk' = IF act[cycinib[k].task] = 0 THEN tsk \ {cycinib[k].task} ELSE tsk
    /\ k' = k + 1
    /\ term' = "cyc"
    /\ UNCHANGED <<tableVars, act, cycVars, appVars, count, loads, left, cut, failed>>

\* The rest of dmloader_rmv_ldm: the tasks of the application are terminated and
\* deleted, which is asserted: one that is activated again then stops the system.
TermDelApp ==
    /\ Running /\ term = "cyc" /\ k > count
    /\ failed' \in {"none", "app"}
    /\ term' = "unloaded" /\ k' = 0 /\ count' = 0
    /\ pc' = [a \in AppTask |-> "none"]
    /\ my' = [a \in AppTask |-> 0] /\ new' = my'
    /\ given' = {} /\ quiet' = {}
    /\ UNCHANGED <<tableVars, tskVars, cycVars, dsp, loads, left, cut>>

-----------------------------------------------------------------------------
Init ==
    /\ tmax_ev3cycid = 0
    /\ cycinib = [id \in Ev3CycId |-> [task |-> 0, cyclic |-> 0]]
    /\ tsk = {} /\ act = [t \in TSKID |-> 0]
    /\ cyc = {} /\ on = {} /\ slot = [c \in CYCID |-> 0]
    /\ pc = [a \in AppTask |-> "none"] /\ my = [a \in AppTask |-> 0] /\ new = my
    /\ given = {} /\ quiet = {} /\ dsp = TRUE
    /\ term = "unloaded" /\ k = 0 /\ count = 0 /\ loads = 0 /\ left = {} /\ cut = FALSE
    /\ failed = "none"

Creates(a) == Counts(a) \/ MakesTask(a) \/ EntersTask(a) \/ MakesCyc(a) \/ EntersCyc(a)
AppNext(a) ==
    \/ Creates(a)
    \/ StopStops(a) \/ StopCancels(a)
    \/ \E id \in Ev3CycId : Starts(a, id) \/ StopCalled(a, id)
TermNext == TermStarts \/ TermDelCyc \/ TermTerTsk \/ TermDelTsk \/ TermDelApp

Next ==
    \/ \E a \in AppTask : AppNext(a)
    \/ \E c \in CYCID : Fires(c)
    \/ \E t \in TSKID : TaskReturns(t)
    \/ Load \/ TermNext

Spec == Init /\ [][Next]_vars

-----------------------------------------------------------------------------
TypeOK ==
    /\ tmax_ev3cycid \in 0 .. TMAX_EV3_CYC_NUM /\ count \in 0 .. TMAX_EV3_CYC_NUM
    /\ cycinib \in [Ev3CycId -> [task : TSKID \cup {0, ErrorCode},
                                 cyclic : CYCID \cup {0, ErrorCode}]]
    /\ tsk \subseteq TSKID /\ left \subseteq TSKID /\ act \in [TSKID -> 0 .. 2]
    /\ on \subseteq cyc /\ cyc \subseteq CYCID /\ slot \in [CYCID -> 0 .. TMAX_EV3_CYC_NUM]
    /\ my \in [AppTask -> 0 .. TMAX_EV3_CYC_NUM]
    /\ given \subseteq Ev3CycId /\ quiet \subseteq given /\ loads \in 0 .. MaxLoad
    /\ ~dsp => term = "none"

\* A handler that runs activates the task created for it, which exists, from
\* the moment the handler can run until it is deleted; or there was no task to create.
HandlerHasTask ==
    ~cut => \A c \in on : cycinib[slot[c]].task \in tsk \cup {ErrorCode}

\* Once __ev3_stp_cyc has returned, no activation of the task is queued and
\* none comes, though the interrupt ran between its two calls.
StoppedIsQuiet ==
    failed = "none" /\ ~cut =>
        \A id \in quiet : cycinib[id].cyclic \notin on /\ act[cycinib[id].task] <= 1

\* An application that is not creating a handler when it is terminated leaves no
\* cyclic handler behind, and no task but those that had an activation queued.
NothingOutlives ==
    failed = "none" /\ term = "unloaded" /\ ~cut => tsk = left /\ cyc = {}

\* While no task is creating a handler, the table holds every cyclic handler there is,
\* and every task but those of earlier applications, although entries are filled in
\* side by side: nothing else is out of the reach of destroy_all_ev3cyc.
AllInTable ==
    LET entries == {cycinib[id] : id \in 1 .. tmax_ev3cycid}
    IN  term = "none" /\ ~cut /\ (\A a \in AppTask : pc[a] \in {"runs", "stops", "cancels"}) =>
            /\ tsk = ({e.task : e \in entries} \ {0, ErrorCode}) \cup left
            /\ cyc = {e.cyclic : e \in entries} \ {0, ErrorCode}

\* What application tasks, the timer interrupt and the terminating task may rely on.
CyclicsConsistent ==
    TypeOK /\ HandlerHasTask /\ StoppedIsQuiet /\ NothingOutlives /\ AllInTable

\* "Destroy all EV3CYCs" (dmloader.c): no handler outlives its application.
AllDestroyed == failed = "none" /\ term = "unloaded" => cyc = {}

\* assert(ercd == E_OK || ercd == E_OBJ), of ter_tsk in destroy_all_ev3cyc.
TerAccepted == failed # "ter"
=============================================================================
