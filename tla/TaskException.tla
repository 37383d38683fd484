------------------------------ MODULE TaskException ------------------------------
(***************************************************************************)
(* Task exception handling: when the exception routine of a task starts,   *)
(* and what it gives back when it returns (kernel/task_except.c, task.c,   *)
(* and the exits of the dispatcher, of interrupts and of service calls in  *)
(* arch/arm_gcc/common/core_support.S).                                    *)
(*                                                                         *)
(* One task, a system task or a user task, calls services and extended     *)
(* services; interrupts and a task of higher priority raise exceptions.    *)
(* levels is its stack: its own code, then a routine over the code it      *)
(* interrupted.  A level also records what its code has made of the state, *)
(* which the routines above it must give back.                             *)
(***************************************************************************)
EXTENDS Naturals, SequencesExt

CONSTANTS
    Domains,    \* the domains explored: {FALSE}, {TRUE} or both, see user
    LowFactor, HighFactor,  \* exception factors in the lowest byte, and above
    MaxNest     \* bound: ena_tex is called below this number of levels

TexAssumption == Domains \subseteq BOOLEAN /\ MaxNest \in Nat

Factor == LowFactor \cup HighFactor

VARIABLES
    texptn, enatex, svclevel,   \* of the TCB; svclevel is 0 or 1
    ipmflg, disdsp, locked,     \* of the system
    levels,
    mode,       \* "run", or "svc": a service call of a user task, before its exit
    resume,     \* "none": the task runs; or where it goes on when dispatched
    hready,     \* the other task is ready
    acptn,      \* 1: the domain of the task may disable dispatching,
                \* 2: it may lock the CPU and mask interrupts
    user,       \* whether this is a user domain, which no step changes
    overlooked  \* the exit that last left a routine unstarted

tcbVars == <<texptn, enatex, svclevel>>
sysVars == <<ipmflg, disdsp, locked>>
vars    == <<tcbVars, sysVars, levels, mode, resume, hready, acptn, user, overlooked>>

Level   == levels[Len(levels)]
Runs    == resume = "none" /\ mode = "run"
dspflg  == ipmflg /\ ~disdsp
InKernel(level) == ~user \/ level > 0       \* rundom == TACP_KERNEL

\* The code of the level at hand leaves this behind.
Own(ena, ipm, dis) == [Level EXCEPT !.enatex = ena, !.ipmflg = ipm, !.disdsp = dis]
Leaves(level)      == levels' = [levels EXCEPT ![Len(levels)] = level]

Routine(kind) == [kind |-> kind, saved |-> disdsp, svclevel |-> svclevel, asked |-> FALSE,
                  enatex |-> FALSE, ipmflg |-> TRUE, disdsp |-> disdsp]

-----------------------------------------------------------------------------
\* call_texrtn_stask and prepare_texrtn_utask up to the call of the routine.
Start(kind) ==
    /\ levels' = Append(levels, Routine(kind))
    /\ texptn' = {} /\ enatex' = FALSE /\ locked' = FALSE
    /\ mode' = "run" /\ overlooked' = "none"

Passes == UNCHANGED <<levels, texptn, enatex, overlooked, locked, mode>>

Overlooks(exit) ==
    /\ overlooked' = exit /\ mode' = "run"
    /\ UNCHANGED <<levels, texptn, enatex, locked>>

Due == enatex /\ texptn # {} /\ ipmflg

\* The exit of an interrupt, in a task that ran or was resumed there.
\* Fault: an exception raised while the task was not running is not looked for.
RetIntSkips == Passes

RetInt ==
    CASE Due /\ InKernel(svclevel) /\ svclevel = 0 -> Start("stask")
      [] Due /\ ~InKernel(svclevel) /\ mode = "run" -> Start("utask")
      [] OTHER -> Passes

\* dispatch_r: r1 holds the address of ipmflg, not of the TCB, when svclevel
\* is loaded through it; what is there is any value, zero or not.
DispatchR ==
    IF Due /\ InKernel(svclevel)
    THEN \E zero \in BOOLEAN :
            IF zero THEN Start("stask")
            ELSE IF svclevel = 0 THEN Overlooks("dispatch_r") ELSE Passes
    ELSE Passes

\* chg_ipm looks again after its dispatch has returned.
ChgIpmGoesOn ==
    IF Due /\ InKernel(svclevel)
    THEN \/ Start("stask")
         \/ svclevel > 0 /\ Passes
    ELSE Passes

-----------------------------------------------------------------------------
\* A service call of the task ends; one of a user task has yet to pass the exit.
EndsCall == mode' = IF user /\ svclevel = 0 THEN "svc" ELSE "run"

\* A call in which a system task may have to start its routine at once.
StartsHere(ptn, ena, ipm) ==
    InKernel(svclevel) /\ svclevel = 0 /\ ena /\ ptn # {} /\ ipm

\* Fault: the routine waits for the next event.
EnaTexLater ==
    /\ Runs /\ ~locked /\ Len(levels) < MaxNest
    /\ enatex' = TRUE /\ EndsCall
    /\ Leaves([Own(TRUE, ipmflg, disdsp) EXCEPT !.asked = TRUE])
    /\ UNCHANGED <<texptn, svclevel, sysVars, resume, hready, acptn, user, overlooked>>

EnaTex ==
    /\ Runs /\ ~locked /\ Len(levels) < MaxNest
    /\ LET level == [Own(TRUE, ipmflg, disdsp) EXCEPT !.asked = TRUE]
       IN  IF StartsHere(texptn, TRUE, ipmflg)
           THEN /\ levels' = [levels EXCEPT ![Len(levels)] = level] \o <<Routine("stask")>>
                /\ texptn' = {} /\ enatex' = FALSE /\ mode' = "run" /\ overlooked' = "none"
           ELSE /\ Leaves(level) /\ enatex' = TRUE /\ EndsCall
                /\ UNCHANGED <<texptn, overlooked>>
    /\ UNCHANGED <<svclevel, sysVars, resume, hready, acptn, user>>

DisTex ==
    /\ Runs /\ ~locked
    /\ enatex' = FALSE
    /\ Leaves(Own(FALSE, ipmflg, disdsp))
    /\ EndsCall
    /\ UNCHANGED <<texptn, svclevel, sysVars, resume, hready, acptn, user, overlooked>>

RasTexSelf(f) ==
    /\ Runs /\ ~locked
    /\ IF StartsHere(texptn \cup {f}, enatex, ipmflg)
       THEN Start("stask")
       ELSE /\ texptn' = texptn \cup {f}
            /\ EndsCall
            /\ UNCHANGED <<enatex, levels, locked, overlooked>>
    /\ UNCHANGED <<svclevel, ipmflg, disdsp, resume, hready, acptn, user>>

DisDsp ==
    /\ Runs /\ ~locked
    /\ InKernel(svclevel) \/ 1 \in acptn
    /\ disdsp' = TRUE
    /\ Leaves(Own(enatex, ipmflg, TRUE))
    /\ EndsCall
    /\ UNCHANGED <<tcbVars, ipmflg, locked, resume, hready, acptn, user, overlooked>>

\* Fault: ena_dsp does not look at the interrupt mask.
EnaDspAlways ==
    /\ Runs /\ ~locked
    /\ InKernel(svclevel) \/ 1 \in acptn
    /\ disdsp' = FALSE
    /\ Leaves(Own(enatex, ipmflg, FALSE))
    /\ EndsCall
    /\ resume' = IF hready THEN "dispatch" ELSE "none"
    /\ UNCHANGED <<tcbVars, ipmflg, locked, hready, acptn, user, overlooked>>

\* ena_dsp dispatches; the dispatcher looks for exceptions when it comes back.
EnaDsp ==
    /\ Runs /\ ~locked
    /\ InKernel(svclevel) \/ 1 \in acptn
    /\ disdsp' = FALSE
    /\ Leaves(Own(enatex, ipmflg, FALSE))
    /\ EndsCall
    /\ resume' = IF ipmflg /\ hready THEN "dispatch" ELSE "none"
    /\ UNCHANGED <<tcbVars, ipmflg, locked, hready, acptn, user, overlooked>>

ChgIpmMask ==
    /\ Runs /\ ~locked
    /\ InKernel(svclevel) \/ 2 \in acptn
    /\ ipmflg' = FALSE
    /\ Leaves(Own(enatex, FALSE, disdsp))
    /\ EndsCall
    /\ UNCHANGED <<tcbVars, disdsp, locked, resume, hready, acptn, user, overlooked>>

ChgIpmAll ==
    /\ Runs /\ ~locked
    /\ InKernel(svclevel) \/ 2 \in acptn
    /\ ipmflg' = TRUE
    /\ LET level == Own(enatex, TRUE, disdsp)
       IN  CASE ~disdsp /\ hready ->
                    /\ resume' = "chg_ipm" /\ Leaves(level) /\ EndsCall
                    /\ UNCHANGED <<texptn, enatex, overlooked>>
             [] (disdsp \/ ~hready) /\ StartsHere(texptn, enatex, TRUE) ->
                    /\ levels' = [levels EXCEPT ![Len(levels)] = level] \o <<Routine("stask")>>
                    /\ texptn' = {} /\ enatex' = FALSE /\ mode' = "run" /\ overlooked' = "none"
                    /\ resume' = "none"
             [] OTHER ->
                    /\ Leaves(level) /\ EndsCall /\ resume' = "none"
                    /\ UNCHANGED <<texptn, enatex, overlooked>>
    /\ UNCHANGED <<svclevel, disdsp, locked, hready, acptn, user>>

LocCpu ==
    /\ Runs /\ ~locked
    /\ InKernel(svclevel) \/ 2 \in acptn
    /\ locked' = TRUE /\ EndsCall
    /\ UNCHANGED <<tcbVars, ipmflg, disdsp, levels, resume, hready, acptn, user, overlooked>>

UnlCpu ==
    /\ Runs /\ locked
    /\ IF StartsHere(texptn, enatex, ipmflg) THEN Start("stask")
       ELSE locked' = FALSE /\ EndsCall /\ UNCHANGED <<texptn, enatex, levels, overlooked>>
    /\ UNCHANGED <<svclevel, ipmflg, disdsp, resume, hready, acptn, user>>

\* A call that makes the other task ready (act_tsk, sig_sem, ...), or waits.
Dispatches ==
    /\ Runs /\ ~locked /\ ~hready
    /\ hready' = TRUE
    /\ EndsCall
    /\ resume' = IF dspflg THEN "dispatch" ELSE "none"
    /\ UNCHANGED <<tcbVars, sysVars, levels, acptn, user, overlooked>>

\* ret_service, of a user task: texptn is loaded as a byte.
RetService ==
    /\ resume = "none" /\ mode = "svc"
    /\ CASE Due /\ ~locked /\ texptn \cap LowFactor # {} -> Start("utask")
         [] Due /\ ~locked /\ texptn \cap LowFactor = {} -> Overlooks("ret_service")
         [] OTHER -> mode' = "run" /\ UNCHANGED <<levels, texptn, enatex, overlooked, locked>>
    /\ UNCHANGED <<svclevel, ipmflg, disdsp, resume, hready, acptn, user>>

ExtSvc ==
    /\ Runs /\ svclevel = 0
    /\ svclevel' = 1
    /\ UNCHANGED <<texptn, enatex, sysVars, levels, mode, resume, hready, acptn, user, overlooked>>

\* ret_extsvc, of the level that called.
RetExtSvc ==
    /\ Runs /\ svclevel = 1 /\ Level.svclevel = 0
    /\ svclevel' = 0
    /\ IF Due /\ ~locked
       THEN /\ levels' = Append(levels, [Routine(IF user THEN "utask" ELSE "stask")
                                            EXCEPT !.svclevel = 0])
            /\ texptn' = {} /\ enatex' = FALSE /\ overlooked' = "none"
       ELSE UNCHANGED <<levels, texptn, enatex, overlooked>>
    /\ UNCHANGED <<sysVars, mode, resume, hready, acptn, user>>

-----------------------------------------------------------------------------
\* The routine returns: the end of call_texrtn_stask, and ret_tex.  ipmflg and
\* the lock are cleared, disdsp is put back, and the other task may be next.
\* Fault: a system task dispatches with exceptions enabled.
ReturnsEnabled ==
    /\ Runs /\ Len(levels) > 1 /\ svclevel = Level.svclevel
    /\ ipmflg' = TRUE /\ locked' = FALSE
    /\ disdsp' = IF Level.kind = "stask" \/ 1 \in acptn THEN Level.saved ELSE disdsp
    /\ resume' = IF hready /\ ~disdsp' THEN "ret" ELSE "again"
    /\ UNCHANGED <<texptn, enatex, svclevel, levels, mode, hready, acptn, user, overlooked>>

\* Fault: disdsp stays as the routine left it.
ReturnsAsIs ==
    /\ Runs /\ Len(levels) > 1 /\ svclevel = Level.svclevel
    /\ ipmflg' = TRUE /\ locked' = FALSE
    /\ enatex' = IF Level.kind = "stask" THEN FALSE ELSE enatex
    /\ resume' = IF hready /\ ~disdsp THEN "ret" ELSE "again"
    /\ UNCHANGED <<texptn, svclevel, disdsp, levels, mode, hready, acptn, user, overlooked>>

Returns ==
    /\ Runs /\ Len(levels) > 1 /\ svclevel = Level.svclevel
    /\ ipmflg' = TRUE /\ locked' = FALSE
    /\ disdsp' = IF Level.kind = "stask" \/ 1 \in acptn THEN Level.saved ELSE disdsp
    /\ enatex' = IF Level.kind = "stask" THEN FALSE ELSE enatex
    /\ resume' = IF hready /\ ~disdsp' THEN "ret" ELSE "again"
    /\ UNCHANGED <<texptn, svclevel, levels, mode, hready, acptn, user, overlooked>>

\* It is called again if a factor is pending; ret_tex leaves enatex as it is.
\* Fault: exceptions stay disabled in the code that was interrupted.
RepeatsDisabled ==
    /\ resume = "again"
    /\ IF texptn # {}
       THEN /\ Leaves([Level EXCEPT !.asked = FALSE, !.enatex = FALSE, !.ipmflg = TRUE,
                                    !.disdsp = disdsp])
            /\ texptn' = {} /\ overlooked' = "none"
       ELSE /\ levels' = SubSeq(levels, 1, Len(levels) - 1)
            /\ UNCHANGED <<texptn, overlooked>>
    /\ resume' = "none" /\ mode' = "run"
    /\ UNCHANGED <<enatex, svclevel, sysVars, hready, acptn, user>>

Repeats ==
    /\ resume = "again"
    /\ IF texptn # {}
       THEN /\ Leaves([Level EXCEPT !.asked = FALSE, !.enatex = FALSE, !.ipmflg = TRUE,
                                    !.disdsp = disdsp])
            /\ texptn' = {} /\ overlooked' = "none"
            /\ UNCHANGED enatex
       ELSE /\ levels' = SubSeq(levels, 1, Len(levels) - 1)
            /\ enatex' = TRUE
            /\ UNCHANGED <<texptn, overlooked>>
    /\ resume' = "none" /\ mode' = "run"
    /\ UNCHANGED <<svclevel, sysVars, hready, acptn, user>>

-----------------------------------------------------------------------------
\* An interrupt while the task runs: iras_tex, a task made ready, or both.
\* reqflg is set if the task can take the exception or is to be preempted.
Interrupt ==
    /\ resume = "none" /\ ~locked
    /\ \E fs \in SUBSET Factor, h \in BOOLEAN :
          /\ texptn' = texptn \cup fs
          /\ hready' = (hready \/ h)
          /\ resume' = IF ((fs # {} /\ enatex /\ ipmflg) \/ h) /\ hready' /\ dspflg THEN "int"
                       ELSE IF fs # {} /\ enatex /\ ipmflg THEN "exit" ELSE "none"
    /\ UNCHANGED <<enatex, svclevel, sysVars, levels, mode, acptn, user, overlooked>>

InterruptExits ==
    /\ resume = "exit"
    /\ RetInt /\ resume' = "none"
    /\ UNCHANGED <<svclevel, ipmflg, disdsp, hready, acptn, user>>

\* ras_tex by the other task, or iras_tex, while the task does not run.
RasTex(f) ==
    /\ resume \in {"dispatch", "chg_ipm", "ret", "int"}
    /\ texptn' = texptn \cup {f}
    /\ UNCHANGED <<enatex, svclevel, sysVars, levels, mode, resume, hready, acptn, user, overlooked>>

\* The other task gives way; the task goes on where it was.
Resumes ==
    /\ resume \in {"dispatch", "chg_ipm", "ret", "int"}
    /\ hready' = FALSE
    /\ CASE resume = "dispatch" -> DispatchR /\ resume' = "none"
         [] resume = "chg_ipm" -> ChgIpmGoesOn /\ resume' = "none"
         [] resume = "int" -> RetInt /\ resume' = "none"
         [] resume = "ret" -> IF Due /\ InKernel(svclevel)
                              THEN DispatchR /\ resume' = "none"
                              ELSE Passes /\ resume' = "again"
    /\ UNCHANGED <<svclevel, ipmflg, disdsp, acptn, user>>

\* The other task terminates the task and activates it again.
Restarts ==
    /\ resume \in {"dispatch", "chg_ipm", "ret", "int"}
    /\ texptn' = {} /\ enatex' = FALSE /\ svclevel' = 0
    /\ levels' = <<[Routine("task") EXCEPT !.svclevel = 0]>>
    /\ mode' = "run" /\ resume' = "dispatch" /\ overlooked' = "none"
    /\ UNCHANGED <<sysVars, hready, acptn, user>>

-----------------------------------------------------------------------------
Init ==
    /\ texptn = {} /\ enatex = FALSE /\ svclevel = 0
    /\ ipmflg = TRUE /\ disdsp = FALSE /\ locked = FALSE
    /\ levels = <<Routine("task")>>
    /\ mode = "run" /\ resume = "none" /\ hready = FALSE
    /\ user \in Domains /\ acptn \in SUBSET {1, 2} /\ (~user => acptn = {1, 2})
    /\ overlooked = "none"

Calls ==
    \/ EnaTex \/ DisTex \/ DisDsp \/ EnaDsp \/ ChgIpmMask \/ ChgIpmAll \/ LocCpu \/ UnlCpu
    \/ Dispatches \/ ExtSvc \/ RetExtSvc \/ \E f \in Factor : RasTexSelf(f)
Next ==
    \/ Calls \/ RetService \/ Returns \/ Repeats
    \/ Interrupt \/ InterruptExits \/ Resumes \/ Restarts
    \/ \E f \in Factor : RasTex(f)

Spec == Init /\ [][Next]_vars

-----------------------------------------------------------------------------
TypeOK ==
    /\ texptn \subseteq Factor /\ svclevel \in 0 .. 1 /\ acptn \subseteq {1, 2}
    /\ {enatex, ipmflg, disdsp, locked, hready, user} \subseteq BOOLEAN
    /\ Len(levels) \in 1 .. MaxNest + 1
    /\ mode \in {"run", "svc"} /\ overlooked \in {"none", "dispatch_r", "ret_service"}
    /\ resume \in {"none", "exit", "dispatch", "chg_ipm", "int", "ret", "again"}
    /\ resume \in {"dispatch", "chg_ipm", "int", "ret"} => dspflg /\ ~locked

\* "The routine starts when seven conditions are met" (hrp2_design_log.txt):
\* code of the task does not go on while a factor is pending that it can take,
\* whichever call, interrupt or dispatch made it possible to take it.
AtOnce == Runs /\ ~locked /\ svclevel = 0 /\ enatex /\ ipmflg => texptn = {}

\* The two exits below are the only ones that fail to start a routine.
AtOnceUnlessOverlooked == AtOnce \/ overlooked # "none"

\* The code a routine interrupted finds the interrupt mask and the dispatching
\* as it left them, whatever the routine did and however often it was called
\* again; the latter if the domain may change it.
ContextKept ==
    Runs => Level.ipmflg = ipmflg /\ (1 \in acptn => Level.disdsp = disdsp)

\* A code finds exceptions enabled if it has enabled them, and a routine starts
\* with exceptions disabled, also when it is called again.
EnatexKept == Runs => Level.enatex = enatex

\* A routine is interrupted by another only after it has called ena_tex: the
\* routine and the dispatcher do not call each other without end.
NestsIfEnabled == \A i \in 2 .. Len(levels) - 1 : levels[i].asked

\* What a routine finds when it starts and gives back when it returns; for a user
\* task exceptions may be enabled when its routine is called again, so that the last
\* two are those of a system task only.
RoutinesInContext ==
    TypeOK /\ AtOnceUnlessOverlooked /\ ContextKept /\ (~user => EnatexKept /\ NestsIfEnabled)

\* "svclevel = 0" (core_support.S): no routine starts in an extended service.
NotInExtSvc == \A i \in DOMAIN levels : levels[i].svclevel = 0
=============================================================================
