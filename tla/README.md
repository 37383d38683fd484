# TLA+ models of EV3RT

EV3RT is a development platform for the LEGO Mindstorms EV3. Its core is TOPPERS/HRP2, a
μITRON-style real-time kernel with protection domains, extended so that objects can be created
at run time (`extension/dcre`, whose files are merged into `kernel/`). Around it are system
services, a loader of applications, device drivers and vendored libraries. This directory models
the kernel and the services on it: what they promise about tasks, scheduling, the objects tasks
wait for, time, the log, the serial ports and the loading of applications, whatever order service
calls, interrupt handlers and time-outs come in.

## 1. Inventory

| Part | Code | State | Hard behaviours |
|---|---|---|---|
| Ready queue, scheduling | `kernel/task.c` | `ready_queue`, `ready_primap`, `p_schedtsk` | three representations of one fact, updated incrementally |
| Task management, synchronisation | `task_manage.c`, `task_sync.c` | TCB: `tstat`, priorities, `actque`, `wupque`, `waifbd` | double waits, queued requests, self-suspension, reuse of a TCB |
| System state | `sys_manage.c`, `chg_ipm` | `disdsp`, `ipmflg`, `dspflg`, CPU lock | one flag caches two others; dispatching put off |
| Dispatcher, interrupts | `core_support.S`, `chip_support.S` | `p_runtsk`, `reqflg`, `excpt_nest_count` | nested handlers, the idle loop, requests made while one is served |
| Wait primitives | `wait.c`, `wait.h` | wait queue of an object, `p_winfo` | release, time-out and termination compete for one waiting task |
| Mutexes | `mutex.c` | `p_loctsk`, `mutex_queue` of each task | ceilings change priorities of tasks in queues; one call moves several tasks |
| Semaphores | `semaphore.c` | count, wait queue | a unit passes to a waiting task without being counted |
| Event flags | `eventflag.c` | bit pattern, wait queue | one call releases several tasks; `TA_CLR` clears what the next one waits for |
| Memory pools | `mempfix.c` | free list threaded through the management blocks | blocks come back in any order; whether one is in use is read off its link |
| Data queues | `dataqueue.c`, `dataqueue_mod.c` | ring buffer, two wait queues | order of data when senders wait; `fsnd_dtq` overwrites the oldest |
| Priority data queues | `pridataq.c` | list of nodes by priority, free list, unused nodes | first come, first served among equals, buffered or offered by a waiting sender |
| Message buffers | `extension/messagebuf` | ring of bytes, length words | messages that wrap; a sender that leaves may let others in |
| Time events | `time_event.c`, `time_manage.c` | heap `tmevt_heap`, `current_time`, `min_time`, `next_time` | times wrap; entries deleted from the middle; callbacks with the CPU unlocked |
| Cyclic and alarm handlers | `cyclic.c`, `alarm.c` | `cycsta`, `evttim`; `almsta` | stop and restart from the handler itself and from handlers that interrupt it |
| Task exceptions | `task_except.c`, `task.c`, `core_support.S` | `enatex`, `texptn`, `svclevel`, the stack | every way out of the kernel may start a routine, which nests |
| System log | `syslog.c`, `logtask.c` | ring of entries, count of the lost, two masks | entries overwritten while they are read; flush and termination against the log task |
| Serial driver | `serial.c`, `serial_mod.c`, `target_serial*.c` | two rings, two semaphores, flow control | callbacks against tasks at every character; STOP and START at either end |
| Application loader | `apploader.c`, `dmloader.c`, `usbmsc_dri.c` | container, termination task, semaphore of the SD card | the cable pulled and plugged while tasks wait for the card; termination requested twice |
| EV3 cyclic handlers | `ev3cyclic_dri.c` | table of handlers, `tmax_ev3cycid` | removal against handlers that fire and tasks that create |
| Overrun handler | `overrun.c` | none: not in the EV3 build (`am1808.h:13`) | |
| CPU exceptions, protection, start-up | `exception.c`, `memory.c`, `startup.c` | tables fixed at configuration | none that evolves |
| Drivers, file system, shell | `target/ev3_gcc/drivers`, `base-workspace` | hardware | vendored code and I/O |

What makes each part correct, in one line each:

- *Scheduling*: queues, bitmap and `p_schedtsk` agree; the CPU is with the task of highest
  precedence whenever dispatching is enabled; tasks of one priority run first come, first served.
- *Tasks*: a TCB holds nothing of its last use; a task in a double wait loses one half at a time.
- *Interrupts*: a dispatch requested in a handler is made exactly when the last handler leaves.
- *Waiting*: a task is in the queue of an object if and only if it waits there.
- *Mutexes*: holders, queues and ceilings agree; the current priority follows from what is held.
- *Semaphores, pools*: counted resources, of which none is lost or given to two.
- *Event flags*: nobody waits for a pattern that is there; the first in the queue sees it first.
- *Data queues, priority data queues, message buffers*: channels that neither lose, copy nor
  reorder, in which nobody waits in vain.
- *Time events*: nothing happens early or late by more than the resolution of the clock, also
  when times wrap; cyclic handlers do not drift; the heap holds exactly what is asked for.
- *Task exceptions*: a routine starts when it is due and gives back the context it took.
- *Log*: what was recorded is heard in order, or told as lost where it was lost.
- *Serial driver*: the semaphores say what the buffers hold; each character passes once, in order.
- *Loader*: the SD card has one owner; what a task finds when it goes on is what it asserts; what
  an application created is gone before the next one is loaded.

How the parts interact. A service call runs with the CPU locked, changes the TCBs and the ready
queue through `task.c`, and ends with a dispatch if `p_schedtsk` has changed. A handler does the
same but leaves the dispatch to the exit of the outermost handler, through `reqflg`. An object
keeps its waiting tasks in a queue of its own; they come back to the ready queue by the call
that serves them, by a time event, by `rel_wai` or by their end. The services are tasks: they
meet interrupts and each other between any two calls of the kernel, and the order of their
priorities decides who may come between.

`PROJECT.json` lists the components with the modules that model them, the source lines behind
every definition (`map`) and the hazards with the properties that cover them.

## 2. Modules

| Module | Models | EXTENDS / INSTANCE |
|---|---|---|
| `ReadyQueue` | the functions of `task.c` on the ready queue, as operators on a record | |
| `Scheduler` | tasks, service calls, dispatcher, interrupts, idle loop | `ReadyQueue` |
| `WaitObject` | waiting in the queue of an object (`wait.c`, `wait.h`) | `Scheduler` |
| `Mutex` | mutexes and their effect on task management | `WaitObject` |
| `Semaphore`, `MemPfix` | semaphores; fixed-size memory pools | `WaitObject`; `BlockPool` |
| `BlockPool` | the free list of a pool, as operators on its control block | |
| `CountedResource` | what semaphores and pools promise | instantiated by both |
| `EventFlag` | event flags | `WaitObject` |
| `RingBuffer` | the buffer of a data queue, as operators on its control block | |
| `DataQueue` | data queues: two wait queues around the buffer | `WaitObject`, `RingBuffer` |
| `FifoChannel` | what a data queue promises: one stream of data | instantiated by `DataQueue` |
| `PriList`, `PriDataQueue` | the list of nodes; priority data queues | `WaitObject` |
| `PriChannel` | what a priority data queue promises | instantiated by `PriDataQueue` |
| `MessageRing`, `MessageBuffer` | the ring of bytes; message buffers | `WaitObject` |
| `MessageChannel` | what a message buffer promises | instantiated by `MessageBuffer` |
| `TimeHeap` | the heap of time events, the clock, the steps of `signal_time` | |
| `TimeEvent` | events that anybody registers, with what they asked for | `TimeHeap` |
| `CyclicAlarm` | cyclic and alarm handlers | `TimeHeap` |
| `TaskTimer` | tasks and the events of their time-outs | `Scheduler`, `TimeEvent` |
| `TaskException` | when the exception routine of a task starts, and its return | |
| `LossyLog` | what the log buffer promises | instantiated by `LogBuffer` |
| `LogBuffer`, `LogTask` | the log buffer with its masks; the log task, flush and termination | `RingBuffer` |
| `SerialPort` | the serial driver on UART and Bluetooth ports | `RingBuffer` |
| `AppLoader` | loading and terminating an application, the SD card, the USB cable | |
| `EV3Cyclic` | the cyclic handlers of applications | |
| `SchedulerProofs`, `WaitObjectProofs`, `DataQueueProofs`, `RingBufferProofs` | proofs about the module of that name (`SchedulerProofs` also about `ReadyQueue`) | `TLAPS` |
| `ObjectProofs` | proofs about `MemPfix`, `Semaphore`, `EventFlag` and `Mutex`, and of the run `objects` | `MCObjects`, `WaitObjectProofs` |
| `TimeProofs` | proofs about `TimeHeap`, `TimeEvent` and `CyclicAlarm` | `TLAPS` |
| `TaskTimerProofs` | proofs about `TaskTimer`, and of the run `time` | `MCTime`, `SchedulerProofs`, `TimeProofs` |
| `ServiceProofs` | proofs about `LogBuffer`, `LogTask`, `AppLoader`, `EV3Cyclic` and `TaskException`, and of the run `services` | `MCServices`, `RingBufferProofs` |
| `MCScheduler`, `MCMutex`, `MCDataQueue`, `MCObjects`, `MCChannels`, `MCTime`, `MCSerialPort`, `MCServices`, `MCLiveness` | instances for TLC | |

### How the models correspond to the code

*Steps.* A service call is one action: on this single-processor kernel it runs with the CPU
locked from its check of the context to its end, and a dispatch in its middle is the last thing
that changes what other tasks see. The guard of an action is the conjunction of the code's
checks; a call that fails changes nothing and is left out. Where the code calls several helpers
in a row, each of which may move tasks (`mutex_release_all`, `init_wait_queue`, the sends of
`psnd_dtq_ndata`), `WaitObject` threads a record `k` through them (`KState`, `Commit`): its field
`dispatch` gathers what the helpers return, as `dspreq` does in the code. The modules of the
services have one action for each stretch of code between two points at which somebody else may
run: a call of the kernel, a callback, an unlocked piece of a loop.

*Contexts.* `nest` is `excpt_nest_count`. `TskCtxUnl` and `IntCtxUnl` are the checks of `check.h`:
a task calls with `nest = 0`, a handler with `nest > 0`. `locked` is the CPU lock that `loc_cpu`
takes; the lock inside a call is the atomicity of the action. In the idle loop `runtsk = NoTask`
and `nest = 1`, as `dispatcher_5` sets it, and handlers nest on top of it.

*Dispatch.* `Dispatcher` takes the place of `dispatch`, `exit_and_dispatch` and the dispatcher:
`p_runtsk` becomes `p_schedtsk`, or the idle loop starts. `Reschedule` is what ends every
call that moves tasks: in a task the dispatch itself, in a handler `reqflg`. `IntExit` is `ret_int`
of the outermost handler, `IntExitNested` of the others, `IdleExit` the loop in `dispatcher_5`.

*Task states.* `tstat` is a set of the bits the code has: `RUNNABLE`, `SUSPENDED`, `WAITING` with
`SLP` or `WOBJ` or, for a delay, neither; the empty set is dormant. `tmevt` holds the tasks with a
time event. In `Scheduler` and the modules on it a time-out may come at any step; `TaskTimer` says
when it does. Priorities count from 0, the highest.

*Ready queue.* `ready.queue[p]`, `ready.primap` and `ready.schedtsk` are the three variables of
`task.c`. `SearchSchedtsk` is `bitmap_search` on the bitmap, never a look at the queues: the
agreement of the three is a property and not part of the model.

*Memory.* `dtqcb[d]` has the memory, `head`, `tail` and `count`. Its words keep their values when
they are taken or the queue is deleted, as memory does. The same holds of the nodes of `PriList`,
the blocks of `BlockPool` and the ring of `MessageRing`, whose length words may lie apart from
their messages. Some variables are history, which no guard of the code reads: the blocks a task
`held`, the unit `served` and the item `delivered` last, the time asked for (`reltim`) and the `ticks`
since, what was `written` and lost in the log, what a step of the serial driver has sent (`out`), `taken`
or found `arrived`, whether a call and its port have come apart (`torn`), and the tasks `left` running
by the removal of cyclic handlers.

*Time.* Times are numbers modulo `MODULUS` and compared relative to `min_time` as the macros do. A
callback is an action of its own, and between two of them any event may be registered or removed:
`wait_tmout` and the handlers open the CPU lock. In `CyclicAlarm` a handler is the callback, and it
and the handlers that interrupt it make the calls handlers may make; in `TaskTimer` the callback
is `wait_tmout`, and the event of a wait lies on the stack of the waiting call, named by the task.

*Task exceptions.* `levels` is the stack of one task: its own code, then each routine over the code
it interrupted. A level holds what the code saves there (`disdsp`, `svclevel`) and what its own
code has made of the state. The exits of `core_support.S` (`DispatchR`, `RetInt`, `RetService`,
`RetExtSvc`, `Returns`) make the tests the assembly makes. The byte that `dispatch_r` takes for
`svclevel` follows `ipmflg` in memory and depends on the linker: any value. `user` says whether the task
belongs to a user domain; it is chosen at the start, from `Domains`.

*Log.* An entry is its number. `LogTask` is on a port that takes whole messages: `SerialPort` has
what happens inside one. `logtask_terminate` may come at any time and outputs the rest of the log
through the low-level output.

*Serial port.* A call that writes or reads is in one of the points at which it may wait or be
interrupted (`call[t].pc`). On the UART port interrupts run both callbacks. On the Bluetooth port
a cyclic handler runs the callback for sending, and the receive callback, which runs in a task,
is one action for each access to what it shares (`BtReceive` to `BtStop`). `serial_opn_por` and
`serial_cls_por` run with dispatching disabled: no task comes between their steps, but on a Bluetooth
port, whose callback stays enabled when it is closed, the cyclic handler does. Opening is therefore
four actions (`SerialOpnPor`, `OpnSndHead`, `OpnSndCount`, `OpnPor`) and closing three (`SerialClsPor`,
`ClsSnd`, `ClsRcv`), at any point of any call; `bt.pc` says how far the task has come. What these steps can do to a
call that holds a semaphore is in the Findings. `Tears` says when that happens; `torn` remembers it, and nothing is promised
of the port afterwards.

*Loader.* A task is at a label (`pc`) where it may be preempted or waits, and runs when those of
higher priority wait; an assertion that fails stops the system, and `failed` names it.

*Applications.* `EV3Cyclic` follows a cyclic handler of an application from `__ev3_acre_cyc`, where `acre_tsk` and
`acre_cyc` may each fail and the creation goes on, to `destroy_all_ev3cyc`, where `ter_tsk` starts a task again that
has an activation queued and `del_tsk` then leaves it. The rest of `dmloader_rmv_ldm` is one action, in which the
assertion about `del_tsk` may fail for the same reason.

*Parts.* TLC checks several small instances in one run where a module or an instance has few
states. `part` is chosen in `MCInit` and never changes; the instances of other modules stay as they
are, the properties are guarded by `part`, and the property of a refinement is that of the
instance's initial state and next-state relation in its part. `MCObjects`, `MCTime` and
`MCServices` leave the constants of their instances open, each under its own name where they differ
(`EvtModulus`, `HdrModulus`): their cfg gives them small values, the theorems about `MCSpec` none.

## 3. Runs

| Run | Instance | Checks | Shows |
|---|---|---|---|
| `sched` | 3 tasks, one created at run time, 2 priorities, 2 nested handlers | `TypeOK`, `ReadyQueueConsistent`, `DispatchIsPrompt`, `RunningTaskIsRunnable`, `DspflgIsCache`, `TcbConsistent`, `NoSwitchWhileDisabled`, `FifoWithinPriority` | the scheduler under every order of calls, handlers and time-outs, and TCBs that are reused |
| `acre_act` | 2 tasks, one created at run time | `TerTskNeedsNoDispatch`, violated | see Findings |
| `mutex` | 3 tasks, 2 ceiling mutexes, one created at run time, and a FIFO mutex | `MtxConsistent`, `HolderConsistent`, `PriorityIsCurrent`, `CeilingRespected`, `HandoverIsInOrder` | locking against time-outs, release, suspension, termination and changes of priority, with three priorities; ceilings unlocked in any order, the higher one while the lower one still counts |
| `data_queue` | 3 tasks; queues of 2 words, of 1 word created at run time with `TA_TPRI`, and of none | `DtqConsistent`, `NobodyWaitsInVain`, `IsFifoChannel` | the data queue implements `FifoChannel`, also through deletion, creation and changes of priority |
| `objects` | parts `mpf`, `sem`, `flg`: 3 tasks; pools, semaphores and flags, static and dynamic | `ObjectsConsistent`, `PoolsConsistent`, `OneOwner`, `AreCountedResources`, `FlagsServeInTurn` | semaphores and pools implement `CountedResource`; a `TA_CLR` flag is seen by the first only |
| `channels` | parts `pdq three`, `pdq dyn`, `mbf ten`, `mbf tpri`: 2 or 3 tasks | `ChannelsConsistent`, `ArePriChannels`, `AreMessageChannels` | priority data queues and message buffers implement `PriChannel` and `MessageChannel` |
| `time` | parts `events`, `handlers`, `tasks` | `TimeConsistent`, `EventsAreAccountedFor`, `NobodyIsLate`, `NobodyIsEarly` | the clock wraps again and again; every callback is a window for other calls |
| `serial` | parts `uart`, `echo`, `bt`, `flow`: a writer and a reader | `SerialConsistent`, `OnceAndInOrder` | semaphores against buffers, the port opened and closed at any moment; each character written or received passes once, in order |
| `serial_resume` | the same | `PendingIsServed`, violated | see Findings |
| `services` | parts `log`, `loader`, `cyclic`, `tex` | `BufferConsistent`, `LogTaskIsHonest`, `LoaderConsistent`, `CyclicsConsistent`, `RoutinesInContext`, `IsLossyLog`, `NobodyIsPassedOver` | the log to the port, the SD card, handlers of applications also where their creation fails or their tasks are activated once more, task exceptions |
| `tex_system_at_once` | a task of the kernel domain | `AtOnce`, violated | see Findings |
| `liveness` | parts `sched`, `events`, `handlers`, `log`, `serial`, `loader` | `RequestIsServed`, `RecordedIsHeard`, `CallsReturn` | what is owed comes, and calls that wait return |

A property named for the whole of a run (`MtxConsistent`, `ObjectsConsistent`, `LogTaskIsHonest`, ...) is
the conjunction of the named properties of the modules that its comment lists. Every property of a
passing run has a mutant in `PROJECT.json`: a definition changed the way a plausible bug would
change the code, after which TLC finds that property violated. The mutated definitions stand
before the right ones and are marked "Fault".

### Bounds, and why they are enough

- *Three tasks, two priorities.* (Three in `mutex`.) Two tasks of one priority are needed for rotation and order of
  arrival, a third one to preempt them and to make "first of the rest" differ from "last". With
  two priorities every comparison in `task.c` meets less, equal and greater. In `mutex` there are three: base
  priorities 0 and 2, ceilings 0 and 1. When a task of base priority 2 that holds both mutexes unlocks that
  of ceiling 0, its priority drops to 1, the ceiling still held, which is neither the base priority nor
  the highest. While three tasks share two mutexes, base priorities are among the initial ones. The
  theorems remove this bound for `Scheduler`, `Mutex`, `DataQueue`, `Semaphore`, `EventFlag` and `MemPfix`.
- *`MaxNest = 2`.* One handler that interrupts another has every exit there is: to a handler, to a
  task, to the idle loop (which counts as one). Also removed by the theorems. In `TaskTimer` the timer
  handler is one of three levels. In `TaskException` it bounds the routines over each other.
- *`OneRequest`, `TwoOfNewPriority`* (`sched`): at most one queued activation, queued wake-up or
  `waifbd` flag at a time, which are independent bits of different tasks; the dynamic task has
  another priority than configured only while a task of the same priority is dormant.
- *`SmallMutex`, `OneInUse` with `OneDisturbance`, `SmallObjects`, `SmallChannels`, `SmallTime`*: the
  tasks use one object at a time (two mutexes where they nest), and at most one thing disturbs them at a
  time: a queued activation, a suspended task, a changed base priority, dispatching disabled. Each is
  covered alone by `sched`; here one of them has to meet the object. In `data_queue` the one
  of two words meets a suspended task only, the two smaller ones all four; the theorems have none of
  these bounds. `SmallChannels` is the tightest:
  changed priorities only, no handler within a handler, and no time-outs in the parts `pdq three` and
  `mbf tpri`; `pdq dyn` and `mbf ten` have them.
- *Sizes.* A buffer of two words wraps, is partly full, and holds one pair of `psnd_dtq_ndata`; one word and
  no buffer are the special cases of the code. Longer buffers are covered by `RingBufferProofs`, pools
  of any size by `ObjectProofs`. Messages of two lengths in a ring in which neither divides the room
  wrap in the message and between length word and message.
- *`MODULUS = 8` and `9`*: the code's `EVTTIM` has 32 bits and `TMAX_RELTIM` is `LONG_MAX`, half of its
  range. The ratio is kept, and `TimeAssumption` states the room that the comparison needs. Ticks of a
  half, of one and of three halves of a millisecond stand for the 1/10 ms the EV3 configuration has and
  for the others the code allows: a fraction to carry, and a tick longer than a cycle. Six events are
  the fewest for which the last node can be earlier than the parent of a deleted one; while more than three are
  registered they ask for 1 ms at most (`FewOrShort`). `TimeView` takes
  times relative to `min_time`, as the code does, and events that asked for the same as the same.
- *`MaxLog = 5`, `TCNT_SYSLOG_BUFFER = 2`, `PORTSIZE = 1`*: the log overflows more than once, with entries
  in the buffer, in the hands of the log task and in the port at the same time.
- *Serial buffers of one to three characters*: the thresholds of STOP and START differ from each other
  and from full and empty (in `uart`), and buffers wrap. `uart` has flow control from both sides and
  releases the reader, `echo` changes the settings (`serial_ctl_por`), receives characters that differ and
  releases the writer and the echo, `bt` releases the first waits of both calls, `flow` has STOP and START on the
  Bluetooth port. The runs look at `torn`
  states but not beyond them (`Whole`), and in `flow` not beyond a wrong count of the sending buffer
  (`SndCounted`): see Findings for both. `SerialView` leaves out the words no index reaches, the history
  of the last step, and of a closed port what opening will set again, but for what the cyclic handler uses.
- *`OneFailure`* (part `cyclic` of `services`): the table holds the error code of one failed creation at a
  time; `AppSymmetry` is sound as nothing distinguishes the tasks of an application.
- *`MaxPlug = 3`* connections of the cable, `MaxLoad = 2` applications: one thing done at each moment of
  another, and once more after it.

`liveness` has smaller instances (two tasks, two events, a log of three entries, two connections of the
cable), as TLC explores their behaviours and not their states only; tasks of `sched` may not take
each other's priority there, so that the highest one is the same throughout. The part `serial` has no
closing (`PortStaysOpen`): `ini_sem` makes every call that waits return. `serial` has it at any moment.

Deadlock is checked in every run but three. In `serial` and `serial_resume` a port with nothing to send
or receive may wait for ever; in `services` and `liveness` the system may be terminated or stopped by an
assertion.

### Fairness

`Scheduler` has weak fairness of the exit of a nested handler: handlers end. Of the exit to a task and
of the idle loop it has strong fairness, as new interrupts may come before either: the interrupt load
leaves time for tasks, which every real-time design assumes. The last exit tests `reqflg` with
interrupts locked and the loop of `dispatcher_5` tests it in every round, so that nothing else can hold
them off. No fairness is assumed of tasks, which may call what they like or nothing.

`TimeEvent` and `CyclicAlarm` have weak fairness of the return of a callback: handlers end. That
`signal_time` ends is then a matter of the rounding in `base_time`: an event registered in a callback lies
after `current_time`.

The services have weak fairness of each of their tasks: `LogTaskStep` and `FlushStep`, and `Sends` of the port
(the device takes characters); `TaskStep` of writers and readers, and the interrupt `UartSnd`;
`ConsoleGoesOn`, `TermNext` and `UsbNext`. Such a task runs when it can, because those above it wait. `PorStep` is the task that has disabled dispatching: nothing but interrupts can come before it. What comes from
outside (an entry, a character received, the cable, the console button) has no fairness. In the part `serial` of
`liveness` the other side does not send STOP. A writer waits as long as it is stopped, and may wait longer when START
follows, by what `serial_resume` shows: `WritesReturn` promises nothing about either.
In `MCLiveness` the conditions of the parts are grouped into three `WF_`; in a behaviour only one part
moves, so that each is the condition of that part.

## 4. Proofs

All theorems hold for any number of tasks, priorities, objects and sizes, under the `ASSUME`s of the modules
named below and no others; assumptions that a module states as a definition (`SemAssumption`, `FlgAssumption`,
`TimeAssumption`, `HdrAssumption`, `LoaderAssumption`, `TexAssumption`, `IdAssumption`) are hypotheses of the
theorems about that module, and the MC modules assume them of their instances (`MCTimeAssumption` and the
like), which TLC evaluates. One of them says more than a type:
`HdrAssumption` that there are finitely many handlers.
TLC has checked the invariants on the instances of the runs, also where they say more than the properties.

| Module | Inductive invariant | Properties of the runs it proves | Refinement |
|---|---|---|---|
| `SchedulerProofs` | `IInv` | all eight of `sched` | |
| `WaitObjectProofs` | (lemmas; `KInv` of a call in progress) | | |
| `ObjectProofs` | `MtxInv` | all five of `mutex` | |
| | `ObjectsInv`: `MpfQInv` with `MpfInv`, `SemInv`, `FlgInv` | all five of `objects` | `CountedResource` |
| `DataQueueProofs` | `DtqInv` | all three of `data_queue` | `FifoChannel` |
| `RingBufferProofs` | (`RingOk` of each operator) | | |
| `TimeProofs` | `TimeInv` with `TimingInv`; `HdrInv` with `HdrTimingInv` | (used by `TaskTimerProofs`) | |
| `TaskTimerProofs` | `PartInv`: the two above and `TimerInv` | all four of `time` | its two components |
| `ServiceProofs` | `ServicesInv`: `LogInv`, `LoaderInv`, `CycInv`, `TexInv` | all seven of `services` | `LossyLog` |

**From modules to runs.** A property of `objects`, `time` or `services` speaks of whichever part is explored.
The invariant of such a run (`ObjectsInv`, `PartInv`, `ServicesInv`) says that the part that is explored
keeps the invariant of its module, and the theorem is about `MCSpec` with all constants open. What is
proved of a module is used of its instances; where a proof module is itself instantiated (`TimeProofs` for the
events of the tasks, for any events and for the handlers), lemmas named `Same...` show that the definitions
the run uses and those the proofs speak of are equal, by expanding both.

**Scheduler.** The assumptions are those of `ReadyQueue` and `Scheduler`: `NoTask` is not a task, there
is at least one priority, initial priorities and the limits of the domains are priorities, dynamic tasks
are tasks, and `MaxNest` is at least 2. The invariants are proved together, as each is needed for the next.
`IInv` is `TcbInv` (types and `TcbConsistent`), `ModeInv` (`dspflg` is a cache), `CpuInv` (`DispatchIsPrompt`
and `RunningTaskIsRunnable`) and `QueueInv` (the ready queue). `QueueInv` is stronger than
`ReadyQueueConsistent`: `ReadyInv` says that each queue enumerates the runnable tasks of its priority
without repetition, which is what makes `queue_delete` and the search in the bitmap do what they should.
`CpuInv` needs `QueueInv`: that the task scheduled is runnable. `QueueInv` needs `CpuInv`: `rot_rdq`, `sus_tsk`
and `ext_tsk` act on the running task and rely on its being in the queue. The first part of the module
shows of each operator (`MakeRunnable`, `MakeNonRunnable`, `ChangePriority`, `RotateReadyQueue`) that it
takes a right record for one set of tasks to a right record for another, and requests a dispatch when the
scheduled task has changed. The second has one lemma for what all calls have in common (`RescheduleInv`:
the right record and the right dispatch give `QueueInv` and `CpuInv` again), one lemma per action, and
`NextInv`, which collects them. `FifoWithinPriority` follows from `QueueInv`: each operator keeps the order
of what is in a queue, but for one task that it puts last.

**Wait queues.** A call such as `unl_mtx`, `ini_dtq` or `set_flg` moves several tasks before it
dispatches. The models thread a record `k` of the state through its functions, and `KInv(k, X)` is what holds
between two of them: the ready queue is right for the runnable tasks, every waiting task is in
exactly the queue it names and at its place, and time-out events belong to waiting tasks, but for the
tasks in `X`, which are ending. `Advances(k, n)` relates the record before and after: a dispatch is requested if the
scheduled task changed, nobody starts to wait, nobody is created or ends. `WaitObjectProofs` proves both of
each function of `wait.c`, and that a call which ends in `KInv` and `Advances` gives back `IInv` and `WaitInv`. Its
last section says what a step of an object with one wait queue can do to that queue, which the parts of `ObjectProofs` share.

**Mutexes.** `MInv(k, bp, X, D)` is what holds between the functions, for the mutexes in `D` that are being given up and
the tasks in `X` that are ending. Two of its parts are stronger than what the runs check. `IsCurrent` says
not only that a priority is the highest of the base priority and the ceilings, but which of them it equals:
the loop in `mutex_calc_priority` is shown right by it. `Respected` covers those who wait as well as
those who hold: only so does a task that gets a mutex from a wait queue respect the ceiling. `MtxInv`
adds that a dormant task has its initial base priority, without which activation could break
`IsCurrent`. `HandoverIsInOrder` follows from what each function does to the first of the queue.

**Data queues.** `NoneInVain` says of each data queue that senders wait only while the buffer is full and nobody
waits to receive, and receivers only while it is empty. With it each call serves at most the task it should, and
what it does to `Stream` (the buffer followed by what the waiting senders offer) and to `Receivers` is one
step of `FifoChannel`: `DtqIsFifoChannel` goes through the actions and shows which. A change of priority or
a time-out in the middle of a queue moves the data with their tasks, which the abstract channel allows
for the offered part only.

**Fixed-size pools.** `GetBlockCorrect` and `RelBlockCorrect` say of the two operators on a well-formed pool
which block is taken and that the free blocks lose or gain exactly it; the list is given by a sequence that
enumerates it, so that no induction along the links is needed. `MpfInv` adds to `PoolsConsistent` and `OneOwner`
the types of the pools and that a task holds blocks of its pools only (`HeldBlocks`), without which a block
returned might be free already; this part needs nothing of the scheduler. `MpfQInv` is about those who wait:
every block marked as given out is held by a task (`NoneLost`), and nobody waits at a pool with a free
block (`NoneWaitsAtBlocks`). `MpfIsCountedResource` takes the number of blocks no task holds for the level of
the resource, so that each call changes a cardinality by one or, when a block passes from hand to hand, by nothing.

**Semaphores and event flags.** What makes a semaphore a counted resource is that nobody waits where there is a unit,
or at a semaphore that does not exist (`NoneWaitsAtUnits`). For the flags, `WaitsUnmet` says the same of
conditions that are met, and `OneAtMost` that without `TA_WMUL` a queue has one task. `set_flg` walks along
the queue and may serve any number of tasks; the loop invariant `ServedUpTo` keeps the set of the places served so far:
the tasks there met the pattern, those passed over do not, and the queue holds exactly the others.
With `TA_CLR` the walk ends with the first task served, as the code returns there.

**Buffers.** `RingBufferProofs` proves for every capacity and every position of the indexes that `enqueue_data`
appends to the contents, `dequeue_data` takes the oldest datum and leaves the others in order, and
`force_enqueue_data` into a full buffer drops the oldest one, each keeping `RingOk`. The step cases
are about `Place`, the wrapped index, and are split by whether the index wraps. On these lemmas rest
`DataQueueProofs` and the log buffer in `ServiceProofs`.

**The heap.** A heap is a sequence of nodes, and the walks of `tmevt_up` and `tmevt_down` are recursive functions
of it. That these functions exist and where they lead is shown on the way they take: the ancestors of a node are
a chain, along which the walk up stops at the first place that will do, and the walk down leaves such a chain behind.
`TimeInv` says that no node is before its parent in the cyclic order relative to `min_time`, that every
event has at most one node and that its index is the place of its node. A deletion puts the last node in the hole,
from where it goes up or down; `IsHeap` holds of the result by what the parent, the hole and its children are,
whichever way that is.

**The clock.** `OnSchedule` relates each node to what its owner asked for: `Missing` (the time
asked for less the ticks since, in units of the tick) lies within one millisecond of the distance between
the node and `current_time`, with the fraction `next_subtime` carried exactly. Two facts make this survive a clock
that wraps. `base_time` rounds up, so that an event registered in a callback lies after
`current_time`; and no node is so far ahead that distances from `min_time` wrap (`TimeAssumption`), so that moving `min_time`
forward keeps the order of all nodes. `NobodyIsLate` and `NobodyIsEarly` are read off: a callback comes at the
node's time and not before. For handlers the same relation holds with `ahead` in the place of `Missing`, and `HdrTimingInv` adds
what is known of the handler that is running, which has no node: a cyclic handler is
registered again from its own `evttim`, hence no drift.

**Time-outs of tasks.** `TaskTimerProofs` takes the invariant of the scheduler and that of the time events as they
are, and connects them by `Agree`: the events in the heap are those of the tasks in `tmevt`, and the one whose
callback runs is no longer among them. `TimersCompose` shows that the composition adds no behaviour to
either component, so that whatever was proved of each holds of both; `NeverReleasedEarly` is about the two together.

**Log task.** An entry is its number, so that order and loss are statements about intervals. `LogInv` says
that the entries in the buffer are `Gone + 1 .. written`, that those between the one read last and `Gone` have
been overwritten (`lostnos`), and that on the port is what the mask let through of everything up to the entry in hand
(`Printed(port) = Wanted(logbuf) \ InHand`). The losses told on the port and the one about to be told add up to the entries
lost before the one in hand, and each message of a loss stands where the gap is (`ToldInPlace`). `OutInv`
takes termination in: what `logtask_terminate` outputs begins with what the port still had and goes on with
the rest of the buffer, in order. Where the log task has an entry in hand at that moment, nothing is proved of
that entry (`InHand`): the code does not output it before termination ends. `LogTaskAlwaysHonest` and `FlushingIsOut` follow. `LogAlwaysLossy` goes the other way: all that
the log task does to the log are calls of `LogBuffer`, so that what was proved of that holds here.

**Loader.** What a task of the loader may rely on depends on where all three are. `CardInv` says that the semaphore is
free exactly if nobody is at a place where it holds the card, and that at most one is; `AppInv` gives the
flag, the status of the container and whether there is an application, by the places of the console and of the
terminating task, which is where their assertions come from.

**Task exceptions.** The stack of a task has any number of routines. `StackOK` says of each level which state it has
saved for the one below, `TopIs` that the code on top sees the state it has made, and `ReturnInv` that a routine that
has returned finds what was saved. Levels below the top do not change, so that each action is shown for the
top and the one below it.

**EV3 cyclic handlers.** Until an application is cut off (`cut`), every entry of the table has a task and a handler of the
kernel of its own, or none where their creation failed, and no two entries share either (`EntriesInv`); applications that are
in the middle of a creation account for the rest, each at the place it has reached. Conversely every handler
belongs to an entry (`CycsInv`), and every task to an entry or to `left` (`TasksInv`): those that `ter_tsk` started
again, which no later entry gets, as they keep their IDs. That a removal in the middle of the table finds its tasks is this
correspondence, cut down to the entries not yet removed. Nothing is assumed about the number of tasks the kernel has.

Only model-checked: `PriDataQueue`, `MessageBuffer` and `SerialPort`. Out of the prover's reach:
the liveness properties, as they need fairness and `ENABLED`, and what recursive definitions compute for every
input, as far as that is induction over data. Where a set, a least counterexample or the cardinality of a set could take the place of
the recursion (the walks in the heap, the losses told), the definition is stated that way and proved about; the lists of
`PriList`, the rings of `MessageRing` and the filters on the queues there have no such form.

## 5. Findings

`acre_act`. `acre_tsk` with `TA_ACT` calls `make_active` and drops what it returns
(`kernel/task_manage.c:265`). If the new task has a higher priority than its creator, it is `p_schedtsk`
while the creator runs on with dispatching enabled, until some other call dispatches. In this state
`ter_tsk` may take `p_schedtsk` from the ready queue, which its comment (`task_manage.c:586`) excludes. The
other runs and the theorems are about a kernel whose dynamic tasks are created without `TA_ACT`
(`AcreTsk`); `AcreTskAct` is the call with it, and has this run of its own.

`serial_resume`. When START arrives, `sio_irdy_rcv` (`syssvc/serial.c:767`) sends one character. Was the
device able to take it, the callback that was disabled by STOP stays disabled, and the other
characters wait until a task writes to an empty buffer, which it never becomes.

`tex_system_at_once`. `dispatch_r` (`core_support.S:154`) loads `svclevel` through the register in which it
has just loaded the address of `ipmflg`. If the byte it finds there is not zero, a pending exception of a
system task waits for the next exit.

Met while modelling and part of the models, but not stated as runs:

- The window between signal and count in the Bluetooth receive callback harms nobody (`bt`). But when START
  arrives there, the character that waits is sent without the CPU lock (`serial_mod.c:112`): the cyclic
  handler may send it as well, and `snd_count` goes below zero. The part `flow` looks no further then.
- A reader with echo that is released while it waits to echo returns without its semaphore `rcv`, against the
  comment that it has acquired none (`serial.c:622`): the characters still in the buffer cannot be read until the
  port is closed and opened again, as the buffer is not empty and nobody signals. The part `echo` releases it and looks no further then. A STOP that is kept back can be overtaken
  by the START that follows (`serial.c:562`).
- `serial_cls_por` gives the semaphores their initial counts (`serial.c:384`) whoever holds them. A call
  that holds one goes on, so that after the port is opened again there are two units, or a character too many is
  read. On a Bluetooth port the cyclic handler may send between `unl_cpu` and `ini_sem` (`serial.c:377`), give the unit
  to a waiting writer, and `ini_sem` then adds another. A task that has seen the port open but not yet
  asked for the semaphore may wait on the closed port, or be served after it is opened again.
- While a Bluetooth port is opened for the second time, the cyclic handler may send between `snd_read_ptr` and `snd_count`
  (`serial.c:306`); the indexes then disagree with the count for as long as the port is open.
- `logtask_flush(0)` and `logtask_terminate` can miss the one entry the log task has in hand, so that it
  comes after those output by `logtask_terminate`, or not at all.
- The connected host keeps the SD card when the cable is pulled and plugged in again before the USB task has
  looked (`usbmsc_dri.c:89`). A third request to terminate within one termination is refused
  and fails its assertion (`apploader.c:55`).
- An application that is cut off while it creates a cyclic handler may leave a task or a handler that the
  table does not have (`ev3cyclic_dri.c:135`); `CyclicsConsistent` says so.
- A task of an EV3 cyclic handler with an activation queued when its application is terminated is started again by
  `ter_tsk` (`task_manage.c:602`); `del_tsk` reports `E_OBJ` (`ev3cyclic_dri.c:159`), and the task runs on with the code of an
  application that is gone. It keeps its ID, so that later `acre_tsk` may find none (`left`).
- When `acre_tsk` fails in `__ev3_acre_cyc` (`ev3cyclic_dri.c:127`), the handler is created nevertheless. Its activations
  come to nothing, and when the application is terminated the assertion about `ter_tsk` fails.
- The same restart of any other task of an application with an activation queued makes the assertion about `del_tsk` fail
  (`dmloader.c:386`). `EV3Cyclic` has this outcome (`TermDelApp`); `AppLoader` takes for granted that the removal of an
  application succeeds, so that `LoaderConsistent` (`ResetsStopped`) is about terminations without it.
- `ret_tex` of a user task leaves exceptions enabled as the routine has left them (`core_support.S:1595`).
- A message that does not fit lets nobody pass, but one that comes when nobody waits is sent directly
  (`messagebuf.c:357`).

## 6. Plan

1. `PriDataQueue` and `MessageBuffer` on the lemmas of `WaitObjectProofs`, up to what their recursive definitions
   compute.
2. `acre_isr` and `del_isr` with the queue of interrupt service routines; pausing an application
   (`sus_tsk` of its tasks, `ev3main.c`); `TaskException` composed with `Scheduler`.

## 7. Not modelled

Return values and identifiers (they change no state; so `fsnd_dtq` returning `E_OK` for a queue that
does not exist, `dataqueue.c:749`, is outside), access rights and protection domains (static tables,
apart from the priority a domain may give out), reference calls, the overrun handler (not built), CPU
exceptions, the start and end of the kernel, and everything that formats, draws or does I/O. Most of the
repository's lines are vendored (character tables and core of FatFs, LEGO's motor and sensor modules, BTstack,
StarterWare, ZMODEM, newlib parts) or lists of register addresses, and have no state of the
platform; what there is of control in the code of the project itself is in the components above.
`PROJECT.json` gives the reason for each component.
