------------------------------ MODULE MCChannels ------------------------------
(***************************************************************************)
(* Small instances of PriDataQueue and MessageBuffer for TLC, each with    *)
(* objects of one module; part says of which, as in MCObjects.             *)
(***************************************************************************)
EXTENDS Scheduler

CONSTANTS t1, t2, t3, d1, d2, b1, x1, x2, y1, z1, z2, Null, NoItem, NoMsg

VARIABLES
    part,               \* the instance explored, which no step changes
    pdqexist, pdqcb, mbfcb,
    winfo, delivered, wait_queue

\* Two tasks of a low priority and one of a higher priority
Two == {t1, t2}
PriorityOf(t)    == IF t = t1 THEN 0 ELSE 1
MCIniPriority    == [t \in TASK |-> PriorityOf(t)]
MCMinPriority    == [t \in TASK |-> 0]
MCIniPriorityTwo == [t \in Two |-> PriorityOf(t)]
MCMinPriorityTwo == [t \in Two |-> 0]

\* Two tasks and one queue of three items
MCCap == (d1 :> 3)
PdqThree == INSTANCE PriDataQueue WITH
    TASK <- Two, IniPriority <- MCIniPriorityTwo, MinPriority <- MCMinPriorityTwo,
    WQUEUE <- {d1} \X {"snd", "rcv"}, TaTpri <- {}, DynPdq <- {}, Cap <- MCCap,
    DATA <- {x1, x2}, DPRI <- {1, 2}

\* A queue of one item created at run time whose senders wait by priority, and
\* one without memory
MCCapDyn == (d1 :> 1) @@ (d2 :> 0)
PdqDyn == INSTANCE PriDataQueue WITH
    WQUEUE <- {d1, d2} \X {"snd", "rcv"}, TaTpri <- {<<d1, "snd">>}, DynPdq <- {d1},
    Cap <- MCCapDyn, DATA <- {y1}, DPRI <- {1, 2}

\* Words of two bytes: messages take four or six bytes of ten, or of eight.
MCMsg      == {<<z1>>, <<z1, z2, z1>>}
MCMbfTen   == (b1 :> 10)
MCMbfEight == (b1 :> 8)
MbfTen == INSTANCE MessageBuffer WITH
    TASK <- Two, IniPriority <- MCIniPriorityTwo, MinPriority <- MCMinPriorityTwo,
    WQUEUE <- {b1} \X {"snd", "rcv"}, TaTpri <- {}, MbfSz <- MCMbfTen, MSG <- MCMsg, WORD <- 2

\* Three tasks, of which the senders wait by priority
MbfTpri == INSTANCE MessageBuffer WITH
    WQUEUE <- {b1} \X {"snd", "rcv"}, TaTpri <- {<<b1, "snd">>},
    MbfSz <- MCMbfEight, MSG <- MCMsg, WORD <- 2

ASSUME ChannelsAssumption ==
    /\ PdqThree!PdqAssumption /\ PdqDyn!PdqAssumption
    /\ MbfTen!MbfAssumption /\ MbfTen!WordAssumption /\ MbfTpri!MbfAssumption

-----------------------------------------------------------------------------
\* Modules that are not explored stay as they are.
pdqOnly == <<pdqexist, pdqcb>>
NoPdq == pdqexist = {} /\ pdqcb = <<>>
NoMbf == mbfcb = <<>>

MCInit ==
    \/ part = "pdq three" /\ PdqThree!PdqInit /\ NoMbf
    \/ part = "pdq dyn"   /\ PdqDyn!PdqInit /\ NoMbf
    \/ part = "mbf ten"   /\ MbfTen!MbfInit /\ NoPdq
    \/ part = "mbf tpri"  /\ MbfTpri!MbfInit /\ NoPdq

PdqThreeStep == part = "pdq three" /\ PdqThree!PdqNext /\ UNCHANGED <<part, mbfcb>>
PdqDynStep   == part = "pdq dyn"   /\ PdqDyn!PdqNext   /\ UNCHANGED <<part, mbfcb>>
MbfTenStep   == part = "mbf ten"   /\ MbfTen!MbfNext   /\ UNCHANGED <<part, pdqOnly>>
MbfTpriStep  == part = "mbf tpri"  /\ MbfTpri!MbfNext  /\ UNCHANGED <<part, pdqOnly>>

MCNext == PdqThreeStep \/ PdqDynStep \/ MbfTenStep \/ MbfTpriStep

MCSpec == MCInit /\ [][MCNext]_<<vars, part, pdqOnly, mbfcb, winfo, delivered, wait_queue>>

-----------------------------------------------------------------------------
UnusedPdq(d) ==
    pdqcb[d].count = 0 /\ wait_queue[<<d, "snd">>] = <<>> /\ wait_queue[<<d, "rcv">>] = <<>>

\* Bound: no queued activations, suspended tasks, disabled dispatching or nested
\* handlers, and at most one task of a changed priority; in the first instance none,
\* and in the first and the last no time-outs.  The tasks use one priority data queue.
SmallChannels ==
    /\ \A t \in DOMAIN tstat : ~actque[t] /\ ~Suspended(t)
    /\ ~disdsp /\ nest <= 1
    /\ part \in {"pdq three", "mbf tpri"} => tmevt = {}
    /\ Cardinality({t \in DOMAIN tstat : bpriority[t] # ipriority[t]})
         <= IF part = "pdq three" THEN 0 ELSE 1
    /\ part = "pdq dyn" => UnusedPdq(d2) \/ (UnusedPdq(d1) /\ d1 \notin pdqexist)

\* Memory outside the messages is written before it is read.
Memory(b) ==
    <<[mbfcb[b] EXCEPT !.mbuf = <<>>],
      IF part = "mbf ten" THEN MbfTen!Messages(mbfcb[b], 10) ELSE MbfTpri!Messages(mbfcb[b], 8)>>
ChannelsView ==
    <<part, vars, pdqOnly, winfo, delivered, wait_queue, [b \in DOMAIN mbfcb |-> Memory(b)]>>

\* No operation tells the data of the first instance apart.
DataSymmetry == Permutations({x1, x2})

-----------------------------------------------------------------------------
(***************************************************************************)
(* Properties                                                              *)
(***************************************************************************)

\* The variables keep their types, the scheduler its promises, and the lists of
\* PriList and the rings of MessageRing their shape.  The first task that waits to
\* send a message waits for room, whatever ended the wait of one before it.
ChannelsConsistent ==
    /\ part = "pdq three" =>
          PdqThree!PdqTypeOK /\ PdqThree!WaitsConsistent /\ PdqThree!ListsConsistent
    /\ part = "pdq dyn" => PdqDyn!PdqTypeOK /\ PdqDyn!WaitsConsistent /\ PdqDyn!ListsConsistent
    /\ part = "mbf ten" => /\ MbfTen!MbfTypeOK /\ MbfTen!WaitsConsistent
                           /\ MbfTen!RingsConsistent /\ MbfTen!FirstDoesNotFit
    /\ part = "mbf tpri" => /\ MbfTpri!MbfTypeOK /\ MbfTpri!WaitsConsistent
                            /\ MbfTpri!RingsConsistent /\ MbfTpri!FirstDoesNotFit

pdqVars == <<pdqOnly, winfo, delivered, wait_queue>>
mbfVars == <<mbfcb, winfo, delivered, wait_queue>>

\* IsPriChannel of PriDataQueue: a receiver gets the most urgent item, and the oldest
\* of those; no item is lost or doubled when waits end early.
ArePriChannels ==
    /\ part = "pdq three" => PdqThree!Channel!ChannelInit
    /\ [][part = "pdq three" => PdqThree!Channel!ChannelNext]_pdqVars
    /\ part = "pdq dyn" => PdqDyn!Channel!ChannelInit
    /\ [][part = "pdq dyn" => PdqDyn!Channel!ChannelNext]_pdqVars

\* IsMessageChannel of MessageBuffer: messages are delivered whole, each once and in
\* the order in which they came in, whatever ended the wait of the others.
AreMessageChannels ==
    /\ part = "mbf ten" => MbfTen!Channel!ChannelInit
    /\ [][part = "mbf ten" => MbfTen!Channel!ChannelNext]_mbfVars
    /\ part = "mbf tpri" => MbfTpri!Channel!ChannelInit
    /\ [][part = "mbf tpri" => MbfTpri!Channel!ChannelNext]_mbfVars
=============================================================================
