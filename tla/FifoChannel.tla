------------------------------- MODULE FifoChannel -------------------------------
(***************************************************************************)
(* What a data queue promises.  Each channel is one stream of data: what   *)
(* the buffer holds, then what the waiting senders offer.  A receiver      *)
(* takes the oldest datum; nothing is lost, doubled or overtaken but by a  *)
(* forced send, by the priority of a waiting sender, or because a sender   *)
(* gives up.                                                               *)
(***************************************************************************)
EXTENDS Naturals, Sequences, SequencesExt

CONSTANTS DTQ, TASK, DATA, Cap

VARIABLES
    open,       \* the channels that exist
    stream,     \* the data of each channel, oldest first
    waiting,    \* the tasks waiting to receive from each channel
    delivered   \* <<task, datum>> for every datum the last call delivered

cvars == <<open, stream, waiting, delivered>>

ChannelInit ==
    /\ open \in SUBSET DTQ
    /\ stream = [d \in DTQ |-> <<>>] /\ waiting = [d \in DTQ |-> <<>>]
    /\ delivered = <<>>

Nothing == delivered' = <<>>

\* The data of s go to the waiting receivers, the rest into the buffer.
Send(d, s) ==
    LET k == IF Len(s) < Len(waiting[d]) THEN Len(s) ELSE Len(waiting[d])
    IN  /\ delivered' = [i \in 1 .. k |-> <<waiting[d][i], s[i]>>]
        /\ stream' = [stream EXCEPT ![d] = @ \o SubSeq(s, k + 1, Len(s))]
        /\ Len(stream'[d]) <= Cap[d] \/ k = Len(s)
        /\ waiting' = [waiting EXCEPT ![d] = SubSeq(@, k + 1, Len(@))]

\* A forced send into a full buffer drops the oldest datum; the new one is
\* the youngest in the buffer, before those of the waiting senders.
Overwrite(d, x) ==
    /\ Cap[d] > 0 /\ Len(stream[d]) >= Cap[d]
    /\ stream' = [stream EXCEPT ![d] = Tail(InsertAt(@, Cap[d] + 1, x))]
    /\ Nothing /\ UNCHANGED waiting

\* A sender waits, gives up, or changes its place among the waiting senders.
Offer(d, i, x) ==
    /\ Len(stream[d]) >= Cap[d] /\ i > Cap[d]
    /\ stream' = [stream EXCEPT ![d] = InsertAt(@, i, x)]
    /\ Nothing /\ UNCHANGED waiting

Withdraw(d, i) ==
    /\ i > Cap[d]
    /\ stream' = [stream EXCEPT ![d] = RemoveAt(@, i)]
    /\ Nothing /\ UNCHANGED waiting

Reorder(d, i, j) ==
    /\ i > Cap[d] /\ j > Cap[d]
    /\ stream' = [stream EXCEPT ![d] = InsertAt(RemoveAt(@, i), j, @[i])]
    /\ Nothing /\ UNCHANGED waiting

Take(d, t) ==
    /\ stream[d] # <<>>
    /\ stream' = [stream EXCEPT ![d] = Tail(@)]
    /\ delivered' = <<<<t, Head(stream[d])>>>>
    /\ UNCHANGED waiting

\* A receiver waits, which it does only for an empty channel, or gives up.
Await(d, t) ==
    /\ stream[d] = <<>>
    /\ waiting' = [waiting EXCEPT ![d] = Append(@, t)]
    /\ Nothing /\ UNCHANGED stream

GiveUp(d, i) ==
    /\ waiting' = [waiting EXCEPT ![d] = RemoveAt(@, i)]
    /\ Nothing /\ UNCHANGED stream

Clear(d) ==
    /\ stream' = [stream EXCEPT ![d] = <<>>] /\ waiting' = [waiting EXCEPT ![d] = <<>>]
    /\ Nothing

ChannelStep(d) ==
    /\ d \in open /\ UNCHANGED open
    /\ \/ \E x \in DATA : Send(d, <<x>>) \/ Overwrite(d, x)
       \/ \E x, y \in DATA : Send(d, <<x, y>>)
       \/ \E i \in 1 .. Len(stream[d]) + 1, x \in DATA : Offer(d, i, x)
       \/ \E i, j \in 1 .. Len(stream[d]) : Withdraw(d, i) \/ Reorder(d, i, j)
       \/ \E t \in TASK : Take(d, t) \/ Await(d, t)
       \/ \E i \in 1 .. Len(waiting[d]) : GiveUp(d, i)
       \/ Clear(d)

\* A channel is empty when it is created.
Delete(d) == Clear(d) /\ open' = open \ {d}
Create(d) == Nothing /\ open' = open \cup {d} /\ UNCHANGED <<stream, waiting>>

Pause == Nothing /\ UNCHANGED <<open, stream, waiting>>

ChannelNext == Pause \/ \E d \in DTQ : ChannelStep(d) \/ Delete(d) \/ Create(d)

ChannelSpec == ChannelInit /\ [][ChannelNext]_cvars
=============================================================================
