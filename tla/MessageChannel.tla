----------------------------- MODULE MessageChannel -----------------------------
(***************************************************************************)
(* What a message buffer promises.  A channel holds messages of different  *)
(* lengths, as many as fit, in the order in which they came in; senders    *)
(* offer more, and as soon as the first offer fits it comes in.            *)
(***************************************************************************)
EXTENDS Naturals, Sequences, SequencesExt

CONSTANTS MBF, TASK, MSG, Cap, Size(_)

VARIABLES
    buffer,     \* the messages of each channel
    offers,     \* the messages of its waiting senders
    waiting,    \* the tasks waiting to receive
    delivered   \* <<task, message>> if the last call delivered one, else <<>>

cvars == <<buffer, offers, waiting, delivered>>

ChannelInit ==
    /\ buffer = [b \in MBF |-> <<>>] /\ offers = buffer /\ waiting = buffer
    /\ delivered = <<>>

Total(s) == FoldLeft(LAMBDA n, x : n + Size(x), 0, s)

\* The offers that fit come in, one after the other.
Settle(b, held, offered) ==
    \E n \in 0 .. Len(offered) :
        /\ offers' = [offers EXCEPT ![b] = SubSeq(offered, n + 1, Len(offered))]
        /\ Total(held \o SubSeq(offered, 1, n)) <= Cap[b]
        /\ n < Len(offered) => Total(held \o SubSeq(offered, 1, n + 1)) > Cap[b]
        /\ buffer' = [buffer EXCEPT ![b] = held \o SubSeq(offered, 1, n)]

Hand(b, x) ==
    /\ waiting[b] # <<>>
    /\ delivered' = <<Head(waiting[b]), x>>
    /\ waiting' = [waiting EXCEPT ![b] = Tail(@)]
    /\ UNCHANGED <<buffer, offers>>

Offer(b, i, x) ==
    /\ delivered' = <<>> /\ UNCHANGED waiting
    /\ waiting[b] = <<>>
    /\ Settle(b, buffer[b], InsertAt(offers[b], i, x))

Withdraw(b, i) ==
    /\ delivered' = <<>> /\ UNCHANGED waiting
    /\ Settle(b, buffer[b], RemoveAt(offers[b], i))

Reorder(b, i, j) ==
    /\ delivered' = <<>> /\ UNCHANGED waiting
    /\ Settle(b, buffer[b], InsertAt(RemoveAt(offers[b], i), j, offers[b][i]))

Take(b, t) ==
    LET all == buffer[b] \o offers[b]
    IN  /\ all # <<>> /\ delivered' = <<t, Head(all)>> /\ UNCHANGED waiting
        /\ IF buffer[b] # <<>> THEN Settle(b, Tail(buffer[b]), offers[b])
                               ELSE Settle(b, <<>>, Tail(offers[b]))

Await(b, t) ==
    /\ buffer[b] \o offers[b] = <<>>
    /\ waiting' = [waiting EXCEPT ![b] = Append(@, t)]
    /\ delivered' = <<>> /\ UNCHANGED <<buffer, offers>>

GiveUp(b, t) ==
    /\ Contains(waiting[b], t)
    /\ waiting' = [waiting EXCEPT ![b] = Remove(@, t)]
    /\ delivered' = <<>> /\ UNCHANGED <<buffer, offers>>

Clear(b) ==
    /\ buffer' = [buffer EXCEPT ![b] = <<>>]
    /\ offers' = [offers EXCEPT ![b] = <<>>] /\ waiting' = [waiting EXCEPT ![b] = <<>>]
    /\ delivered' = <<>>

ChannelStep(b) ==
    \/ \E x \in MSG : Hand(b, x) \/ \E i \in 1 .. Len(offers[b]) + 1 : Offer(b, i, x)
    \/ \E i \in 1 .. Len(offers[b]) :
          Withdraw(b, i) \/ \E j \in 1 .. Len(offers[b]) : Reorder(b, i, j)
    \/ \E t \in TASK : Take(b, t) \/ Await(b, t) \/ GiveUp(b, t)
    \/ Clear(b)

Pause == delivered' = <<>> /\ UNCHANGED <<buffer, offers, waiting>>

ChannelNext == Pause \/ \E b \in MBF : ChannelStep(b)
ChannelSpec == ChannelInit /\ [][ChannelNext]_cvars
=============================================================================
