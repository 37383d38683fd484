------------------------------- MODULE PriChannel -------------------------------
(***************************************************************************)
(* What a priority data queue promises.  A channel holds up to Cap items   *)
(* in the order of priority, and among one priority in the order in which  *)
(* they came; senders offer further items while it is full.  A receiver    *)
(* takes the first item, and the first offer comes in.                     *)
(***************************************************************************)
EXTENDS Naturals, Sequences, FiniteSets, SequencesExt

CONSTANTS PDQ, TASK, ITEM, Cap

VARIABLES
    open,       \* the channels that exist
    buffer,     \* the items of each channel
    offers,     \* the items of its waiting senders
    waiting,    \* the tasks waiting to receive
    delivered   \* <<task, item>> if the last call delivered one, else <<>>

cvars == <<open, buffer, offers, waiting, delivered>>

ChannelInit ==
    /\ open \in SUBSET PDQ
    /\ buffer = [d \in PDQ |-> <<>>] /\ offers = buffer /\ waiting = buffer
    /\ delivered = <<>>

Insert(s, x) ==
    LET n == Cardinality({i \in DOMAIN s : s[i][2] <= x[2]}) IN InsertAt(s, n + 1, x)

Send(d, x) ==
    IF waiting[d] # <<>>
    THEN /\ delivered' = <<Head(waiting[d]), x>>
         /\ waiting' = [waiting EXCEPT ![d] = Tail(@)]
         /\ UNCHANGED <<buffer, offers>>
    ELSE /\ Len(buffer[d]) < Cap[d]
         /\ buffer' = [buffer EXCEPT ![d] = Insert(@, x)]
         /\ delivered' = <<>> /\ UNCHANGED <<offers, waiting>>

Offer(d, i, x) ==
    /\ Len(buffer[d]) = Cap[d] /\ waiting[d] = <<>>
    /\ offers' = [offers EXCEPT ![d] = InsertAt(@, i, x)]
    /\ delivered' = <<>> /\ UNCHANGED <<buffer, waiting>>

Withdraw(d, i) ==
    /\ offers' = [offers EXCEPT ![d] = RemoveAt(@, i)]
    /\ delivered' = <<>> /\ UNCHANGED <<buffer, waiting>>

Reorder(d, i, j) ==
    /\ offers' = [offers EXCEPT ![d] = InsertAt(RemoveAt(@, i), j, @[i])]
    /\ delivered' = <<>> /\ UNCHANGED <<buffer, waiting>>

Take(d, t) ==
    LET all == buffer[d] \o offers[d]
        rest == IF buffer[d] = <<>> THEN <<>> ELSE Tail(buffer[d])
    IN  /\ all # <<>> /\ delivered' = <<t, Head(all)>>
        /\ IF buffer[d] # <<>> /\ offers[d] # <<>>
           THEN buffer' = [buffer EXCEPT ![d] = Insert(rest, Head(offers[d]))]
           ELSE buffer' = [buffer EXCEPT ![d] = rest]
        /\ offers' = [offers EXCEPT ![d] = IF @ = <<>> THEN @ ELSE Tail(@)]
        /\ UNCHANGED waiting

Await(d, t) ==
    /\ buffer[d] \o offers[d] = <<>>
    /\ waiting' = [waiting EXCEPT ![d] = Append(@, t)]
    /\ delivered' = <<>> /\ UNCHANGED <<buffer, offers>>

GiveUp(d, t) ==
    /\ Contains(waiting[d], t)
    /\ waiting' = [waiting EXCEPT ![d] = Remove(@, t)]
    /\ delivered' = <<>> /\ UNCHANGED <<buffer, offers>>

Clear(d) ==
    /\ buffer' = [buffer EXCEPT ![d] = <<>>]
    /\ offers' = [offers EXCEPT ![d] = <<>>] /\ waiting' = [waiting EXCEPT ![d] = <<>>]
    /\ delivered' = <<>>

ChannelStep(d) ==
    \/ \E x \in ITEM : Send(d, x) \/ \E i \in 1 .. Len(offers[d]) + 1 : Offer(d, i, x)
    \/ \E i, j \in 1 .. Len(offers[d]) : Withdraw(d, i) \/ Reorder(d, i, j)
    \/ \E t \in TASK : Take(d, t) \/ Await(d, t) \/ GiveUp(d, t)
    \/ Clear(d)

Delete(d) == Clear(d) /\ open' = open \ {d}
Create(d) == delivered' = <<>> /\ open' = open \cup {d} /\ UNCHANGED <<buffer, offers, waiting>>
Pause     == delivered' = <<>> /\ UNCHANGED <<open, buffer, offers, waiting>>

ChannelNext ==
    \/ Pause
    \/ \E d \in open : ChannelStep(d) /\ UNCHANGED open
    \/ \E d \in PDQ : Delete(d) \/ Create(d)

ChannelSpec == ChannelInit /\ [][ChannelNext]_cvars
=============================================================================
