-------------------------------- MODULE Fifo --------------------------------
(***************************************************************************)
(* What a channel promises, whoever sends and receives and whatever fails: *)
(* a value that a thread offers enters the channel at most once, or goes   *)
(* back to the thread and never enters; what entered leaves in order and   *)
(* once; nothing moves in a channel that is closed.                        *)
(***************************************************************************)
EXTENDS Integers, Sequences

CONSTANTS Thread, Item, NoItem

VARIABLES
    offer,     \* the value each thread tries to send, or NoItem
    contents,  \* values in the channel, the oldest first
    sent,      \* every value that entered, in order
    received,  \* every value that left, in order
    open       \* is there a channel?

vars == <<offer, contents, sent, received, open>>

Init ==
    /\ offer = [t \in Thread |-> NoItem]
    /\ contents = <<>> /\ sent = <<>> /\ received = <<>>
    /\ open = TRUE

\* Thread t starts to send a value that is not on its way already.
Offer(t) ==
    /\ open /\ offer[t] = NoItem
    /\ \E i \in Item : /\ \A u \in Thread : offer[u] # i
                       /\ \A k \in 1..Len(sent) : sent[k] # i
                       /\ offer' = [offer EXCEPT ![t] = i]
    /\ UNCHANGED <<contents, sent, received, open>>

Send(t) ==
    /\ open /\ offer[t] # NoItem
    /\ contents' = Append(contents, offer[t])
    /\ sent' = Append(sent, offer[t])
    /\ offer' = [offer EXCEPT ![t] = NoItem]
    /\ UNCHANGED <<received, open>>

\* The value is handed back, or lost with its thread: it was not sent.
Withdraw(t) ==
    /\ offer[t] # NoItem
    /\ offer' = [offer EXCEPT ![t] = NoItem]
    /\ UNCHANGED <<contents, sent, received, open>>

Receive ==
    /\ open /\ contents # <<>>
    /\ contents' = Tail(contents)
    /\ received' = Append(received, Head(contents))
    /\ UNCHANGED <<offer, sent, open>>

Close ==
    /\ open
    /\ open' = FALSE
    /\ UNCHANGED <<offer, contents, sent, received>>

Next ==
    \/ \E t \in Thread : Offer(t) \/ Send(t) \/ Withdraw(t)
    \/ Receive \/ Close

Spec == Init /\ [][Next]_vars
=============================================================================
