------------------------------ MODULE Allocator ------------------------------
(***************************************************************************)
(* What the shared memory allocator promises to the processes that use it, *)
(* whatever it does inside: a request is granted a run of free cells of    *)
(* the length that was asked for, or is refused because there is no such   *)
(* run; what is given back becomes free again, as soon as the list can be  *)
(* reached.                                                                *)
(***************************************************************************)
EXTENDS Integers

CONSTANTS
    Thread,     \* threads of all processes
    MaxChunks,  \* cells in the buffer
    Lengths     \* how many cells may be asked for

VARIABLES
    free,      \* cells that may be granted
    wants,     \* cells each thread waits for, 0 when it waits for none
    owned,     \* the runs that were granted
    returning  \* the runs that were given back and are not free yet

vars == <<free, wants, owned, returning>>

Run(begin, n) == begin .. (begin + n - 1)

Init ==
    /\ free = Run(0, MaxChunks)
    /\ wants = [t \in Thread |-> 0]
    /\ owned = {} /\ returning = {}

Request(t) ==
    /\ wants[t] = 0
    /\ \E n \in Lengths : wants' = [wants EXCEPT ![t] = n]
    /\ UNCHANGED <<free, owned, returning>>

Grant(t) ==
    /\ wants[t] # 0
    /\ \E begin \in 0..(MaxChunks - 1) :
          /\ Run(begin, wants[t]) \subseteq free
          /\ free' = free \ Run(begin, wants[t])
          /\ owned' = owned \cup {Run(begin, wants[t])}
    /\ wants' = [wants EXCEPT ![t] = 0]
    /\ UNCHANGED returning

Refuse(t) ==
    /\ wants[t] # 0
    /\ \A begin \in 0..(MaxChunks - 1) : ~ Run(begin, wants[t]) \subseteq free
    /\ wants' = [wants EXCEPT ![t] = 0]
    /\ UNCHANGED <<free, owned, returning>>

GiveBack ==
    /\ \E run \in owned : /\ owned' = owned \ {run}
                          /\ returning' = returning \cup {run}
    /\ UNCHANGED <<free, wants>>

Free ==
    /\ \E run \in returning : /\ returning' = returning \ {run}
                              /\ free' = free \cup run
    /\ UNCHANGED <<wants, owned>>

Next ==
    \/ \E t \in Thread : Request(t) \/ Grant(t) \/ Refuse(t)
    \/ GiveBack \/ Free

Spec == Init /\ [][Next]_vars
=============================================================================
