------------------------------ MODULE Lifetime ------------------------------
(***************************************************************************)
(* What is allocated for a channel, and who gives it back.  ShmemAlloc::new *)
(* and Channel::new map and allocate step by step, and may fail at each.   *)
(* Then handles (Channel, or the Channel inside a Sender or a Receiver)    *)
(* are cloned, dropped, copied by fork, moved to another process and       *)
(* destroyed, and PerProcessReferences of process_rc.rs, of which every    *)
(* process has a copy of its own, decides who frees.                       *)
(*                                                                         *)
(* A step is one atomic operation of PerProcessReferences.  What happens   *)
(* inside a live channel, and how Channel::drop closes it, is the subject  *)
(* of Channel.                                                             *)
(***************************************************************************)
EXTENDS Integers, FiniteSets

CONSTANTS
    Creator,   \* the process that calls ShmemAlloc::new and Channel::new
    Forked,    \* processes that may be forked
    Worker,    \* threads of a process
    MaxMade,   \* bound: handles that are made in a process
    MaxMoves,  \* bound: handles that are moved to another process
    Word       \* bound: the number of values of usize

Process == {Creator} \cup Forked
Thread  == Process \X Worker

ASSUME LifetimeAssumption ==
    /\ Creator \notin Forked
    /\ IsFiniteSet(Forked) /\ IsFiniteSet(Worker)
    /\ MaxMade \in Nat \ {0} /\ MaxMoves \in Nat
    \* usize counts every handle that a chain of forks can make.
    /\ Word \in Nat /\ Word > (Cardinality(Forked) + 1) * MaxMade

VARIABLES
    start,      \* the allocation that comes next, "done" or "failed"
    mapped,     \* the allocations that exist
    status,     \* of each process: "unborn", "running", "gone" when it has
                \* ended, "killed" when it owned a handle and may have been
                \* inside a method
    counter,    \* PerProcessReferences.counter in each process
    pid,        \* PerProcessReferences.pid in each process
    dangling,   \* processes whose PerProcessReferences was freed
    handles,    \* handles that each process owns
    pc,         \* where each thread is
    count,      \* what increase has loaded from the counter
    made,       \* history: handles made in each process since it exists
    exported,   \* history: handles moved away from the creating process
    imported,   \* history: handles moved to it
    destroyed   \* history: Channel::destroy was called

heap    == <<counter, pid, dangling>>
history == <<made, exported, imported, destroyed>>
vars    == <<start, mapped, status, heap, handles, pc, count, history>>

\* The vector of free chunks, the list around it, the memory buffer; then the
\* queue's buffer and Inner, which are taken from the memory buffer.
Allocations == {"chunks", "list", "buffer", "queue", "inner"}

Cloning  == {"load", "swap", "add", "reset"}
Dropping == {"drop_swap", "drop_sub", "close"}
PC       == {"idle", "panic", "ub"} \cup Cloning \cup Dropping

TypeOK ==
    /\ start \in Allocations \cup {"done", "failed"}
    /\ mapped \subseteq Allocations
    /\ status \in [Process -> {"unborn", "running", "gone", "killed"}]
    /\ dangling \subseteq Process
    /\ counter \in [Process -> 0..(Word - 1)] /\ pid \in [Process -> Process]
    /\ handles \in [Process -> Nat]
    /\ pc \in [Thread -> PC] /\ count \in [Thread -> Nat]
    /\ made \in [Process -> 0..MaxMade]
    /\ exported \in 0..MaxMoves /\ imported \in 0..MaxMoves
    /\ destroyed \in BOOLEAN

Init ==
    /\ start = "chunks" /\ mapped = {}
    /\ status = [p \in Process |-> IF p = Creator THEN "running" ELSE "unborn"]
    /\ dangling = {}
    /\ counter = [p \in Process |-> 0]
    /\ pid = [p \in Process |-> Creator]
    /\ handles = [p \in Process |-> 0]
    /\ pc = [t \in Thread |-> "idle"]
    /\ count = [t \in Thread |-> 0]
    /\ made = [p \in Process |-> 0]
    /\ exported = 0 /\ imported = 0 /\ destroyed = FALSE

-----------------------------------------------------------------------------
(***************************************************************************)
(* ShmemAlloc::new, then Channel::new.                                     *)
(***************************************************************************)
Following ==
    [chunks |-> "list", list |-> "buffer", buffer |-> "queue",
     queue |-> "inner", inner |-> "done"]

new_zero == 0

\* PerProcessReferences::new.
new == 1

Allocate ==
    /\ start \in Allocations
    /\ mapped' = mapped \cup {start}
    /\ start' = Following[start]
    /\ IF start' = "done"
       THEN /\ counter' = [counter EXCEPT ![Creator] = new]
            /\ handles' = [handles EXCEPT ![Creator] = 1]
            /\ made' = [made EXCEPT ![Creator] = 1]
       ELSE UNCHANGED <<counter, handles, made>>
    /\ UNCHANGED <<status, pid, dangling, pc, count, exported, imported,
                   destroyed>>

\* What is dropped when an allocation fails: the value that was to be put into
\* it.  The list was turned into a raw pointer before the buffer is mapped.
Unwound(allocation) ==
    CASE allocation = "list"  -> {"chunks"}
      [] allocation = "inner" -> {"queue"}
      [] OTHER                -> {}

AllocateFails ==
    /\ start \in Allocations
    /\ mapped' = mapped \ Unwound(start)
    /\ start' = "failed"
    /\ UNCHANGED <<status, heap, handles, pc, count, history>>

-----------------------------------------------------------------------------
(***************************************************************************)
(* Processes.                                                              *)
(***************************************************************************)

alive == {p \in Process : status[p] = "running"}

\* The memory of the process is copied, its PerProcessReferences too.  Process
\* ids are not used again.
fork(p, q) ==
    /\ p \in alive /\ status[q] = "unborn" /\ handles[p] > 0
    /\ status' = [status EXCEPT ![q] = "running"]
    /\ counter' = [counter EXCEPT ![q] = counter[p]]
    /\ pid' = [pid EXCEPT ![q] = pid[p]]
    /\ dangling' = IF p \in dangling THEN dangling \cup {q} ELSE dangling
    /\ handles' = [handles EXCEPT ![q] = handles[p]]
    /\ made' = [made EXCEPT ![q] = 0]
    /\ UNCHANGED <<start, mapped, pc, count, exported, imported, destroyed>>

\* A process ends or is killed, and its handles are not dropped.
Exit(p) ==
    /\ p \in alive /\ start = "done"
    /\ status' = [status EXCEPT ![p] = IF handles[p] = 0 THEN "gone" ELSE "killed"]
    /\ handles' = [handles EXCEPT ![p] = 0]
    /\ UNCHANGED <<start, mapped, heap, pc, count, history>>

\* A handle that is being cloned is borrowed and stays where it is.
Spare(p) ==
    handles[p] - (IF \E w \in Worker : pc[<<p, w>>] \in Cloning THEN 1 ELSE 0)

\* A Sender is sent through another channel, as the test of channel.rs does.
\* Between two forked processes that would change nothing: neither counts.
Move(p, q) ==
    /\ p \in alive /\ q \in alive /\ p # q /\ Creator \in {p, q}
    /\ Spare(p) > 0 /\ exported + imported < MaxMoves
    /\ handles' = [handles EXCEPT ![p] = @ - 1, ![q] = @ + 1]
    /\ exported' = IF p = Creator THEN exported + 1 ELSE exported
    /\ imported' = IF q = Creator THEN imported + 1 ELSE imported
    /\ UNCHANGED <<start, mapped, status, heap, pc, count, made, destroyed>>

-----------------------------------------------------------------------------
(***************************************************************************)
(* PerProcessReferences::increase, called by Channel::clone, make_sender   *)
(* and make_receiver.                                                      *)
(***************************************************************************)
Running(t) == t[1] \in alive

\* Atomic operations on usize wrap around.
fetch_add(n, k) == (n + k) % Word

fetch_sub_signed(n, k) == n - k

fetch_sub(n, k) == (n - k) % Word

At(t, place) == Running(t) /\ pc[t] = place

Goto(t, place) == pc' = [pc EXCEPT ![t] = place]

clone(t) ==
    /\ At(t, "idle") /\ handles[t[1]] > 0
    /\ made[t[1]] + Cardinality({w \in Worker : pc[<<t[1], w>>] \in Cloning})
          < MaxMade
    /\ Goto(t, "load")
    /\ UNCHANGED <<start, mapped, status, heap, handles, count, history>>

Load(t) ==
    /\ At(t, "load") /\ t[1] \notin dangling
    /\ count' = [count EXCEPT ![t] = counter[t[1]]]
    /\ Goto(t, "swap")
    /\ UNCHANGED <<start, mapped, status, heap, handles, history>>

Swap(t) ==
    /\ At(t, "swap") /\ t[1] \notin dangling
    /\ pid' = [pid EXCEPT ![t[1]] = t[1]]
    /\ Goto(t, IF pid[t[1]] = t[1] THEN "add"
               ELSE IF count[t] = 0 THEN "panic" ELSE "reset")
    /\ UNCHANGED <<start, mapped, status, counter, dangling, handles, count,
                   history>>

\* The new handle.
Made(t) ==
    /\ handles' = [handles EXCEPT ![t[1]] = @ + 1]
    /\ made' = [made EXCEPT ![t[1]] = @ + 1]
    /\ count' = [count EXCEPT ![t] = 0]
    /\ Goto(t, "idle")
    /\ UNCHANGED <<start, mapped, status, pid, dangling, exported, imported,
                   destroyed>>

Add(t) ==
    /\ At(t, "add") /\ t[1] \notin dangling
    /\ counter' = [counter EXCEPT ![t[1]] = fetch_add(@, 1)]
    /\ Made(t)

Reset_store(t) ==
    /\ At(t, "reset") /\ t[1] \notin dangling
    /\ counter' = [counter EXCEPT ![t[1]] = 1]
    /\ Made(t)

\* The first use after a fork: the counter is to restart at one.
Reset(t) ==
    /\ At(t, "reset") /\ t[1] \notin dangling
    /\ counter' = [counter EXCEPT ![t[1]] = fetch_sub(@, count[t] - 1)]
    /\ Made(t)

-----------------------------------------------------------------------------
(***************************************************************************)
(* Channel::drop and PerProcessReferences::decrease.                       *)
(***************************************************************************)
drop_everywhere(t) ==
    /\ At(t, "idle") /\ Spare(t[1]) > 0
    /\ handles' = [handles EXCEPT ![t[1]] = @ - 1]
    /\ Goto(t, "drop_swap")
    /\ UNCHANGED <<start, mapped, status, heap, count, history>>

\* Nothing is done where original_pid is not the pid of the process.
drop(t) ==
    /\ At(t, "idle") /\ Spare(t[1]) > 0
    /\ handles' = [handles EXCEPT ![t[1]] = @ - 1]
    /\ IF t[1] = Creator THEN Goto(t, "drop_swap") ELSE UNCHANGED pc
    /\ UNCHANGED <<start, mapped, status, heap, count, history>>

\* Channel::destroy, with the only handle there is: original_pid becomes the
\* pid of the process, and the handle is dropped.
destroy(t) ==
    /\ \A w \in Worker : At(<<t[1], w>>, "idle")
    /\ handles[t[1]] = 1 /\ \A p \in Process \ {t[1]} : handles[p] = 0
    /\ "inner" \in mapped /\ ~destroyed
    /\ handles' = [handles EXCEPT ![t[1]] = 0]
    /\ destroyed' = TRUE
    /\ Goto(t, "drop_swap")
    /\ UNCHANGED <<start, mapped, status, heap, count, made, exported, imported>>

DropSwap(t) ==
    /\ At(t, "drop_swap") /\ t[1] \notin dangling
    /\ pid' = [pid EXCEPT ![t[1]] = t[1]]
    /\ Goto(t, IF pid[t[1]] = t[1] THEN "drop_sub" ELSE "close")
    /\ UNCHANGED <<start, mapped, status, counter, dangling, handles, count,
                   history>>

DropSub_late(t) ==
    /\ At(t, "drop_sub") /\ t[1] \notin dangling
    /\ counter' = [counter EXCEPT ![t[1]] = fetch_sub(@, 1)]
    /\ Goto(t, IF counter[t[1]] = 0 THEN "close" ELSE "idle")
    /\ UNCHANGED <<start, mapped, status, pid, dangling, handles, count, history>>

DropSub(t) ==
    /\ At(t, "drop_sub") /\ t[1] \notin dangling
    /\ counter' = [counter EXCEPT ![t[1]] = fetch_sub(@, 1)]
    /\ Goto(t, IF counter[t[1]] = 1 THEN "close" ELSE "idle")
    /\ UNCHANGED <<start, mapped, status, pid, dangling, handles, count, history>>

\* Somebody may be inside the mutex of Inner, or in a wait on it: a method is
\* called on a handle, and who was killed with one may have been in a method.
MutexInUse == \E p \in Process : handles[p] > 0 \/ status[p] = "killed"

\* Inner goes back to the allocator, and PerProcessReferences to the heap.
\* Mutex::drop gives the queue's buffer back, but not where destroying the
\* mutex fails because it is in use, and not in a process that did not create
\* it, where it does nothing.
Close(t) ==
    /\ At(t, "close")
    /\ \/ t[1] = Creator /\ mapped' = mapped \ {"inner", "queue"}
       \/ (t[1] # Creator \/ MutexInUse) /\ mapped' = mapped \ {"inner"}
    /\ dangling' = dangling \cup {t[1]}
    /\ Goto(t, "idle")
    /\ UNCHANGED <<start, status, counter, pid, handles, count, history>>

\* A thread that uses a PerProcessReferences that was freed.
UseAfterFree(t) ==
    /\ Running(t) /\ t[1] \in dangling
    /\ pc[t] \in Cloning \cup {"drop_swap", "drop_sub"}
    /\ Goto(t, "ub")
    /\ UNCHANGED <<start, mapped, status, heap, handles, count, history>>

Next ==
    \/ Allocate \/ AllocateFails
    \/ \E p, q \in Process : fork(p, q) \/ Move(p, q)
    \/ \E p \in Process : Exit(p)
    \/ \E t \in Thread :
          \/ clone(t) \/ Load(t) \/ Swap(t) \/ Add(t) \/ Reset(t)
          \/ drop(t) \/ destroy(t) \/ DropSwap(t) \/ DropSub(t) \/ Close(t)
          \/ UseAfterFree(t)

Spec == Init /\ [][Next]_vars

-----------------------------------------------------------------------------
(***************************************************************************)
(* Properties.                                                             *)
(***************************************************************************)
Quiet(p) == p \in alive \ dangling /\ \A w \in Worker : pc[<<p, w>>] = "idle"

\* When no thread of a process is inside PerProcessReferences, its counter is
\* what it should be: in the creating process the handles it has, made there
\* and not dropped there; in a forked one, from its first use on, the handles
\* made since the fork, however many threads used it first at the same time,
\* and none of what the other process had counted.
CounterCounts ==
    /\ Quiet(Creator) /\ start = "done"
          => counter[Creator] = handles[Creator] + exported - imported
    /\ \A p \in Forked : Quiet(p) /\ pid[p] = p /\ ~destroyed
          => counter[p] = made[p]

\* The creating process closes the channel under no handle of its own, and
\* never uses a counter that it has freed, unless a handle that was made in
\* another process was moved to it and dropped there.
CreatorSafe ==
    \/ imported > 0
    \/ /\ \A w \in Worker : pc[<<Creator, w>>] # "ub"
       /\ "inner" \notin mapped /\ start = "done" => handles[Creator] = 0

\* The mutex was ever within the reach of another process.
Shared == \E p \in Forked : status[p] # "unborn"

\* When the creating process has dropped its last handle Inner is given back,
\* unless a handle was moved away from it: dropped elsewhere, it is never
\* subtracted.  So is the queue's buffer, unless there was another process that
\* could be in the way of destroying the mutex: a program that never forks
\* leaks nothing.
LastDropFrees ==
    Creator \in alive /\ start = "done" /\ handles[Creator] = 0
    /\ (\A w \in Worker : pc[<<Creator, w>>] = "idle")
        => \/ exported > 0 \/ destroyed
           \/ "inner" \notin mapped /\ ("queue" \in mapped => Shared)

\* increase panics on a counter that is zero: no copy of it ever is, when
\* there is a handle to clone and none was moved to the creating process.
NeverZero == imported = 0 => \A t \in Thread : pc[t] # "panic"

\* "if this method fails, all the memory is freed": a ShmemAlloc::new that
\* fails, at the vector, at the list or at the memory buffer, leaves nothing.
FailedNewFreesAll ==
    start = "failed" /\ "buffer" \notin mapped => mapped = {}

\* "Manually destroys all the internal structures from ANY process id": after
\* Channel::destroy of the only handle nothing of the channel is left.
DestroyFrees ==
    destroyed /\ (\A t \in Thread : pc[t] = "idle")
        => mapped \cap {"inner", "queue"} = {}
=============================================================================
