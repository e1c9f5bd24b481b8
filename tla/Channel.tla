------------------------------- MODULE Channel -------------------------------
(***************************************************************************)
(* The communication channel of channel.rs: a queue in shared memory       *)
(* guarded by a process-shared mutex, two condition variables, the atomic  *)
(* counters `senders' and `receivers', the flag `dropping', and the        *)
(* reference counter of the process that created the channel.              *)
(*                                                                         *)
(* A step of a thread is one access to shared state: one atomic operation, *)
(* one acquisition or release of the mutex, one evaluation of a wait       *)
(* predicate, one transfer under the lock.  Reads of `senders' (or         *)
(* `receivers') and of `dropping' in one condition are one step: dropping  *)
(* never goes back to FALSE, so every outcome of the two loads is the      *)
(* outcome of one joint read at the first or at the second of them.        *)
(***************************************************************************)
EXTENDS Integers, Sequences, FiniteSets

CONSTANTS
    Local,        \* threads of the process that called Channel::new
    Remote,       \* threads of processes forked from it, one per process
    Main,         \* the thread that called Channel::new
    Item,         \* the values that may be sent, each one at most once
    Capacity,     \* the capacity given to Channel::new
    MaxCapacity,  \* bound: how far the shared allocator lets the queue grow
    Ops,          \* the methods of Inner that the threads call
    CanCrash,     \* may a process be killed?
    NoThread,     \* the mutex is free
    NoItem        \* no value in hand

Thread == Local \cup Remote

ReceiveOps == {"receive", "try_receive_until", "try_receive_once",
               "wait_for_message_until"}
SendOps    == {"try_send", "try_send_until", "try_send_once"}

\* Methods with a deadline, and methods that never block.
Timed == {"try_receive_until", "wait_for_message_until", "try_send_until"}
Once  == {"try_receive_once", "try_send_once"}

ASSUME ConstantsAssumption ==
    /\ Main \in Local
    /\ Local \cap Remote = {}
    /\ IsFiniteSet(Local) /\ IsFiniteSet(Remote)
    /\ NoThread \notin Thread
    /\ NoItem \notin Item
    /\ Capacity \in Nat /\ MaxCapacity \in Nat /\ Capacity <= MaxCapacity
    /\ Ops \subseteq ReceiveOps \cup SendOps
    /\ CanCrash \in BOOLEAN

VARIABLES
    queue,       \* contents of the VecDeque, head first
    capacity,    \* its capacity
    lock,        \* holder of the mutex, or NoThread
    senders,     \* Inner.senders
    receivers,   \* Inner.receivers
    dropping,    \* Inner.dropping
    inner,       \* the allocation of Inner: "live", "freed", or "leaked" when
                 \* Inner was freed but the buffer of its queue was not
    references,  \* PerProcessReferences.counter of the creating process
    orphans,     \* what Channel::drop swapped out of the two counters
    handle,      \* the object each thread owns
    pc,          \* where each thread is
    op,          \* the method of Inner it is executing
    item,        \* the value it is sending
    ret,         \* the value about to be returned, while the guard is dropped
    sent,        \* history: every value pushed, in order
    received     \* history: every value popped, in order

store    == <<queue, capacity, sent, received>>
counters == <<senders, receivers, dropping>>
memory   == <<inner, references, orphans>>
call     == <<op, item, ret>>
vars     == <<store, lock, counters, memory, handle, pc, call>>

(***************************************************************************)
(* Control points.  Critical: the thread owns a MutexGuard.  Blocked: it   *)
(* is inside pthread_cond_wait.  A thread killed there was asleep, or was  *)
(* woken and had not told the condition variable yet, or had, and was      *)
(* about to take the mutex back.                                           *)
(***************************************************************************)
Critical == {"ready", "past", "wait", "expired", "decide", "room", "pop",
             "push", "unlock"}
Blocked  == {"asleep", "relock", "relock_expired"}
InCall   == {"check", "lock"} \cup Blocked \cup Critical
Waking   == {"wake_receivers", "wake_senders"}
Closing  == {"store_dropping", "swap_receivers", "swap_senders",
             "notify_receivers", "notify_senders", "drain", "free"}
KilledInWait == {"dead_asleep", "dead_woken", "dead_relock"}
Killed   == {"dead"} \cup KilledInWait
PC       == {"idle", "unwinding", "drop_channel", "destroy_condvars", "ub"}
            \cup InCall \cup Waking \cup Closing \cup Killed

TypeOK ==
    /\ queue \in Seq(Item) /\ sent \in Seq(Item) /\ received \in Seq(Item)
    /\ capacity \in Nat
    /\ lock \in Thread \cup {NoThread}
    /\ senders \in Nat /\ receivers \in Nat /\ dropping \in BOOLEAN
    /\ inner \in {"live", "freed", "leaked"}
    /\ references \in Nat
    /\ orphans \in [receivers : Nat, senders : Nat]
    /\ handle \in [Thread -> {"none", "channel", "sender", "receiver"}]
    /\ pc \in [Thread -> PC]
    /\ op \in [Thread -> ReceiveOps \cup SendOps \cup {"none"}]
    /\ item \in [Thread -> Item \cup {NoItem}]
    /\ ret \in [Thread -> {"none", "ok", "timed_out", "disconnected"}]

\* Channel::new, after which the remote processes are forked.
Init ==
    /\ queue = <<>> /\ sent = <<>> /\ received = <<>>
    /\ capacity = Capacity
    /\ lock = NoThread
    /\ senders = 0 /\ receivers = 0 /\ dropping = FALSE
    /\ inner = "live"
    /\ references = 1
    /\ orphans = [receivers |-> 0, senders |-> 0]
    /\ handle = [t \in Thread |-> IF t = Main THEN "channel" ELSE "none"]
    /\ pc = [t \in Thread |-> "idle"]
    /\ op = [t \in Thread |-> "none"]
    /\ item = [t \in Thread |-> NoItem]
    /\ ret = [t \in Thread |-> "none"]

-----------------------------------------------------------------------------
(***************************************************************************)
(* Condition variables.  A thread asleep in a receiving method waits on    *)
(* item_maybe_available, in a sending method on space_maybe_available.     *)
(***************************************************************************)
Sleepers(methods) == {u \in Thread : pc[u] = "asleep" /\ op[u] \in methods}

\* Threads killed in their sleep: the condition variable still counts them.
DeadSleepers(methods) ==
    {u \in Thread : pc[u] = "dead_asleep" /\ op[u] \in methods}

signal_forgotten(methods, t, next) == pc' = [pc EXCEPT ![t] = next]

\* Condvar::signal by t, which goes on at `next': one sleeper, if any, wakes,
\* or the signal is spent on a thread that was killed in its sleep.
signal(methods, t, next) ==
    \/ /\ Sleepers(methods) = {} \/ DeadSleepers(methods) # {}
       /\ pc' = [pc EXCEPT ![t] = next]
    \/ \E u \in Sleepers(methods) :
          pc' = [pc EXCEPT ![t] = next, ![u] = "relock"]

\* Condvar::broadcast by t: every sleeper wakes.
broadcast(methods, t, next) ==
    pc' = [u \in Thread |-> IF u = t THEN next
                            ELSE IF u \in Sleepers(methods) THEN "relock"
                            ELSE pc[u]]

remaining_capacity == capacity - Len(queue)

\* The counterpart is gone: what a method checks after its wait.
Disconnected(method) ==
    \/ dropping
    \/ (IF method \in ReceiveOps THEN senders ELSE receivers) = 0

\* The closures given to Condvar::wait and Condvar::wait_until.
is_ready(method) ==
    \/ IF method \in ReceiveOps THEN queue # <<>> ELSE remaining_capacity # 0
    \/ IF method = "wait_for_message_until" THEN dropping
                                            ELSE Disconnected(method)

\* Where a method goes on when its wait succeeded.
AfterWait(method) ==
    IF method = "receive" THEN "pop"
    ELSE IF method = "wait_for_message_until" THEN "unlock"
    ELSE "decide"

\* Thread t stays in its call and goes on at `next'.
Goto(t, next) ==
    /\ pc' = [pc EXCEPT ![t] = next]
    /\ UNCHANGED call

\* Thread t returns from its call.
Return(t) ==
    /\ pc' = [pc EXCEPT ![t] = "idle"]
    /\ op' = [op EXCEPT ![t] = "none"]
    /\ item' = [item EXCEPT ![t] = NoItem]
    /\ ret' = [ret EXCEPT ![t] = "none"]

\* Thread t has its result r and drops its guard next.
Finish(t, r) ==
    /\ pc' = [pc EXCEPT ![t] = "unlock"]
    /\ ret' = [ret EXCEPT ![t] = r]
    /\ UNCHANGED <<op, item>>

-----------------------------------------------------------------------------
(***************************************************************************)
(* Handles.  Channel::clone, make_sender and make_receiver borrow an       *)
(* existing handle of the same process; a forked process keeps its copy of *)
(* the Channel for ever, because dropping that copy does nothing.  The     *)
(* counter of a forked process is its own copy and is not modelled here.   *)
(***************************************************************************)
CanBorrow(t, kind) ==
    \/ t \in Remote
    \/ \E u \in Local : /\ handle[u] \in {"channel", kind}
                        /\ pc[u] \in {"idle"} \cup InCall

increase_forgotten(t) == references' = references

\* PerProcessReferences::increase in the creating process.
increase(t) ==
    references' = IF t \in Local THEN references + 1 ELSE references

clone(t) ==
    /\ pc[t] = "idle" /\ handle[t] = "none" /\ t \in Local
    /\ inner = "live" /\ CanBorrow(t, "channel")
    /\ increase(t)
    /\ handle' = [handle EXCEPT ![t] = "channel"]
    /\ UNCHANGED <<store, lock, counters, inner, orphans, pc, call>>

make_sender(t) ==
    /\ pc[t] = "idle" /\ handle[t] = "none"
    /\ inner = "live" /\ CanBorrow(t, "sender")
    /\ increase(t)
    /\ senders' = senders + 1
    /\ handle' = [handle EXCEPT ![t] = "sender"]
    /\ UNCHANGED <<store, lock, receivers, dropping, inner, orphans, pc, call>>

make_receiver(t) ==
    /\ pc[t] = "idle" /\ handle[t] = "none"
    /\ inner = "live" /\ CanBorrow(t, "receiver")
    /\ increase(t)
    /\ receivers' = receivers + 1
    /\ handle' = [handle EXCEPT ![t] = "receiver"]
    /\ UNCHANGED <<store, lock, senders, dropping, inner, orphans, pc, call>>

-----------------------------------------------------------------------------
(***************************************************************************)
(* The methods of Inner.                                                   *)
(***************************************************************************)
CallReceive(t) ==
    /\ pc[t] = "idle" /\ handle[t] = "receiver" /\ inner = "live"
    /\ \E method \in Ops \cap ReceiveOps : op' = [op EXCEPT ![t] = method]
    /\ pc' = [pc EXCEPT ![t] = "check"]
    /\ UNCHANGED <<store, lock, counters, memory, handle, item, ret>>

CallSend(t) ==
    /\ pc[t] = "idle" /\ handle[t] = "sender" /\ inner = "live"
    /\ \E method \in Ops \cap SendOps : op' = [op EXCEPT ![t] = method]
    /\ \E i \in Item :
          /\ \A k \in 1..Len(sent) : sent[k] # i
          /\ \A u \in Thread : item[u] # i
          /\ item' = [item EXCEPT ![t] = i]
    /\ pc' = [pc EXCEPT ![t] = "check"]
    /\ UNCHANGED <<store, lock, counters, memory, handle, ret>>

\* The load of `dropping' every method starts with.
CheckDropping(t) ==
    /\ pc[t] = "check" /\ inner = "live"
    /\ IF dropping THEN Return(t) ELSE Goto(t, "lock")
    /\ UNCHANGED <<store, lock, counters, memory, handle>>

\* Where a method goes on with the mutex.  The deadline of a timed one is then
\* converted: one that is past may come out as a time that does not exist.
AfterLock(method) ==
    IF method \in Timed THEN {"ready", "past"}
    ELSE IF method \notin Once THEN {"ready"}
    ELSE IF method \in ReceiveOps THEN {"pop"} ELSE {"room"}

\* Mutex::try_lock, try_lock_for and try_lock_until, which take a free mutex.
AcquireLock(t) ==
    /\ pc[t] = "lock" /\ inner = "live"
    /\ lock = NoThread
    /\ lock' = t
    /\ \E next \in AfterLock(op[t]) : Goto(t, next)
    /\ UNCHANGED <<store, counters, memory, handle>>

\* EBUSY, or ETIMEDOUT on a mutex held by another: receive and try_send go
\* round their loop, the other methods return.
LockTimeout(t) ==
    /\ pc[t] = "lock" /\ inner = "live"
    /\ lock # NoThread
    /\ IF op[t] \in Timed \cup Once THEN Return(t) ELSE Goto(t, "check")
    /\ UNCHANGED <<store, lock, counters, memory, handle>>

\* A panic unwinds: the call is given up, and the thread's handle is dropped
\* next.
Unwind(t) ==
    /\ pc' = [pc EXCEPT ![t] = "unwinding"]
    /\ op' = [op EXCEPT ![t] = "none"]
    /\ item' = [item EXCEPT ![t] = NoItem]
    /\ UNCHANGED <<ret, handle>>

Panic_keeps_guard(t) ==
    /\ UNCHANGED lock
    /\ Unwind(t)

\* A panic of a thread that holds the mutex drops the guard first.
Panic(t) ==
    /\ lock' = NoThread
    /\ Unwind(t)

\* EINVAL: pthread_mutex_timedlock must wait and its deadline is no time.
LockPanics(t) ==
    /\ pc[t] = "lock" /\ inner = "live"
    /\ lock # NoThread /\ op[t] \in Timed
    /\ Unwind(t)
    /\ UNCHANGED <<store, lock, counters, memory>>

\* The loop condition of Condvar::wait and wait_until_internal.
EvalReady(t) ==
    /\ pc[t] = "ready" /\ inner = "live"
    /\ IF ~is_ready(op[t]) THEN Goto(t, "wait")
       ELSE IF AfterWait(op[t]) = "unlock" THEN Finish(t, "ok")
       ELSE Goto(t, AfterWait(op[t]))
    /\ UNCHANGED <<store, lock, counters, memory, handle>>

\* The same with a deadline that is no time: pthread_cond_timedwait refuses it.
EvalPast(t) ==
    /\ pc[t] = "past" /\ inner = "live"
    /\ \/ /\ ~is_ready(op[t])
          /\ Panic(t)
       \/ /\ is_ready(op[t])
          /\ IF AfterWait(op[t]) = "unlock" THEN Finish(t, "ok")
                                           ELSE Goto(t, AfterWait(op[t]))
          /\ UNCHANGED <<lock, handle>>
    /\ UNCHANGED <<store, counters, memory>>

\* pthread_cond_wait and pthread_cond_timedwait: release the mutex and sleep.
CondWait(t) ==
    /\ pc[t] = "wait" /\ inner = "live"
    /\ lock' = NoThread
    /\ Goto(t, "asleep")
    /\ UNCHANGED <<store, counters, memory, handle>>

SpuriousWake(t) ==
    /\ pc[t] = "asleep"
    /\ Goto(t, "relock")
    /\ UNCHANGED <<store, lock, counters, memory, handle>>

\* pthread_cond_timedwait reaches its deadline.
Expire(t) ==
    /\ pc[t] = "asleep" /\ op[t] \in Timed
    /\ Goto(t, "relock_expired")
    /\ UNCHANGED <<store, lock, counters, memory, handle>>

Relock_barging(t) ==
    /\ pc[t] \in {"relock", "relock_expired"} /\ inner = "live"
    /\ lock' = t
    /\ Goto(t, IF pc[t] = "relock" THEN "ready" ELSE "expired")
    /\ UNCHANGED <<store, counters, memory, handle>>

\* The wait takes the mutex back before it returns.
Relock(t) ==
    /\ pc[t] \in {"relock", "relock_expired"} /\ inner = "live"
    /\ lock = NoThread
    /\ lock' = t
    /\ Goto(t, IF pc[t] = "relock" THEN "ready" ELSE "expired")
    /\ UNCHANGED <<store, counters, memory, handle>>

EvalExpired_unchecked(t) ==
    /\ pc[t] = "expired" /\ inner = "live"
    /\ Finish(t, "timed_out")
    /\ UNCHANGED <<store, lock, counters, memory, handle>>

\* After ETIMEDOUT the predicate is evaluated once more.
EvalExpired(t) ==
    /\ pc[t] = "expired" /\ inner = "live"
    /\ IF ~is_ready(op[t]) THEN Finish(t, "timed_out")
       ELSE IF AfterWait(op[t]) = "unlock" THEN Finish(t, "ok")
       ELSE Goto(t, AfterWait(op[t]))
    /\ UNCHANGED <<store, lock, counters, memory, handle>>

\* try_send_once looks at the queue before it looks at `receivers'.
CheckRoom(t) ==
    /\ pc[t] = "room" /\ inner = "live"
    /\ IF remaining_capacity = 0 THEN Finish(t, "timed_out")
                                 ELSE Goto(t, "decide")
    /\ UNCHANGED <<store, lock, counters, memory, handle>>

\* The check of the counters after the wait; for try_receive_once, after it
\* found the queue empty.
CheckPeers(t) ==
    /\ pc[t] = "decide" /\ inner = "live"
    /\ IF Disconnected(op[t]) THEN Finish(t, "disconnected")
       ELSE IF op[t] = "try_receive_once" THEN Finish(t, "timed_out")
       ELSE Goto(t, IF op[t] \in ReceiveOps THEN "pop" ELSE "push")
    /\ UNCHANGED <<store, lock, counters, memory, handle>>

pop(t) ==
    /\ pc[t] = "pop" /\ inner = "live"
    /\ UNCHANGED <<capacity, sent, counters, memory>>
    /\ \/ /\ queue # <<>>
          /\ queue' = Tail(queue)
          /\ received' = Append(received, Head(queue))
          /\ signal(SendOps, t, "unlock")
          /\ ret' = [ret EXCEPT ![t] = "ok"]
          /\ UNCHANGED <<lock, handle, op, item>>
       \/ /\ queue = <<>>
          /\ UNCHANGED <<queue, received>>
          /\ \/ /\ op[t] = "receive"
                /\ Finish(t, "disconnected")
                /\ UNCHANGED <<lock, handle>>
             \/ /\ op[t] = "try_receive_once"
                /\ Goto(t, "decide")
                /\ UNCHANGED <<lock, handle>>
             \/ /\ op[t] = "try_receive_until"
                /\ Panic(t)

push_twice(i) ==
    /\ queue' = queue \o <<i, i>>
    /\ sent' = sent \o <<i, i>>

push_back(i) ==
    /\ queue' = Append(queue, i)
    /\ sent' = Append(sent, i)

\* VecDeque::push_back grows a full queue as far as the allocator lets it.
push(t) ==
    /\ pc[t] = "push" /\ inner = "live"
    /\ UNCHANGED <<received, counters, memory>>
    /\ \/ /\ \/ remaining_capacity # 0 /\ UNCHANGED capacity
             \/ /\ remaining_capacity = 0
                /\ capacity' \in (capacity + 1)..MaxCapacity
          /\ push_back(item[t])
          /\ signal(ReceiveOps, t, "unlock")
          /\ ret' = [ret EXCEPT ![t] = "ok"]
          /\ item' = [item EXCEPT ![t] = NoItem]
          /\ UNCHANGED <<lock, handle, op>>
       \/ /\ remaining_capacity = 0
          /\ Panic(t)
          /\ UNCHANGED <<queue, capacity, sent>>

\* MutexGuard::drop, and the method returns.
Unlock(t) ==
    /\ pc[t] = "unlock" /\ inner = "live"
    /\ lock' = NoThread
    /\ Return(t)
    /\ UNCHANGED <<store, counters, memory, handle>>

-----------------------------------------------------------------------------
(***************************************************************************)
(* Dropping handles.  Sender::drop and Receiver::drop run their own body   *)
(* and then drop the Channel they contain.                                 *)
(***************************************************************************)
atomic_unchecked_sub(n) == n - 1

atomic_lost_sub(n) == n

atomic_checked_sub(n) == IF n = 0 THEN 0 ELSE n - 1

DropSender(t) ==
    /\ pc[t] \in {"idle", "unwinding"} /\ handle[t] = "sender"
    /\ inner = "live"
    /\ senders' = atomic_checked_sub(senders)
    /\ handle' = [handle EXCEPT ![t] = "channel"]
    /\ pc' = [pc EXCEPT ![t] = IF senders' = 0 THEN "wake_receivers"
                                               ELSE "drop_channel"]
    /\ UNCHANGED <<store, lock, receivers, dropping, memory, call>>

DropReceiver(t) ==
    /\ pc[t] \in {"idle", "unwinding"} /\ handle[t] = "receiver"
    /\ inner = "live"
    /\ receivers' = atomic_checked_sub(receivers)
    /\ handle' = [handle EXCEPT ![t] = "channel"]
    /\ pc' = [pc EXCEPT ![t] = IF receivers' = 0 THEN "wake_senders"
                                                 ELSE "drop_channel"]
    /\ UNCHANGED <<store, lock, senders, dropping, memory, call>>

WakePeers(t) ==
    /\ inner = "live"
    /\ \/ /\ pc[t] = "wake_receivers"
          /\ broadcast(ReceiveOps, t, "drop_channel")
       \/ /\ pc[t] = "wake_senders"
          /\ broadcast(SendOps, t, "drop_channel")
    /\ UNCHANGED <<store, lock, counters, memory, handle, call>>

\* A plain Channel goes out of scope.
DropChannel(t) ==
    /\ pc[t] = "idle" /\ handle[t] = "channel"
    /\ Goto(t, "drop_channel")
    /\ UNCHANGED <<store, lock, counters, memory, handle>>

\* Channel::drop: nothing in a forked process; PerProcessReferences::decrease
\* in the creating one, and the last reference goes on to close the channel.
Release(t) ==
    /\ pc[t] = "drop_channel"
    /\ handle' = [handle EXCEPT ![t] = "none"]
    /\ \/ /\ t \in Remote
          /\ Goto(t, "idle")
          /\ UNCHANGED references
       \/ /\ t \in Local
          /\ references' = references - 1
          /\ Goto(t, IF references = 1 THEN "store_dropping" ELSE "idle")
    /\ UNCHANGED <<store, lock, counters, inner, orphans>>

StoreDropping(t) ==
    /\ pc[t] = "store_dropping" /\ inner = "live"
    /\ dropping' = TRUE
    /\ Goto(t, "swap_receivers")
    /\ UNCHANGED <<store, lock, senders, receivers, memory, handle>>

SwapReceivers(t) ==
    /\ pc[t] = "swap_receivers" /\ inner = "live"
    /\ orphans' = [orphans EXCEPT !.receivers = receivers]
    /\ receivers' = 0
    /\ Goto(t, "swap_senders")
    /\ UNCHANGED <<store, lock, senders, dropping, inner, references, handle>>

SwapSenders(t) ==
    /\ pc[t] = "swap_senders" /\ inner = "live"
    /\ orphans' = [orphans EXCEPT !.senders = senders]
    /\ senders' = 0
    /\ Goto(t, "notify_receivers")
    /\ UNCHANGED <<store, lock, receivers, dropping, inner, references, handle>>

NotifyReceivers(t) ==
    /\ pc[t] = "notify_receivers" /\ inner = "live"
    /\ IF orphans.receivers # 0
       THEN broadcast(ReceiveOps, t, "notify_senders")
       ELSE pc' = [pc EXCEPT ![t] = "notify_senders"]
    /\ UNCHANGED <<store, lock, counters, memory, handle, call>>

NotifySenders(t) ==
    /\ pc[t] = "notify_senders" /\ inner = "live"
    /\ IF orphans.senders # 0
       THEN broadcast(SendOps, t, "drain")
       ELSE pc' = [pc EXCEPT ![t] = "drain"]
    /\ UNCHANGED <<store, lock, counters, memory, handle, call>>

Drain_untimed(t) ==
    /\ pc[t] = "drain" /\ inner = "live"
    /\ lock = NoThread
    /\ Goto(t, "free")
    /\ UNCHANGED <<store, lock, counters, memory, handle>>

\* try_lock_for(30 s): the mutex is taken and released at once, or the
\* attempt times out on a mutex held by another; both go on.
Drain(t) ==
    /\ pc[t] = "drain" /\ inner = "live"
    /\ Goto(t, "free")
    /\ UNCHANGED <<store, lock, counters, memory, handle>>

\* A mutex has its holder for a user, and the threads that gave it up inside
\* pthread_cond_wait and will take it back, killed ones included.
UsesMutex(u) == lock = u \/ pc[u] \in Blocked \cup KilledInWait

\* The fields of Inner are dropped, the mutex first.  pthread_mutex_destroy
\* refuses a mutex that has users, and then Mutex::drop does not drop the queue
\* inside it.  From here on nobody may use Inner, whose memory is about to be
\* returned.
Free(t) ==
    /\ pc[t] = "free" /\ inner = "live"
    /\ inner' = IF \E u \in Thread : UsesMutex(u) THEN "leaked" ELSE "freed"
    /\ Goto(t, "destroy_condvars")
    /\ UNCHANGED <<store, lock, counters, references, orphans, handle>>

\* Condvar::drop, twice: pthread_cond_destroy waits for the threads that are
\* asleep inside pthread_cond_wait or were killed before they told it of their
\* wake-up.  Then Inner and the counter are freed.
DestroyCondvars(t) ==
    /\ pc[t] = "destroy_condvars"
    /\ \A u \in Thread : pc[u] \notin {"asleep", "dead_asleep", "dead_woken"}
    /\ Goto(t, "idle")
    /\ UNCHANGED <<store, lock, counters, memory, handle>>

-----------------------------------------------------------------------------
(***************************************************************************)
(* Failures.                                                               *)
(***************************************************************************)

\* A handle through which t can reach Inner.
Reaches(t) == t \in Remote \/ handle[t] # "none"

\* A step of t inside a freed Inner is undefined behaviour: nothing is said
\* of t after it.
UseAfterFree(t) ==
    /\ inner # "live"
    /\ \/ pc[t] \in (InCall \ {"asleep"}) \cup Waking \cup Closing
       \/ pc[t] \in {"idle", "unwinding"} /\ Reaches(t)
    /\ pc' = [pc EXCEPT ![t] = "ub"]
    /\ UNCHANGED <<store, lock, counters, memory, handle, call>>

Processes == {Local} \cup {{t} : t \in Remote}

\* What becomes of a thread that is killed at a place.
KilledAt(place) ==
    CASE place = "asleep" -> {"dead_asleep"}
      [] place \in {"relock", "relock_expired"} -> {"dead_woken", "dead_relock"}
      [] OTHER -> {"dead"}

\* A process is killed: its threads stop where they are, a mutex one of them
\* holds stays locked, the counters keep its handles, and the mutex and the
\* condition variables its waiters.
Crash(P) ==
    /\ CanCrash
    /\ \A t \in P : pc[t] \notin Killed
    /\ \E place \in [P -> Killed] :
          /\ \A t \in P : place[t] \in KilledAt(pc[t])
          /\ pc' = [t \in Thread |-> IF t \in P THEN place[t] ELSE pc[t]]
    /\ UNCHANGED <<store, lock, counters, memory, handle, call>>

-----------------------------------------------------------------------------
\* What the program decides to do.
Begin(t) ==
    \/ clone(t) \/ make_sender(t) \/ make_receiver(t)
    \/ CallReceive(t) \/ CallSend(t)
    \/ DropChannel(t) \/ DropSender(t) \/ DropReceiver(t)

\* The steps of a thread inside a method, and inside a drop.
MethodStep(t) ==
    \/ CheckDropping(t) \/ AcquireLock(t) \/ LockTimeout(t) \/ LockPanics(t)
    \/ EvalReady(t) \/ EvalPast(t) \/ CondWait(t) \/ Relock(t) \/ EvalExpired(t)
    \/ CheckRoom(t) \/ CheckPeers(t) \/ pop(t) \/ push(t) \/ Unlock(t)

DropStep(t) ==
    \/ WakePeers(t) \/ Release(t) \/ StoreDropping(t)
    \/ SwapReceivers(t) \/ SwapSenders(t)
    \/ NotifyReceivers(t) \/ NotifySenders(t) \/ Drain(t) \/ Free(t)
    \/ DestroyCondvars(t)

Next ==
    \/ \E t \in Thread : \/ Begin(t) \/ MethodStep(t) \/ DropStep(t)
                         \/ SpuriousWake(t) \/ Expire(t) \/ UseAfterFree(t)
    \/ \E P \in Processes : Crash(P)

Spec == Init /\ [][Next]_vars

\* A thread that can take a step of a method or of a drop takes it, a deadline
\* is reached in the end, and a mutex that is free again and again is not
\* denied to the same thread for ever.
Fairness ==
    \A t \in Thread : /\ WF_vars(MethodStep(t))
                      /\ WF_vars(DropStep(t))
                      /\ WF_vars(Expire(t))
                      /\ SF_vars(AcquireLock(t) \/ Relock(t))

FairSpec == Spec /\ Fairness

-----------------------------------------------------------------------------
(***************************************************************************)
(* Safety.                                                                 *)
(***************************************************************************)

\* Every thread that is about to touch the queue holds the mutex, also after
\* the mutex was given up and taken back inside a condition-variable wait.
LockDiscipline == \A t \in Thread : pc[t] \in Critical => lock = t

\* The mutex is not robust: no path out of a method, be it a timeout, a
\* disconnected channel, a panic that unwinds through push or pop or a deadline
\* that the operating system refuses, may leave it locked.  Only a thread that
\* was killed, or ran into a freed Inner, holds it outside a critical section.
NoOrphanedLock ==
    \A t \in Thread : lock = t => pc[t] \in Critical \cup {"dead", "ub"}

\* Inner, with its mutex, its loops, its timeouts and its failures, implements
\* the channel of Fifo: values are offered by CallSend, enter in push, leave in
\* pop, and a send that fails has not sent.
Abstract == INSTANCE Fifo
    WITH offer <- item, contents <- queue, open <- (inner = "live")

ImplementsFifo == Abstract!Spec

\* While the channel is not being destroyed, the two atomic counters are the
\* numbers of Sender and Receiver objects, over all processes, crashed ones
\* included.
CountersMatchHandles ==
    ~dropping => /\ senders = Cardinality({t \in Thread : handle[t] = "sender"})
                 /\ receivers = Cardinality({t \in Thread : handle[t] = "receiver"})

\* The reference counter keeps Inner alive for the process that created it:
\* once Inner is freed no thread of that process owns a handle, and none of
\* them ever runs inside a freed Inner.
CreatorNeverDangles ==
    /\ inner # "live" => \A t \in Local : handle[t] = "none"
    /\ \A t \in Local : pc[t] # "ub"

\* When Channel::drop leaks the buffer of the queue it is because of a thread of
\* another process, in the mutex or in a wait on it: at that moment no thread of
\* the creating process is.
LeakNeedsRemoteUser ==
    [][inner = "live" /\ inner' = "leaked"
          => /\ \E u \in Remote : UsesMutex(u)
             /\ \A u \in Local : ~UsesMutex(u)]_vars

\* A method that looked at the queue and comes back empty-handed tells the
\* truth until it drops its guard: receive returns None, and the other two
\* time out, only when everything sent has been received; a send times out
\* after its wait only on a full queue.
EmptyHandedTellsTruth ==
    \A t \in Thread :
        /\ \/ ret[t] = "timed_out" /\ op[t] \in ReceiveOps
           \/ ret[t] = "disconnected" /\ op[t] = "receive"
           => received = sent
        /\ ret[t] = "timed_out" /\ op[t] \in SendOps => Len(queue) = capacity

(***************************************************************************)
(* Signals are not lost between pushing and popping.  A thread is on its   *)
(* way to take (to give) when it was woken or holds the mutex and has not  *)
(* yet transferred.                                                        *)
(***************************************************************************)
OnTheWay(methods) ==
    {t \in Thread : /\ op[t] \in methods
                    /\ pc[t] \in {"relock", "relock_expired", "ready",
                                  "past", "expired", "decide", "pop", "push"}}

\* A process that was killed may have taken a signal with it.
SomeKilled == \E k \in Thread : pc[k] \in Killed

\* While a receiver sleeps and senders exist, every queued value has a thread
\* on its way to take it, unless the wake-up of all receivers is pending or a
\* process was killed.
NoStrandedItem ==
    \/ SomeKilled
    \/ Sleepers(ReceiveOps) = {} \/ senders = 0 \/ dropping
    \/ \E t \in Thread : pc[t] = "wake_receivers"
    \/ Len(queue) <= Cardinality(OnTheWay(ReceiveOps))

\* While a sender sleeps and receivers exist, every free slot has a thread on
\* its way to fill it, unless the wake-up of all senders is pending or a
\* process was killed.
NoStrandedSpace ==
    \/ SomeKilled
    \/ Sleepers(SendOps) = {} \/ receivers = 0 \/ dropping
    \/ \E t \in Thread : pc[t] = "wake_senders"
    \/ remaining_capacity <= Cardinality(OnTheWay(SendOps))

(***************************************************************************)
(* Liveness.                                                               *)
(***************************************************************************)

\* A receiver asleep in `receive' does not sleep on while a value stays in
\* the queue, unless a process was killed: it may have taken the mutex or the
\* signal of a push with it.
ReceiverServed ==
    \A t \in Thread :
        (pc[t] = "asleep" /\ op[t] = "receive" /\ queue # <<>>)
            ~> (pc[t] # "asleep" \/ queue = <<>> \/ SomeKilled)

\* Channel::drop of the last reference finishes, even when a process died
\* with the mutex locked.  One thing can hold it up: a thread of another
\* process that a condition variable still counts, because it fell asleep after
\* the broadcast, or was killed in its sleep or while it woke up.
CloseCompletes ==
    \A t \in Local :
        (pc[t] = "store_dropping")
            ~> (\/ pc[t] \in {"idle"} \cup Killed
                \/ /\ pc[t] = "destroy_condvars"
                   /\ \E u \in Remote :
                         pc[u] \in {"asleep", "dead_asleep", "dead_woken"})

(***************************************************************************)
(* Statements of the comments and assertions of channel.rs that the code   *)
(* does not keep; each is refuted by a run of its own.                     *)
(***************************************************************************)

\* "Tries to receive an item [forever, or until no senders are available]":
\* a receiver asleep in `receive' wakes when no sender is left.
LastSenderWakesReceivers ==
    \A t \in Thread :
        (pc[t] = "asleep" /\ op[t] = "receive" /\ senders = 0 /\ ~dropping)
            ~> (pc[t] # "asleep" \/ senders # 0 \/ dropping)

\* "we are sure we are the only ones who's referencing the Inner pointer":
\* when Inner is freed no thread is inside one of its methods.
SoleReferenceAtFree ==
    inner # "live" => \A t \in Thread : pc[t] \notin InCall \cup Waking

\* expect("There should be something!!"), expect("Shouldn't fail"): a method
\* that goes on to pop or to push after its wait finds a value, or room.
WaitedForSomething ==
    \A t \in Thread :
        /\ pc[t] = "pop" /\ op[t] = "try_receive_until" => queue # <<>>
        /\ pc[t] = "push" => remaining_capacity # 0
=============================================================================
