------------------------------ MODULE Deadline ------------------------------
(***************************************************************************)
(* The methods of mutex.rs and condvar.rs that give up at a deadline:      *)
(* which clock the deadline is computed from, which clock it is compared   *)
(* with, and what becomes of a deadline that has passed.                   *)
(*                                                                         *)
(* One thread calls one method.  Other threads take and release the mutex  *)
(* and, while they hold it, make the predicate of the wait true or false.  *)
(* Time passes at any point, and somebody may set the realtime clock.      *)
(***************************************************************************)
EXTENDS UnixClock

CONSTANTS
    Ops,          \* the methods that are called
    Offsets,      \* realtime clock minus monotonic clock, in nanoseconds
    MaxTarget,    \* bound: the latest time that is asked for
    MaxDeadline,  \* bound: the latest deadline that is computed
    MaxTime       \* bound: the latest time

LockOps == {"try_lock_for", "try_lock_until"}
WaitOps == {"wait_for", "wait_until"}
ForOps  == {"try_lock_for", "wait_for"}

ASSUME DeadlineAssumption ==
    /\ Ops \subseteq LockOps \cup WaitOps
    /\ Offsets \subseteq Nat /\ Offsets # {}
    /\ MaxTarget \in Nat /\ MaxDeadline \in Nat /\ MaxTime \in Nat
    /\ MaxTarget <= MaxDeadline
    /\ \A o, p \in Offsets : MaxDeadline + o - p <= MaxTime

VARIABLES
    now,      \* the monotonic clock, in nanoseconds
    offset,   \* realtime clock minus monotonic clock
    stepped,  \* the realtime clock was set during the call
    mutex,    \* "free", "ours", or "other"
    ready,    \* the predicate of the wait
    pc,       \* where the call is
    op,       \* the method
    target,   \* monotonic time before which it must not give up
    gap,      \* the duration to add to the clock that is read next
    until,    \* the deadline that is given to the operating system
    result    \* "none", "ok", "timed_out" or "panic"

clocks == <<now, offset, stepped>>
args   == <<op, target>>
vars   == <<clocks, mutex, ready, pc, args, gap, until, result>>

PC == {"idle", "instant", "read", "lock", "ready", "asleep", "relock",
       "relock_expired", "expired", "done"}

TypeOK ==
    /\ now \in Nat /\ offset \in Offsets /\ stepped \in BOOLEAN
    /\ mutex \in {"free", "ours", "other"} /\ ready \in BOOLEAN
    /\ pc \in PC
    /\ op \in LockOps \cup WaitOps \cup {"none"}
    /\ target \in Nat /\ gap \in Int
    /\ until \in [sec : Int, nsec : Int]
    /\ -NANOS <= until.nsec /\ until.nsec < NANOS
    /\ result \in {"none", "ok", "timed_out", "panic"}

Init ==
    /\ now = 0 /\ offset \in Offsets /\ stepped = FALSE
    /\ mutex = "free" /\ ready = FALSE
    /\ pc = "idle" /\ op = "none" /\ target = 0 /\ gap = 0
    /\ until = [sec |-> 0, nsec |-> 0]
    /\ result = "none"

-----------------------------------------------------------------------------
(***************************************************************************)
(* Clocks.                                                                 *)
(***************************************************************************)
monotonic == with_clock_id(now)

realtime == with_clock_id(now + offset)

ReadBy_realtime(method) == realtime

\* The clock a method reads to compute its deadline.
ReadBy(method) == IF method = "try_lock_for" THEN realtime ELSE monotonic

ComparedBy_default(method) == realtime

\* The clock the operating system compares the deadline with: Condvar::new
\* sets the monotonic clock, and pthread_mutex_timedlock knows only realtime.
ComparedBy(method) == IF method \in WaitOps THEN monotonic ELSE realtime

Due == AtMost(until, ComparedBy(op))

Past == gap < 0

-----------------------------------------------------------------------------
\* The method is called: with a duration, or with an Instant that may be past.
\* A wait is called with a guard in hand.
Call ==
    /\ pc = "idle"
    /\ op' \in Ops
    /\ IF op' \in ForOps
       THEN /\ target' \in now..MaxTarget
            /\ gap' = target' - now
            /\ pc' = "read"
       ELSE /\ target' \in 0..MaxTarget
            /\ pc' = "instant"
            /\ UNCHANGED gap
    /\ IF op' \in WaitOps
       THEN mutex = "free" /\ mutex' = "ours"
       ELSE UNCHANGED mutex
    /\ UNCHANGED <<clocks, ready, until, result>>

\* From<Instant> reads Instant::now(), the monotonic clock, ...
ReadInstant ==
    /\ pc = "instant"
    /\ gap' = target - now
    /\ pc' = "read"
    /\ UNCHANGED <<clocks, mutex, ready, args, until, result>>

\* ... and then UnixClock::monitonic(), to which it adds the difference, or
\* from which it subtracts it; try_lock_for and wait_for only add.
ReadClock ==
    /\ pc = "read"
    /\ until' = IF Past THEN sub(ReadBy(op), -gap) ELSE add(ReadBy(op), gap)
    /\ pc' = IF op \in LockOps THEN "lock" ELSE "ready"
    /\ UNCHANGED <<clocks, mutex, ready, args, gap, result>>

Finish(r) ==
    /\ pc' = "done"
    /\ result' = r
    /\ UNCHANGED <<clocks, args, gap, until>>

-----------------------------------------------------------------------------
(***************************************************************************)
(* try_lock_until_internal: pthread_mutex_timedlock takes a free mutex     *)
(* whatever the deadline is, and looks at the deadline when it must wait.  *)
(***************************************************************************)
TakeMutex ==
    /\ pc = "lock" /\ mutex = "free"
    /\ mutex' = "ours"
    /\ Finish("ok")
    /\ UNCHANGED ready

LockTimedOut ==
    /\ pc = "lock" /\ mutex = "other"
    /\ Valid(until) /\ Due
    /\ Finish("timed_out")
    /\ UNCHANGED <<mutex, ready>>

LockPanics ==
    /\ pc = "lock" /\ mutex = "other"
    /\ ~Valid(until)
    /\ Finish("panic")
    /\ UNCHANGED <<mutex, ready>>

(***************************************************************************)
(* wait_until_internal: the predicate, then pthread_cond_timedwait, which  *)
(* looks at the deadline first.  A panic drops the guard.                  *)
(***************************************************************************)
Ready ==
    /\ pc \in {"ready", "expired"} /\ ready
    /\ Finish("ok")
    /\ UNCHANGED <<mutex, ready>>

Sleep ==
    /\ pc = "ready" /\ ~ready /\ Valid(until)
    /\ mutex' = "free"
    /\ pc' = "asleep"
    /\ UNCHANGED <<clocks, ready, args, gap, until, result>>

WaitPanics ==
    /\ pc = "ready" /\ ~ready /\ ~Valid(until)
    /\ mutex' = "free"
    /\ Finish("panic")
    /\ UNCHANGED ready

Wake ==
    /\ pc = "asleep"
    /\ pc' = "relock"
    /\ UNCHANGED <<clocks, mutex, ready, args, gap, until, result>>

Expire ==
    /\ pc = "asleep" /\ Due
    /\ pc' = "relock_expired"
    /\ UNCHANGED <<clocks, mutex, ready, args, gap, until, result>>

Relock ==
    /\ pc \in {"relock", "relock_expired"} /\ mutex = "free"
    /\ mutex' = "ours"
    /\ pc' = IF pc = "relock" THEN "ready" ELSE "expired"
    /\ UNCHANGED <<clocks, ready, args, gap, until, result>>

WaitTimedOut ==
    /\ pc = "expired" /\ ~ready
    /\ Finish("timed_out")
    /\ UNCHANGED <<mutex, ready>>

-----------------------------------------------------------------------------
(***************************************************************************)
(* The rest of the system.                                                 *)
(***************************************************************************)
OtherLocks ==
    /\ mutex = "free"
    /\ mutex' = "other"
    /\ UNCHANGED <<clocks, ready, pc, args, gap, until, result>>

OtherUnlocks ==
    /\ mutex = "other"
    /\ mutex' = "free"
    /\ ready' \in BOOLEAN
    /\ UNCHANGED <<clocks, pc, args, gap, until, result>>

\* Bound: a thread between its two readings of the clock is not kept from
\* running so long that its deadline comes after MaxDeadline.
Tick ==
    /\ now < MaxTime
    /\ pc = "read" => now + gap < MaxDeadline
    /\ now' = now + 1
    /\ UNCHANGED <<offset, stepped, mutex, ready, pc, args, gap, until, result>>

\* Bound: the realtime clock is set once.
SetClock ==
    /\ ~stepped
    /\ stepped' = TRUE
    /\ offset' \in Offsets
    /\ UNCHANGED <<now, mutex, ready, pc, args, gap, until, result>>

Step ==
    \/ ReadInstant \/ ReadClock
    \/ TakeMutex \/ LockTimedOut \/ LockPanics
    \/ Ready \/ Sleep \/ WaitPanics \/ Expire \/ Relock \/ WaitTimedOut

Next ==
    \/ Call \/ Step \/ Wake
    \/ OtherLocks \/ OtherUnlocks \/ Tick \/ SetClock

Spec == Init /\ [][Next]_vars

\* The thread runs, time passes and a mutex is given up again.  One that is
\* free again and again is not denied to the thread for ever, and signals do
\* not for ever forestall a deadline that has passed.
Fairness ==
    /\ WF_vars(Step) /\ WF_vars(Tick) /\ WF_vars(OtherUnlocks)
    /\ SF_vars(Relock) /\ SF_vars(Expire)

FairSpec == Spec /\ Fairness

-----------------------------------------------------------------------------
(***************************************************************************)
(* Properties.                                                             *)
(***************************************************************************)

\* wait_for and wait_until never report a timeout before the time they were
\* given, and neither does try_lock_for unless the realtime clock was set
\* during the call; whatever second boundaries lie in between, and however
\* long the thread was suspended between its readings of the clock.
NeverEarly ==
    result = "timed_out" =>
        \/ target <= now
        \/ op = "try_lock_until"
        \/ op = "try_lock_for" /\ stepped

\* A deadline that is still to come when it is converted never makes the
\* operating system refuse it: only a call that is late already can panic.
PanicNeedsPast == result = "panic" => Past /\ target < now

\* Every call ends, with the mutex, with a timeout or with a panic, even when
\* somebody sets the clock back: the deadline is never lost to a carry.
CallEnds == (pc = "read") ~> (pc = "done")

\* "Tries to obtain a lock within a given timeout": no attempt is given up
\* before its time while the realtime clock is left alone.
DeadlineKept ==
    result = "timed_out" /\ ~stepped => target <= now
=============================================================================
