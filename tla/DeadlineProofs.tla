--------------------------- MODULE DeadlineProofs ---------------------------
(***************************************************************************)
(* Theorems about the deadlines of mutex.rs and condvar.rs, for any        *)
(* duration, any Instant, any two clocks and any resolution of them.       *)
(***************************************************************************)
EXTENDS Deadline, TLAPS

-----------------------------------------------------------------------------
(***************************************************************************)
(* The arithmetic of UnixClock.                                            *)
(***************************************************************************)
Timespec == [sec : Int, nsec : Int]

LEMMA Distribute ==
    ASSUME NEW a \in Int, NEW b \in Int, NEW n \in Int
    PROVE  (a + b) * n = a * n + b * n
OBVIOUS

LEMMA MoreSeconds ==
    ASSUME NEW a \in Int, NEW b \in Int, NEW n \in Nat, a < b
    PROVE  a * n + n <= b * n
<1>1. PICK d \in Nat : b = a + 1 + d
  <2>1. b - a - 1 \in Nat /\ b = a + 1 + (b - a - 1)
    OBVIOUS
  <2> QED BY <2>1
<1>2. b * n = a * n + n + d * n
  BY <1>1, Distribute
<1>3. d * n \in Nat
  OBVIOUS
<1> QED BY <1>2, <1>3

\* Whole seconds and the rest of a duration.
LEMMA Division ==
    ASSUME NEW d \in Nat
    PROVE  /\ d \div NANOS \in Nat
           /\ d - (d \div NANOS) * NANOS \in Nat
           /\ d - (d \div NANOS) * NANOS < NANOS
BY NanosAssumption

\* A clock that is read is valid and denotes the time it shows.
LEMMA ClockExact ==
    ASSUME NEW time \in Nat
    PROVE  /\ with_clock_id(time) \in Timespec
           /\ Valid(with_clock_id(time))
           /\ Value(with_clock_id(time)) = time
BY Division, NanosAssumption DEF with_clock_id, Valid, Value, Timespec

\* UnixClock::add is exact and leaves valid timespecs valid.
LEMMA AddExact ==
    ASSUME NEW clock \in Timespec, Valid(clock), NEW duration \in Nat
    PROVE  /\ add(clock, duration) \in Timespec
           /\ Valid(add(clock, duration))
           /\ Value(add(clock, duration)) = Value(clock) + duration
<1> DEFINE q == duration \div NANOS
           r == duration - q * NANOS
<1>1. q \in Nat /\ r \in Nat /\ r < NANOS
  BY Division, NanosAssumption
<1>2. /\ (clock.sec + q) * NANOS = clock.sec * NANOS + q * NANOS
      /\ (clock.sec + q + 1) * NANOS = clock.sec * NANOS + q * NANOS + NANOS
  <2>1. clock.sec \in Int /\ q \in Int /\ NANOS \in Int
    BY <1>1, NanosAssumption DEF Timespec
  <2> HIDE DEF q
  <2>2. (clock.sec + q) * NANOS = clock.sec * NANOS + q * NANOS
    BY <2>1, Distribute
  <2>3. ((clock.sec + q) + 1) * NANOS = (clock.sec + q) * NANOS + 1 * NANOS
    BY <2>1, Distribute
  <2> QED BY <2>1, <2>2, <2>3
<1>3. clock.sec \in Int /\ clock.nsec \in Int /\ NANOS \in Nat
      /\ q * NANOS \in Int /\ clock.sec * NANOS \in Int
  BY <1>1, NanosAssumption DEF Timespec
<1>4. add(clock, duration) =
        IF clock.nsec + r >= NANOS
        THEN [sec |-> clock.sec + q + 1, nsec |-> clock.nsec + r - NANOS]
        ELSE [sec |-> clock.sec + q, nsec |-> clock.nsec + r]
  BY DEF add
<1>5. r = duration - q * NANOS
  OBVIOUS
<1> HIDE DEF q, r
<1>6. CASE clock.nsec + r >= NANOS
  BY <1>1, <1>2, <1>3, <1>4, <1>5, <1>6 DEF Valid, Value, Timespec
<1>7. CASE ~(clock.nsec + r >= NANOS)
  BY <1>1, <1>2, <1>3, <1>4, <1>5, <1>7 DEF Valid, Value, Timespec
<1> QED BY <1>1, <1>3, <1>6, <1>7

\* UnixClock::sub may leave its nanoseconds negative, but not below -NANOS.
LEMMA SubRange ==
    ASSUME NEW clock \in Timespec, Valid(clock), NEW duration \in Nat
    PROVE  /\ sub(clock, duration) \in Timespec
           /\ -NANOS <= sub(clock, duration).nsec
           /\ sub(clock, duration).nsec < NANOS
<1> DEFINE q == duration \div NANOS
           r == duration - q * NANOS
<1>1. q \in Nat /\ r \in Nat /\ r < NANOS
  BY Division, NanosAssumption
<1>2. sub(clock, duration) =
        IF r >= clock.nsec
        THEN [sec |-> clock.sec - 1 - q, nsec |-> clock.nsec - (NANOS - r)]
        ELSE [sec |-> clock.sec - q, nsec |-> clock.nsec - r]
  BY DEF sub
<1> HIDE DEF q, r
<1> QED BY <1>1, <1>2, NanosAssumption DEF Valid, Timespec

\* The order of timespecs is the order of the times they denote.
LEMMA OrderExact ==
    ASSUME NEW a \in Timespec, NEW b \in Timespec, Valid(a), Valid(b),
           AtMost(a, b)
    PROVE  Value(a) <= Value(b)
<1>1. CASE a.sec < b.sec
  <2>1. a.sec * NANOS + NANOS <= b.sec * NANOS
    BY <1>1, MoreSeconds, NanosAssumption DEF Timespec
  <2>2. a.sec * NANOS \in Int /\ b.sec * NANOS \in Int
    BY NanosAssumption DEF Timespec
  <2> QED BY <2>1, <2>2, NanosAssumption DEF Valid, Value, Timespec
<1>2. CASE a.sec = b.sec /\ a.nsec <= b.nsec
  <2>1. a.sec * NANOS \in Int /\ b.sec * NANOS = a.sec * NANOS
    BY <1>2, NanosAssumption DEF Timespec
  <2> QED BY <1>2, <2>1 DEF Value, Timespec
<1> QED BY <1>1, <1>2 DEF AtMost

-----------------------------------------------------------------------------
(***************************************************************************)
(* The inductive invariant.  Between its two readings of the clock a call  *)
(* can only fall behind: what it will compute is not before its target.    *)
(***************************************************************************)
Converted == pc \in {"lock", "ready", "asleep", "relock", "relock_expired",
                     "expired"}

DeadlineInv ==
    /\ pc = "lock" => op \in LockOps
    /\ Converted /\ pc # "lock" => op \in WaitOps
    /\ pc = "read" => op \in LockOps \cup WaitOps /\ target <= now + gap
    /\ pc \in {"idle", "instant"} => ~Past
    /\ pc = "instant" => op \in {"try_lock_until", "wait_until"}
    /\ pc # "done" => result = "none"
    /\ Past => target < now /\ op # "try_lock_for"
    /\ Converted /\ ~Past =>
          /\ Valid(until)
          /\ op \in WaitOps => target <= Value(until)
          /\ op = "try_lock_for" /\ ~stepped => target + offset <= Value(until)
    /\ pc \in {"relock_expired", "expired"} => target <= now
    /\ NeverEarly /\ PanicNeedsPast

LEMMA Clocks ==
    ASSUME TypeOK
    PROVE  /\ monotonic \in Timespec /\ Valid(monotonic)
           /\ Value(monotonic) = now
           /\ realtime \in Timespec /\ Valid(realtime)
           /\ Value(realtime) = now + offset
           /\ offset \in Nat
<1>1. now \in Nat /\ offset \in Nat /\ now + offset \in Nat
  BY DeadlineAssumption DEF TypeOK
<1> QED BY <1>1, ClockExact DEF monotonic, realtime

LEMMA TypeStep == TypeOK /\ DeadlineInv /\ [Next]_vars => TypeOK'
<1> SUFFICES ASSUME TypeOK, DeadlineInv, [Next]_vars PROVE TypeOK'
  OBVIOUS
<1>1. CASE ReadClock
  <2>1. ReadBy(op) \in Timespec /\ Valid(ReadBy(op))
    BY Clocks DEF ReadBy
  <2>2. until' \in Timespec /\ -NANOS <= until'.nsec /\ until'.nsec < NANOS
    <3>1. CASE Past
      BY <1>1, <2>1, <3>1, SubRange DEF ReadClock, Past, TypeOK
    <3>2. CASE ~Past
      <4>1. gap \in Nat
        BY <3>2 DEF Past, TypeOK
      <4>2. until' = add(ReadBy(op), gap)
        BY <1>1, <3>2 DEF ReadClock
      <4> QED BY <2>1, <4>1, <4>2, AddExact, NanosAssumption
              DEF Valid, Timespec
    <3> QED BY <3>1, <3>2
  <2> QED BY <1>1, <2>2 DEF ReadClock, TypeOK, PC, Timespec, clocks, args
<1>2. CASE Call
  <2>1. op' \in LockOps \cup WaitOps /\ target' \in Nat /\ gap' \in Int
    BY <1>2, DeadlineAssumption DEF Call, TypeOK
  <2> QED BY <1>2, <2>1 DEF Call, TypeOK, PC, clocks
<1>3. CASE ReadInstant \/ Wake \/ Expire \/ Relock \/ Sleep
  BY <1>3 DEF ReadInstant, Wake, Expire, Relock, Sleep, TypeOK, PC, clocks, args
<1>4. CASE TakeMutex \/ LockTimedOut \/ LockPanics
  BY <1>4 DEF TakeMutex, LockTimedOut, LockPanics, Finish, TypeOK, PC, clocks,
     args
<1>5. CASE Ready \/ WaitPanics \/ WaitTimedOut
  BY <1>5 DEF Ready, WaitPanics, WaitTimedOut, Finish, TypeOK, PC, clocks, args
<1>6. CASE OtherLocks \/ OtherUnlocks \/ Tick \/ SetClock
  <2>1. CASE OtherLocks \/ OtherUnlocks
    BY <2>1 DEF OtherLocks, OtherUnlocks, TypeOK, clocks, args
  <2>2. CASE Tick
    BY <2>2 DEF Tick, TypeOK, args
  <2>3. CASE SetClock
    BY <2>3 DEF SetClock, TypeOK, args
  <2> QED BY <1>6, <2>1, <2>2, <2>3
<1>7. CASE UNCHANGED vars
  BY <1>7 DEF vars, clocks, args, TypeOK
<1> QED BY <1>1, <1>2, <1>3, <1>4, <1>5, <1>6, <1>7 DEF Next, Step

LEMMA DeadlineStep == TypeOK /\ DeadlineInv /\ [Next]_vars => DeadlineInv'
<1> SUFFICES ASSUME TypeOK, DeadlineInv, [Next]_vars PROVE DeadlineInv'
  OBVIOUS
<1>a. /\ now \in Nat /\ target \in Nat /\ gap \in Int /\ offset \in Nat
      /\ until \in Timespec
  BY Clocks DEF TypeOK, Timespec
<1> USE DEF DeadlineInv, Converted, Past, NeverEarly, PanicNeedsPast, LockOps,
            WaitOps, clocks, args
<1>1. CASE Call
  <2>1. /\ UNCHANGED <<now, offset, stepped, result, until>>
        /\ result = "none" /\ pc' \in {"read", "instant"}
        /\ op' \in LockOps \cup WaitOps
    BY <1>1, DeadlineAssumption DEF Call
  <2>2. CASE op' \in ForOps
    BY <1>1, <1>a, <2>1, <2>2 DEF Call
  <2>3. CASE op' \notin ForOps
    BY <1>1, <1>a, <2>1, <2>3 DEF Call, ForOps
  <2> QED BY <2>2, <2>3
<1>2. CASE ReadInstant
  BY <1>2, <1>a DEF ReadInstant
<1>3. CASE ReadClock
  <2>1. CASE Past
    BY <1>3, <1>a, <2>1 DEF ReadClock
  <2>2. CASE ~Past
    <3>1. gap \in Nat /\ until' = add(ReadBy(op), gap)
      BY <1>3, <1>a, <2>2 DEF ReadClock
    <3>2. ReadBy(op) \in Timespec /\ Valid(ReadBy(op))
      BY Clocks DEF ReadBy
    <3>3. Valid(until') /\ Value(until') = Value(ReadBy(op)) + gap
      BY <3>1, <3>2, AddExact
    <3>4. op \in WaitOps => target <= Value(until')
      BY <1>3, <1>a, <3>3, Clocks DEF ReadClock, ReadBy
    <3>5. op = "try_lock_for" => target + offset <= Value(until')
      BY <1>3, <1>a, <3>3, Clocks DEF ReadClock, ReadBy
    <3>6. /\ pc = "read" /\ pc' \in {"lock", "ready"}
          /\ pc' = "lock" <=> op \in LockOps
          /\ UNCHANGED <<now, offset, stepped, op, target, gap, result>>
      BY <1>3 DEF ReadClock
    <3>7. Valid(until)' /\ Value(until)' = Value(until')
      BY <3>3 DEF Valid, Value
    <3> HIDE DEF Converted
    <3> QED BY <1>a, <2>2, <3>3, <3>4, <3>5, <3>6, <3>7 DEF Converted
  <2> QED BY <2>1, <2>2
<1>4. CASE TakeMutex \/ LockPanics
  BY <1>4, <1>a DEF TakeMutex, LockPanics, Finish
<1>5. CASE LockTimedOut
  <2>1. op = "try_lock_for" /\ ~stepped => target <= now
    <3>1. ASSUME op = "try_lock_for" PROVE Value(until) <= now + offset
      BY <1>5, <1>a, <3>1, Clocks, OrderExact DEF LockTimedOut, Due, ComparedBy
    <3>2. ASSUME op = "try_lock_for", ~stepped
          PROVE  target + offset <= Value(until)
      BY <1>5, <3>2 DEF LockTimedOut
    <3>3. Value(until) \in Int
      BY <1>a, NanosAssumption DEF Value, Timespec
    <3> QED BY <1>a, <3>1, <3>2, <3>3
  <2> QED BY <1>5, <2>1 DEF LockTimedOut, Finish
<1>6. CASE Ready \/ Sleep \/ WaitPanics \/ Wake \/ Relock \/ WaitTimedOut
  <2>1. CASE Ready \/ WaitPanics \/ WaitTimedOut
    BY <2>1, <1>a DEF Ready, WaitPanics, WaitTimedOut, Finish
  <2>2. CASE Sleep \/ Wake
    BY <2>2, <1>a DEF Sleep, Wake
  <2>3. CASE Relock
    BY <2>3, <1>a DEF Relock
  <2> QED BY <1>6, <2>1, <2>2, <2>3
<1>7. CASE Expire
  <2>1. target <= now
    <3>1. CASE Past
      BY <1>a, <3>1
    <3>2. CASE ~Past
      <4>1. /\ op \in WaitOps /\ Valid(until) /\ target <= Value(until)
            /\ AtMost(until, monotonic)
        BY <1>7, <3>2 DEF Expire, Due, ComparedBy
      <4>2. Value(until) <= now
        BY <1>a, <4>1, Clocks, OrderExact
      <4>3. Value(until) \in Int
        BY <1>a, NanosAssumption DEF Value, Timespec
      <4> QED BY <1>a, <4>1, <4>2, <4>3
    <3> QED BY <3>1, <3>2
  <2> QED BY <1>7, <1>a, <2>1 DEF Expire
<1>8. CASE OtherLocks \/ OtherUnlocks
  BY <1>8 DEF OtherLocks, OtherUnlocks
<1>9. CASE Tick \/ SetClock
  <2>1. CASE Tick
    BY <2>1, <1>a DEF Tick
  <2>2. CASE SetClock
    BY <2>2, <1>a DEF SetClock
  <2> QED BY <1>9, <2>1, <2>2
<1>10. CASE UNCHANGED vars
  BY <1>10 DEF vars
<1> QED BY <1>1, <1>2, <1>3, <1>4, <1>5, <1>6, <1>7, <1>8, <1>9, <1>10
        DEF Next, Step

LEMMA DeadlineHolds == Spec => [](TypeOK /\ DeadlineInv)
<1>1. Init => TypeOK /\ DeadlineInv
  <2>1. Init => TypeOK
    <3> SUFFICES ASSUME Init PROVE TypeOK
      OBVIOUS
    <3>1. until.nsec = 0 /\ until \in Timespec
      BY DEF Init, Timespec
    <3>2. -NANOS <= until.nsec /\ until.nsec < NANOS
      BY <3>1, NanosAssumption
    <3> QED BY <3>1, <3>2 DEF Init, TypeOK, PC, Timespec
  <2>2. Init => DeadlineInv
    BY DEF Init, DeadlineInv, Converted, Past, NeverEarly, PanicNeedsPast
  <2> QED BY <2>1, <2>2
<1> QED BY <1>1, TypeStep, DeadlineStep, PTL DEF Spec

\* The nanoseconds of every timespec that From<Instant>, add and sub compute, and
\* that the timed methods hand to the kernel, stay between minus one second and
\* one second, for every length of a second and every clock.
THEOREM DeadlineTypeCorrect == Spec => []TypeOK
BY DeadlineHolds, PTL

\* The waits of condvar.rs, and try_lock_for of mutex.rs while the realtime
\* clock is left alone, never give up before their time, for every duration
\* and every Instant: UnixClock::add carries right, and a thread suspended
\* inside From<Instant> only gets a later deadline.
THEOREM NeverEarlyHolds == Spec => []NeverEarly
BY DeadlineHolds, PTL DEF DeadlineInv

\* pthread_mutex_timedlock and pthread_cond_timedwait refuse a deadline, and
\* the method panics, only when the time was over before it was converted.
THEOREM PanicNeedsPastHolds == Spec => []PanicNeedsPast
BY DeadlineHolds, PTL DEF DeadlineInv
=============================================================================
