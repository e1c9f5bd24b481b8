------------------------------ MODULE UnixClock ------------------------------
(***************************************************************************)
(* UnixClock of time.rs: a timespec, that is seconds and nanoseconds, and  *)
(* its arithmetic, operation by operation.  Durations are numbers of       *)
(* nanoseconds.                                                            *)
(***************************************************************************)
EXTENDS Integers

CONSTANT NANOS  \* nanoseconds in a second

ASSUME NanosAssumption == NANOS \in Nat \ {0}

\* What the operating system accepts as a deadline.
Valid(clock) == 0 <= clock.nsec /\ clock.nsec < NANOS

\* The time that a timespec denotes, in nanoseconds.
Value(clock) == clock.sec * NANOS + clock.nsec

\* UnixClock::with_clock_id, when the clock shows `time' nanoseconds.
with_clock_id(time) ==
    [sec |-> time \div NANOS, nsec |-> time - (time \div NANOS) * NANOS]

add_late_carry(clock, duration) ==
    LET add_secs  == duration \div NANOS
        add_nanos == duration - add_secs * NANOS
    IN  IF clock.nsec + add_nanos > NANOS
        THEN [sec  |-> clock.sec + add_secs + 1,
              nsec |-> clock.nsec + add_nanos - NANOS]
        ELSE [sec  |-> clock.sec + add_secs,
              nsec |-> clock.nsec + add_nanos]

add(clock, duration) ==
    LET add_secs  == duration \div NANOS
        add_nanos == duration - add_secs * NANOS
    IN  IF clock.nsec + add_nanos >= NANOS
        THEN [sec  |-> clock.sec + add_secs + 1,
              nsec |-> clock.nsec + add_nanos - NANOS]
        ELSE [sec  |-> clock.sec + add_secs,
              nsec |-> clock.nsec + add_nanos]

\* As the code has it: when it borrows a second it subtracts the complement
\* of the nanoseconds, where adding it would be right.
sub(clock, duration) ==
    LET sub_secs  == duration \div NANOS
        sub_nanos == duration - sub_secs * NANOS
    IN  IF sub_nanos >= clock.nsec
        THEN [sec  |-> clock.sec - 1 - sub_secs,
              nsec |-> clock.nsec - (NANOS - sub_nanos)]
        ELSE [sec  |-> clock.sec - sub_secs,
              nsec |-> clock.nsec - sub_nanos]

\* Ord for UnixClock, which is also how the operating system compares.
AtMost(clock, other) ==
    \/ clock.sec < other.sec
    \/ clock.sec = other.sec /\ clock.nsec <= other.nsec
=============================================================================
