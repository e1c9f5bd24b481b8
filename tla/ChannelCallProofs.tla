-------------------------- MODULE ChannelCallProofs --------------------------
(***************************************************************************)
(* More theorems about the channel of channel.rs: what its two counters    *)
(* count, who can make Channel::drop leak the queue, and when a method     *)
(* that comes back empty-handed tells the truth.  For any number of        *)
(* threads and processes, any values, any capacity and any methods.        *)
(***************************************************************************)
EXTENDS ChannelProofs

USE DEF PC, InCall, Blocked, Critical, Waking, Closing, Killed, KilledInWait

-----------------------------------------------------------------------------
(***************************************************************************)
(* CountersMatchHandles                                                    *)
(***************************************************************************)

\* A Sender or a Receiver that is being dropped is only a Channel any more.
KindInv ==
    \A t \in Thread : pc[t] \in Waking \cup {"drop_channel"}
                         => handle[t] = "channel"

LEMMA KindStep == TypeOK /\ KindInv /\ Next => KindInv'
<1> SUFFICES ASSUME TypeOK, KindInv, Next
             PROVE  KindInv'
  OBVIOUS
<1> USE DEF TypeOK, KindInv, Goto, Return, Finish, Panic, Unwind
<1>1. ASSUME NEW t \in Thread, Begin(t) PROVE KindInv'
  BY <1>1 DEF Begin, clone, make_sender, make_receiver, CallReceive, CallSend,
     DropChannel, DropSender, DropReceiver
<1>2. ASSUME NEW t \in Thread, MethodStep(t) PROVE KindInv'
  <2>1. CASE CheckDropping(t) \/ LockTimeout(t) \/ LockPanics(t) \/ Unlock(t)
    BY <2>1 DEF CheckDropping, LockTimeout, LockPanics, Unlock
  <2>2. CASE AcquireLock(t) \/ Relock(t) \/ CondWait(t)
    BY <2>2 DEF AcquireLock, AfterLock, Relock, CondWait
  <2>3. CASE EvalReady(t) \/ EvalExpired(t) \/ EvalPast(t)
    BY <2>3 DEF EvalReady, EvalExpired, EvalPast, AfterWait
  <2>4. CASE CheckRoom(t) \/ CheckPeers(t)
    BY <2>4 DEF CheckRoom, CheckPeers
  <2>5. CASE pop(t)
    <3>1. CASE PopOne(t)
      BY <3>1 DEF PopOne, Notified
    <3>2. CASE PopNone(t)
      BY <3>2 DEF PopNone
    <3> QED BY <2>5, <3>1, <3>2, Transfers
  <2>6. CASE push(t)
    <3>1. CASE PushOne(t)
      BY <3>1 DEF PushOne, Notified
    <3>2. CASE PushFails(t)
      BY <3>2 DEF PushFails
    <3> QED BY <2>6, <3>1, <3>2, Transfers
  <2> QED BY <1>2, <2>1, <2>2, <2>3, <2>4, <2>5, <2>6 DEF MethodStep
<1>3. ASSUME NEW t \in Thread, DropStep(t) PROVE KindInv'
  <2>1. CASE WakePeers(t)
    BY <2>1, Broadcasts DEF WakePeers, Notified
  <2>2. CASE NotifyReceivers(t) \/ NotifySenders(t)
    BY <2>2, Broadcasts DEF NotifyReceivers, NotifySenders, Notified
  <2>3. CASE Release(t)
    BY <2>3 DEF Release
  <2>4. CASE StoreDropping(t) \/ SwapReceivers(t) \/ SwapSenders(t)
             \/ Drain(t) \/ Free(t) \/ DestroyCondvars(t)
    BY <2>4 DEF StoreDropping, SwapReceivers, SwapSenders, Drain, Free,
                DestroyCondvars
  <2> QED BY <1>3, <2>1, <2>2, <2>3, <2>4 DEF DropStep
<1>4. ASSUME NEW t \in Thread, SpuriousWake(t) \/ Expire(t) \/ UseAfterFree(t)
      PROVE  KindInv'
  BY <1>4 DEF SpuriousWake, Expire, UseAfterFree
<1>5. ASSUME NEW P \in Processes, Crash(P) PROVE KindInv'
  BY <1>5, CrashEffect DEF Stopped
<1> QED BY <1>1, <1>2, <1>3, <1>4, <1>5 DEF Next

\* The counters are swapped, and Inner is freed, under `dropping'.
DroppingInv ==
    /\ \A t \in Thread : pc[t] \in Closing \ {"store_dropping"} => dropping
    /\ inner # "live" => dropping

LEMMA DroppingStep == TypeOK /\ DroppingInv /\ Next => DroppingInv'
<1> SUFFICES ASSUME TypeOK, DroppingInv, Next
             PROVE  DroppingInv'
  OBVIOUS
<1> USE DEF TypeOK, DroppingInv, Goto, Return, Finish, Panic, Unwind, memory,
            counters
<1>1. ASSUME NEW t \in Thread, Begin(t) PROVE DroppingInv'
  BY <1>1 DEF Begin, clone, make_sender, make_receiver, CallReceive, CallSend,
     DropChannel, DropSender, DropReceiver
<1>2. ASSUME NEW t \in Thread, MethodStep(t) PROVE DroppingInv'
  <2>1. CASE CheckDropping(t) \/ LockTimeout(t) \/ LockPanics(t) \/ Unlock(t)
    <3>1. /\ \/ pc' = [pc EXCEPT ![t] = "idle"]
             \/ pc' = [pc EXCEPT ![t] = "lock"]
             \/ pc' = [pc EXCEPT ![t] = "check"]
             \/ pc' = [pc EXCEPT ![t] = "unwinding"]
          /\ UNCHANGED <<inner, dropping>>
      BY <2>1 DEF CheckDropping, LockTimeout, LockPanics, Unlock
    <3> QED BY <3>1
  <2>2. CASE AcquireLock(t) \/ Relock(t) \/ CondWait(t)
    BY <2>2 DEF AcquireLock, AfterLock, Relock, CondWait
  <2>3. CASE EvalReady(t) \/ EvalExpired(t) \/ EvalPast(t)
    BY <2>3 DEF EvalReady, EvalExpired, EvalPast, AfterWait
  <2>4. CASE CheckRoom(t) \/ CheckPeers(t)
    BY <2>4 DEF CheckRoom, CheckPeers
  <2>5. CASE pop(t)
    <3>1. CASE PopOne(t)
      BY <3>1 DEF PopOne, Notified
    <3>2. CASE PopNone(t)
      BY <3>2 DEF PopNone
    <3> QED BY <2>5, <3>1, <3>2, Transfers
  <2>6. CASE push(t)
    <3>1. CASE PushOne(t)
      BY <3>1 DEF PushOne, Notified
    <3>2. CASE PushFails(t)
      BY <3>2 DEF PushFails
    <3> QED BY <2>6, <3>1, <3>2, Transfers
  <2> QED BY <1>2, <2>1, <2>2, <2>3, <2>4, <2>5, <2>6 DEF MethodStep
<1>3. ASSUME NEW t \in Thread, DropStep(t) PROVE DroppingInv'
  <2>1. CASE WakePeers(t)
    BY <2>1, Broadcasts DEF WakePeers, Notified
  <2>2. CASE NotifyReceivers(t) \/ NotifySenders(t)
    BY <2>2, Broadcasts DEF NotifyReceivers, NotifySenders, Notified
  <2>3. CASE Release(t)
    BY <2>3 DEF Release
  <2>4. CASE StoreDropping(t) \/ SwapReceivers(t) \/ SwapSenders(t)
             \/ Drain(t) \/ Free(t) \/ DestroyCondvars(t)
    BY <2>4 DEF StoreDropping, SwapReceivers, SwapSenders, Drain, Free,
                DestroyCondvars
  <2> QED BY <1>3, <2>1, <2>2, <2>3, <2>4 DEF DropStep
<1>4. ASSUME NEW t \in Thread, SpuriousWake(t) \/ Expire(t) \/ UseAfterFree(t)
      PROVE  DroppingInv'
  <2>1. CASE SpuriousWake(t)
    BY <2>1 DEF SpuriousWake
  <2>2. CASE Expire(t)
    BY <2>2 DEF Expire
  <2>3. CASE UseAfterFree(t)
    BY <2>3 DEF UseAfterFree
  <2> QED BY <1>4, <2>1, <2>2, <2>3
<1>5. ASSUME NEW P \in Processes, Crash(P) PROVE DroppingInv'
  BY <1>5, CrashEffect DEF Stopped
<1> QED BY <1>1, <1>2, <1>3, <1>4, <1>5 DEF Next

DropInv == KindInv /\ DroppingInv

LEMMA DropHolds == Spec => []DropInv
<1>1. Init => DropInv
  BY DEF Init, DropInv, KindInv, DroppingInv
<1>2. TypeOK /\ DropInv /\ [Next]_vars => DropInv'
  <2>1. CASE UNCHANGED vars
    BY <2>1 DEF DropInv, KindInv, DroppingInv, vars, memory, counters
  <2> QED BY <2>1, KindStep, DroppingStep DEF DropInv
<1> QED BY <1>1, <1>2, TypeCorrect, PTL DEF Spec

\* As long as the channel is not being destroyed, only the making and the
\* dropping of handles changes the counters.
LEMMA CounterFrame ==
    DropInv /\ Next /\ ~dropping' =>
        /\ ~dropping
        /\ \/ UNCHANGED <<handle, senders, receivers>>
           \/ \E t \in Thread : HandleAction(t)
<1> SUFFICES ASSUME DropInv, Next, ~dropping',
                    ~\E t \in Thread : HandleAction(t)
             PROVE  ~dropping /\ UNCHANGED <<handle, senders, receivers>>
  BY DEF HandleAction, clone, make_sender, make_receiver, DropSender,
     DropReceiver, Release, counters
<1> DEFINE Goal == ~dropping /\ UNCHANGED <<handle, senders, receivers>>
<1> USE DEF HandleAction, counters, Panic, Unwind
<1>1. ASSUME NEW t \in Thread, Begin(t) PROVE Goal
  BY <1>1 DEF Begin, CallReceive, CallSend, DropChannel
<1>2. ASSUME NEW t \in Thread, MethodStep(t) PROVE Goal
  <2>1. CASE pop(t) \/ push(t)
    BY <2>1 DEF pop, push
  <2>2. CASE ~(pop(t) \/ push(t))
    BY <1>2, <2>2 DEF MethodStep, CheckDropping, AcquireLock, LockTimeout,
       LockPanics, EvalReady, EvalPast, CondWait, Relock, EvalExpired,
       CheckRoom, CheckPeers, Unlock
  <2> QED BY <2>1, <2>2
<1>3. ASSUME NEW t \in Thread, DropStep(t) PROVE Goal
  BY <1>3 DEF DropStep, WakePeers, StoreDropping, SwapReceivers, SwapSenders,
     NotifyReceivers, NotifySenders, Drain, Free, DestroyCondvars, DropInv, DroppingInv
<1>4. ASSUME NEW t \in Thread, SpuriousWake(t) \/ Expire(t) \/ UseAfterFree(t)
      PROVE  Goal
  BY <1>4 DEF SpuriousWake, Expire, UseAfterFree
<1>5. ASSUME NEW P \in Processes, Crash(P) PROVE Goal
  BY <1>5 DEF Crash
<1> QED BY <1>1, <1>2, <1>3, <1>4, <1>5 DEF Next

\* The threads that own an object of a kind.
Owning(kind) == {t \in Thread : handle[t] = kind}

LEMMA OwningFinite ==
    ASSUME NEW kind
    PROVE  IsFiniteSet(Owning(kind)) /\ Cardinality(Owning(kind)) \in Nat
<1>1. IsFiniteSet(Thread)
  BY ConstantsAssumption, FS_Union DEF Thread
<1> QED BY <1>1, FS_Subset, FS_CardinalityType DEF Owning

LEMMA CounterStep ==
    TypeOK /\ DropInv /\ CountersMatchHandles /\ Next => CountersMatchHandles'
<1> SUFFICES ASSUME TypeOK, DropInv, CountersMatchHandles, Next, ~dropping'
             PROVE  /\ senders' = Cardinality(Owning("sender")')
                    /\ receivers' = Cardinality(Owning("receiver")')
  BY DEF CountersMatchHandles, Owning
<1>1. /\ senders = Cardinality(Owning("sender"))
      /\ receivers = Cardinality(Owning("receiver"))
  BY CounterFrame DEF CountersMatchHandles, Owning
<1>a. /\ IsFiniteSet(Owning("sender")) /\ IsFiniteSet(Owning("receiver"))
      /\ senders \in Nat /\ receivers \in Nat
  BY OwningFinite DEF TypeOK
<1>2. CASE UNCHANGED <<handle, senders, receivers>>
  BY <1>1, <1>2 DEF Owning
<1>3. ASSUME NEW t \in Thread, HandleAction(t)
      PROVE  /\ senders' = Cardinality(Owning("sender")')
             /\ receivers' = Cardinality(Owning("receiver")')
  <2>1. CASE clone(t)
    <3>1. /\ UNCHANGED <<Owning("sender"), Owning("receiver")>>
          /\ UNCHANGED <<senders, receivers>>
      BY <2>1 DEF clone, TypeOK, Owning, counters
    <3> QED BY <1>1, <3>1
  <2>2. CASE make_sender(t)
    <3>1. /\ Owning("sender")' = Owning("sender") \cup {t}
          /\ t \notin Owning("sender") /\ UNCHANGED Owning("receiver")
          /\ senders' = senders + 1 /\ UNCHANGED receivers
      BY <2>2 DEF make_sender, TypeOK, Owning, counters
    <3> QED BY <1>1, <3>1, <1>a, FS_AddElement
  <2>3. CASE make_receiver(t)
    <3>1. /\ Owning("receiver")' = Owning("receiver") \cup {t}
          /\ t \notin Owning("receiver") /\ UNCHANGED Owning("sender")
          /\ receivers' = receivers + 1 /\ UNCHANGED senders
      BY <2>3 DEF make_receiver, TypeOK, Owning, counters
    <3> QED BY <1>1, <3>1, <1>a, FS_AddElement
  <2>4. CASE DropSender(t)
    <3>1. /\ Owning("sender")' = Owning("sender") \ {t}
          /\ t \in Owning("sender") /\ UNCHANGED Owning("receiver")
          /\ UNCHANGED receivers
      BY <2>4 DEF DropSender, TypeOK, Owning, counters
    <3>2. senders # 0
      BY <1>1, <3>1, <1>a, FS_EmptySet
    <3>3. senders' = senders - 1
      BY <2>4, <3>2 DEF DropSender, atomic_checked_sub
    <3> QED BY <1>1, <3>1, <3>3, <1>a, FS_RemoveElement
  <2>5. CASE DropReceiver(t)
    <3>1. /\ Owning("receiver")' = Owning("receiver") \ {t}
          /\ t \in Owning("receiver") /\ UNCHANGED Owning("sender")
          /\ UNCHANGED senders
      BY <2>5 DEF DropReceiver, TypeOK, Owning, counters
    <3>2. receivers # 0
      BY <1>1, <3>1, <1>a, FS_EmptySet
    <3>3. receivers' = receivers - 1
      BY <2>5, <3>2 DEF DropReceiver, atomic_checked_sub
    <3> QED BY <1>1, <3>1, <3>3, <1>a, FS_RemoveElement
  <2>6. CASE Release(t)
    <3>1. /\ UNCHANGED <<Owning("sender"), Owning("receiver")>>
          /\ UNCHANGED <<senders, receivers>>
      BY <2>6 DEF Release, DropInv, KindInv, TypeOK, Owning, counters
    <3> QED BY <1>1, <3>1
  <2> QED BY <1>3, <2>1, <2>2, <2>3, <2>4, <2>5, <2>6 DEF HandleAction
<1> QED BY <1>2, <1>3, CounterFrame

\* The atomic counters `senders' and `receivers' are the numbers of Sender and
\* Receiver objects of all processes until the channel is being destroyed:
\* atomic_checked_sub never meets a counter that is already zero.
THEOREM CountersHold == Spec => []CountersMatchHandles
<1>1. Init => CountersMatchHandles
  <2> SUFFICES ASSUME Init PROVE CountersMatchHandles
    OBVIOUS
  <2>1. /\ {t \in Thread : handle[t] = "sender"} = {}
        /\ {t \in Thread : handle[t] = "receiver"} = {}
    BY DEF Init
  <2> QED BY <2>1, FS_EmptySet DEF Init, CountersMatchHandles
<1>2. TypeOK /\ DropInv /\ CountersMatchHandles /\ [Next]_vars
          => CountersMatchHandles'
  <2>1. CASE UNCHANGED vars
    BY <2>1 DEF CountersMatchHandles, vars, counters
  <2> QED BY <2>1, CounterStep
<1> QED BY <1>1, <1>2, TypeCorrect, DropHolds, PTL DEF Spec

-----------------------------------------------------------------------------
(***************************************************************************)
(* NoOrphanedLock and LeakNeedsRemoteUser                                  *)
(***************************************************************************)
LEMMA HolderStep == TypeOK /\ NoOrphanedLock /\ Next => NoOrphanedLock'
<1> SUFFICES ASSUME TypeOK, NoOrphanedLock, Next
             PROVE  NoOrphanedLock'
  OBVIOUS
<1> USE ConstantsAssumption
    DEF TypeOK, NoOrphanedLock, Goto, Return, Finish, Panic, Unwind
<1>1. ASSUME NEW t \in Thread, Begin(t) PROVE NoOrphanedLock'
  BY <1>1 DEF Begin, clone, make_sender, make_receiver, CallReceive, CallSend,
     DropChannel, DropSender, DropReceiver
<1>2. ASSUME NEW t \in Thread, MethodStep(t) PROVE NoOrphanedLock'
  <2>1. CASE CheckDropping(t) \/ LockTimeout(t) \/ LockPanics(t)
    BY <2>1 DEF CheckDropping, LockTimeout, LockPanics
  <2>2. CASE AcquireLock(t) \/ Relock(t)
    BY <2>2 DEF AcquireLock, AfterLock, Relock
  <2>3. CASE EvalReady(t) \/ EvalExpired(t)
    BY <2>3 DEF EvalReady, EvalExpired, AfterWait
  <2>4. CASE EvalPast(t)
    BY <2>4 DEF EvalPast, AfterWait
  <2>5. CASE CheckRoom(t) \/ CheckPeers(t)
    BY <2>5 DEF CheckRoom, CheckPeers
  <2>6. CASE CondWait(t) \/ Unlock(t)
    BY <2>6 DEF CondWait, Unlock
  <2>7. CASE pop(t)
    <3>1. CASE PopOne(t)
      BY <3>1 DEF PopOne, Notified
    <3>2. CASE PopNone(t)
      BY <3>2 DEF PopNone
    <3> QED BY <2>7, <3>1, <3>2, Transfers
  <2>8. CASE push(t)
    <3>1. CASE PushOne(t)
      BY <3>1 DEF PushOne, Notified
    <3>2. CASE PushFails(t)
      BY <3>2 DEF PushFails
    <3> QED BY <2>8, <3>1, <3>2, Transfers
  <2> QED BY <1>2, <2>1, <2>2, <2>3, <2>4, <2>5, <2>6, <2>7, <2>8 DEF MethodStep
<1>3. ASSUME NEW t \in Thread, DropStep(t) PROVE NoOrphanedLock'
  <2>1. CASE WakePeers(t) \/ NotifyReceivers(t) \/ NotifySenders(t)
    BY <2>1, Broadcasts DEF WakePeers, NotifyReceivers, NotifySenders, Notified
  <2>2. CASE Release(t)
    BY <2>2 DEF Release
  <2>3. CASE StoreDropping(t) \/ SwapReceivers(t) \/ SwapSenders(t)
             \/ Drain(t) \/ Free(t) \/ DestroyCondvars(t)
    BY <2>3 DEF StoreDropping, SwapReceivers, SwapSenders, Drain, Free,
                DestroyCondvars
  <2> QED BY <1>3, <2>1, <2>2, <2>3 DEF DropStep
<1>4. ASSUME NEW t \in Thread, SpuriousWake(t) \/ Expire(t) \/ UseAfterFree(t)
      PROVE  NoOrphanedLock'
  BY <1>4 DEF SpuriousWake, Expire, UseAfterFree
<1>5. ASSUME NEW P \in Processes, Crash(P) PROVE NoOrphanedLock'
  BY <1>5, CrashEffect DEF Stopped
<1> QED BY <1>1, <1>2, <1>3, <1>4, <1>5 DEF Next

\* The threads of the creating process are killed together.
TogetherInv ==
    \A t, u \in Local : pc[t] \in Killed => pc[u] \in Killed

\* Nobody dies but by a kill, and the dead stay dead.
SameKilled == \A t \in Thread : pc'[t] \in Killed <=> pc[t] \in Killed

LEMMA KilledFrame ==
    TypeOK /\ Next => SameKilled \/ \E P \in Processes : Crash(P)
<1> SUFFICES ASSUME TypeOK, Next, ~\E P \in Processes : Crash(P)
             PROVE  SameKilled
  OBVIOUS
<1>a. pc \in [Thread -> PC]
  BY DEF TypeOK
<1> USE <1>a DEF SameKilled, Goto, Return, Finish, Panic, Unwind
<1>1. ASSUME NEW t \in Thread, Begin(t) PROVE SameKilled
  BY <1>1 DEF Begin, clone, make_sender, make_receiver, CallReceive, CallSend,
     DropChannel, DropSender, DropReceiver
<1>2. ASSUME NEW t \in Thread, MethodStep(t) PROVE SameKilled
  <2>1. CASE CheckDropping(t) \/ LockTimeout(t) \/ LockPanics(t)
    BY <2>1 DEF CheckDropping, LockTimeout, LockPanics
  <2>2. CASE AcquireLock(t) \/ Relock(t)
    BY <2>2 DEF AcquireLock, AfterLock, Relock
  <2>3. CASE EvalReady(t) \/ EvalExpired(t)
    BY <2>3 DEF EvalReady, EvalExpired, AfterWait
  <2>4. CASE EvalPast(t)
    BY <2>4 DEF EvalPast, AfterWait
  <2>5. CASE CheckRoom(t) \/ CheckPeers(t)
    BY <2>5 DEF CheckRoom, CheckPeers
  <2>6. CASE CondWait(t) \/ Unlock(t)
    BY <2>6 DEF CondWait, Unlock
  <2>7. CASE pop(t)
    <3>1. CASE PopOne(t)
      BY <3>1 DEF PopOne, Notified
    <3>2. CASE PopNone(t)
      BY <3>2 DEF PopNone
    <3> QED BY <2>7, <3>1, <3>2, Transfers
  <2>8. CASE push(t)
    <3>1. CASE PushOne(t)
      BY <3>1 DEF PushOne, Notified
    <3>2. CASE PushFails(t)
      BY <3>2 DEF PushFails
    <3> QED BY <2>8, <3>1, <3>2, Transfers
  <2> QED BY <1>2, <2>1, <2>2, <2>3, <2>4, <2>5, <2>6, <2>7, <2>8 DEF MethodStep
<1>3. ASSUME NEW t \in Thread, DropStep(t) PROVE SameKilled
  <2>1. CASE WakePeers(t) \/ NotifyReceivers(t) \/ NotifySenders(t)
    BY <2>1, Broadcasts DEF WakePeers, NotifyReceivers, NotifySenders, Notified
  <2>2. CASE Release(t)
    BY <2>2 DEF Release
  <2>3. CASE StoreDropping(t) \/ SwapReceivers(t) \/ SwapSenders(t)
             \/ Drain(t) \/ Free(t) \/ DestroyCondvars(t)
    BY <2>3 DEF StoreDropping, SwapReceivers, SwapSenders, Drain, Free,
                DestroyCondvars
  <2> QED BY <1>3, <2>1, <2>2, <2>3 DEF DropStep
<1>4. ASSUME NEW t \in Thread, SpuriousWake(t) \/ Expire(t) \/ UseAfterFree(t)
      PROVE  SameKilled
  BY <1>4 DEF SpuriousWake, Expire, UseAfterFree
<1> QED BY <1>1, <1>2, <1>3, <1>4 DEF Next

LEMMA TogetherStep == TypeOK /\ TogetherInv /\ Next => TogetherInv'
<1> SUFFICES ASSUME TypeOK, TogetherInv, Next
             PROVE  TogetherInv'
  OBVIOUS
<1>1. CASE SameKilled
  BY <1>1 DEF SameKilled, TogetherInv, Thread
<1>2. ASSUME NEW P \in Processes, Crash(P) PROVE TogetherInv'
  <2>1. \A t \in P \cap Thread : pc'[t] \in Killed
    BY <1>2 DEF Crash
  <2>2. \A t \in Thread \ P : pc'[t] = pc[t]
    BY <1>2 DEF Crash
  <2>3. P = Local \/ P \cap Local = {}
    BY ConstantsAssumption DEF Processes
  <2> QED BY <2>1, <2>2, <2>3 DEF TogetherInv, Thread
<1> QED BY <1>1, <1>2, KilledFrame

LEMMA TogetherHolds == Spec => []TogetherInv
<1>1. Init => TogetherInv
  BY ConstantsAssumption DEF Init, TogetherInv, Thread
<1>2. TypeOK /\ TogetherInv /\ [Next]_vars => TogetherInv'
  <2>1. CASE UNCHANGED vars
    BY <2>1 DEF TogetherInv, vars
  <2> QED BY <2>1, TogetherStep
<1> QED BY <1>1, <1>2, TypeCorrect, PTL DEF Spec

\* No path out of a method leaves the mutex locked: whoever holds it is inside
\* its critical section, was killed there, or ran into a freed Inner.
THEOREM NoOrphanedLockHolds == Spec => []NoOrphanedLock
<1>1. Init => NoOrphanedLock
  BY ConstantsAssumption DEF Init, NoOrphanedLock
<1>2. TypeOK /\ NoOrphanedLock /\ [Next]_vars => NoOrphanedLock'
  <2>1. CASE UNCHANGED vars
    BY <2>1 DEF NoOrphanedLock, vars
  <2> QED BY <2>1, HolderStep
<1> QED BY <1>1, <1>2, TypeCorrect, PTL DEF Spec

\* Inner goes in Free and nowhere else.
LEMMA LeakFrame ==
    Next => UNCHANGED inner \/ \E t \in Thread : Free(t)
<1> SUFFICES ASSUME Next, ~\E t \in Thread : Free(t)
             PROVE  UNCHANGED inner
  OBVIOUS
<1> USE DEF memory
<1>1. ASSUME NEW t \in Thread, Begin(t) PROVE UNCHANGED inner
  BY <1>1 DEF Begin, clone, make_sender, make_receiver, CallReceive, CallSend,
     DropChannel, DropSender, DropReceiver
<1>2. ASSUME NEW t \in Thread, MethodStep(t) PROVE UNCHANGED inner
  BY <1>2 DEF MethodStep, CheckDropping, AcquireLock, LockTimeout, LockPanics,
     EvalReady, EvalPast, CondWait, Relock, EvalExpired, CheckRoom, CheckPeers,
     pop, push, Unlock
<1>3. ASSUME NEW t \in Thread, DropStep(t) PROVE UNCHANGED inner
  BY <1>3 DEF DropStep, WakePeers, Release, StoreDropping, SwapReceivers,
     SwapSenders, NotifyReceivers, NotifySenders, Drain, DestroyCondvars
<1>4. ASSUME NEW t \in Thread, SpuriousWake(t) \/ Expire(t) \/ UseAfterFree(t)
      PROVE  UNCHANGED inner
  BY <1>4 DEF SpuriousWake, Expire, UseAfterFree
<1>5. ASSUME NEW P \in Processes, Crash(P) PROVE UNCHANGED inner
  BY <1>5 DEF Crash
<1> QED BY <1>1, <1>2, <1>3, <1>4, <1>5 DEF Next

\* When the creating process frees Inner, none of its threads is in the mutex or
\* in a wait on it: a thread in a method owns a handle, and the counter is zero;
\* a thread killed there was not killed alone.
LEMMA CreatorLeftMutex ==
    ASSUME TypeOK, CallInv, RefInv, CloseInv, NoOrphanedLock, TogetherInv,
           NEW t \in Thread, Free(t), NEW u \in Local
    PROVE  ~UsesMutex(u)
<1>1. t \in Local /\ references = 0 /\ pc[t] \notin Killed /\ inner = "live"
  BY DEF Free, CloseInv
<1>2. pc[u] \notin Killed \cup {"ub"} /\ u \in Thread
  BY <1>1 DEF TogetherInv, CloseInv, Thread
<1>3. handle[u] = "none"
  BY <1>1, OwnersFinite DEF Owners
<1>4. pc[u] \notin InCall
  BY <1>2, <1>3 DEF CallInv
<1> QED BY <1>2, <1>4 DEF UsesMutex, NoOrphanedLock

\* Channel::drop leaks the buffer of the queue only because of a thread of
\* another process, which holds the mutex or waits, or was killed doing so.
THEOREM LeakHolds == Spec => LeakNeedsRemoteUser
<1> DEFINE Leak == inner = "live" /\ inner' = "leaked"
                     => /\ \E u \in Remote : UsesMutex(u)
                        /\ \A u \in Local : ~UsesMutex(u)
<1>1. TypeOK /\ CallInv /\ RefInv /\ CloseInv /\ NoOrphanedLock /\ TogetherInv
        /\ [Next]_vars => [Leak]_vars
  <2> SUFFICES ASSUME TypeOK, CallInv, RefInv, CloseInv, NoOrphanedLock,
                      TogetherInv, Next
               PROVE  Leak
    OBVIOUS
  <2>1. CASE UNCHANGED inner
    BY <2>1
  <2>2. ASSUME NEW t \in Thread, Free(t) PROVE Leak
    <3>1. \A u \in Local : ~UsesMutex(u)
      BY <2>2, CreatorLeftMutex
    <3>2. inner' = "leaked" => \E u \in Thread : UsesMutex(u)
      BY <2>2 DEF Free
    <3> QED BY <3>1, <3>2 DEF Thread
  <2> QED BY <2>1, <2>2, LeakFrame
<1> QED BY <1>1, TypeCorrect, CloseHolds, NoOrphanedLockHolds, TogetherHolds, PTL
        DEF Spec, LeakNeedsRemoteUser

-----------------------------------------------------------------------------
(***************************************************************************)
(* EmptyHandedTellsTruth                                                   *)
(***************************************************************************)

\* Which methods get where: those that never block do not wait; only
\* try_send_once looks for room before it looks for its counterpart; and
\* `receive' does not look for its counterpart after its wait.
Waits == {"ready", "past", "wait", "expired"} \cup Blocked

PlaceInv ==
    \A t \in Thread : /\ pc[t] \in Waits => op[t] \notin Once
                      /\ pc[t] = "room" => op[t] \in SendOps
                      /\ pc[t] = "decide" => op[t] # "receive"

LEMMA PlaceStep == TypeOK /\ CallInv /\ PlaceInv /\ Next => PlaceInv'
<1> SUFFICES ASSUME TypeOK, CallInv, PlaceInv, Next
             PROVE  PlaceInv'
  OBVIOUS
<1> USE ConstantsAssumption
    DEF TypeOK, CallInv, PlaceInv, Waits, ReceiveOps, SendOps, Timed, Once, Goto, Return, Finish, Panic, Unwind, call
<1>1. ASSUME NEW t \in Thread, Begin(t) PROVE PlaceInv'
  BY <1>1 DEF Begin, clone, make_sender, make_receiver, CallReceive, CallSend,
     DropChannel, DropSender, DropReceiver
<1>2. ASSUME NEW t \in Thread, MethodStep(t) PROVE PlaceInv'
  <2>1. CASE CheckDropping(t) \/ LockTimeout(t) \/ LockPanics(t)
    BY <2>1 DEF CheckDropping, LockTimeout, LockPanics
  <2>2. CASE AcquireLock(t) \/ Relock(t)
    BY <2>2 DEF AcquireLock, AfterLock, Relock
  <2>3. CASE EvalReady(t) \/ EvalExpired(t)
    BY <2>3 DEF EvalReady, EvalExpired, AfterWait
  <2>4. CASE EvalPast(t)
    BY <2>4 DEF EvalPast, AfterWait
  <2>5. CASE CheckRoom(t) \/ CheckPeers(t)
    BY <2>5 DEF CheckRoom, CheckPeers
  <2>6. CASE CondWait(t) \/ Unlock(t)
    BY <2>6 DEF CondWait, Unlock
  <2>7. CASE pop(t)
    <3>1. CASE PopOne(t)
      BY <3>1 DEF PopOne, Notified
    <3>2. CASE PopNone(t)
      BY <3>2 DEF PopNone
    <3> QED BY <2>7, <3>1, <3>2, Transfers
  <2>8. CASE push(t)
    <3>1. CASE PushOne(t)
      BY <3>1 DEF PushOne, Notified
    <3>2. CASE PushFails(t)
      BY <3>2 DEF PushFails
    <3> QED BY <2>8, <3>1, <3>2, Transfers
  <2> QED BY <1>2, <2>1, <2>2, <2>3, <2>4, <2>5, <2>6, <2>7, <2>8 DEF MethodStep
<1>3. ASSUME NEW t \in Thread, DropStep(t) PROVE PlaceInv'
  <2>1. CASE WakePeers(t) \/ NotifyReceivers(t) \/ NotifySenders(t)
    BY <2>1, Broadcasts DEF WakePeers, NotifyReceivers, NotifySenders, Notified
  <2>2. CASE Release(t)
    BY <2>2 DEF Release
  <2>3. CASE StoreDropping(t) \/ SwapReceivers(t) \/ SwapSenders(t)
             \/ Drain(t) \/ Free(t) \/ DestroyCondvars(t)
    BY <2>3 DEF StoreDropping, SwapReceivers, SwapSenders, Drain, Free,
                DestroyCondvars
  <2> QED BY <1>3, <2>1, <2>2, <2>3 DEF DropStep
<1>4. ASSUME NEW t \in Thread, SpuriousWake(t) \/ Expire(t) \/ UseAfterFree(t)
      PROVE  PlaceInv'
  BY <1>4 DEF SpuriousWake, Expire, UseAfterFree
<1>5. ASSUME NEW P \in Processes, Crash(P) PROVE PlaceInv'
  BY <1>5, CrashEffect DEF Stopped
<1> QED BY <1>1, <1>2, <1>3, <1>4, <1>5 DEF Next

\* A thread that has its answer still holds the mutex, and has only the guard
\* to drop, or was stopped before it did.
RetInv ==
    \A t \in Thread : ret[t] # "none" =>
        lock = t /\ pc[t] \in {"unlock"} \cup Killed \cup {"ub"}

LEMMA RetStep == TypeOK /\ LockDiscipline /\ RetInv /\ Next => RetInv'
<1> SUFFICES ASSUME TypeOK, LockDiscipline, RetInv, Next
             PROVE  RetInv'
  OBVIOUS
<1> USE ConstantsAssumption
    DEF TypeOK, LockDiscipline, RetInv, Goto, Return, Finish, Panic, Unwind, call
<1>1. ASSUME NEW t \in Thread, Begin(t) PROVE RetInv'
  BY <1>1 DEF Begin, clone, make_sender, make_receiver, CallReceive, CallSend,
     DropChannel, DropSender, DropReceiver
<1>2. ASSUME NEW t \in Thread, MethodStep(t) PROVE RetInv'
  <2>1. CASE CheckDropping(t) \/ LockTimeout(t) \/ LockPanics(t)
    BY <2>1 DEF CheckDropping, LockTimeout, LockPanics
  <2>2. CASE AcquireLock(t) \/ Relock(t)
    BY <2>2 DEF AcquireLock, AfterLock, Relock
  <2>3. CASE EvalReady(t) \/ EvalExpired(t)
    BY <2>3 DEF EvalReady, EvalExpired, AfterWait
  <2>4. CASE EvalPast(t)
    BY <2>4 DEF EvalPast, AfterWait
  <2>5. CASE CheckRoom(t) \/ CheckPeers(t)
    <3>1. UNCHANGED lock /\ lock = t /\ pc[t] \in Critical
      BY <2>5 DEF CheckRoom, CheckPeers
    <3>2. \/ \E next \in PC : pc' = [pc EXCEPT ![t] = next] /\ UNCHANGED ret
          \/ \E r : pc' = [pc EXCEPT ![t] = "unlock"] /\ ret' = [ret EXCEPT ![t] = r]
      <4> HIDE DEF LockDiscipline, RetInv
      <4> QED BY <2>5 DEF CheckRoom, CheckPeers
    <3>3. ret[t] = "none"
      BY <2>5 DEF CheckRoom, CheckPeers
    <3>4. pc'[t] = "unlock" \/ ret'[t] = "none"
      BY <3>2, <3>3
    <3>5. \A u \in Thread \ {t} : pc'[u] = pc[u] /\ ret'[u] = ret[u]
      BY <3>2
    <3> QED BY <3>1, <3>4, <3>5
  <2>6. CASE CondWait(t) \/ Unlock(t)
    BY <2>6 DEF CondWait, Unlock
  <2>7. CASE pop(t)
    <3>1. CASE PopOne(t)
      BY <3>1 DEF PopOne, Notified
    <3>2. CASE PopNone(t)
      BY <3>2 DEF PopNone
    <3> QED BY <2>7, <3>1, <3>2, Transfers
  <2>8. CASE push(t)
    <3>1. CASE PushOne(t)
      BY <3>1 DEF PushOne, Notified
    <3>2. CASE PushFails(t)
      BY <3>2 DEF PushFails
    <3> QED BY <2>8, <3>1, <3>2, Transfers
  <2> QED BY <1>2, <2>1, <2>2, <2>3, <2>4, <2>5, <2>6, <2>7, <2>8 DEF MethodStep
<1>3. ASSUME NEW t \in Thread, DropStep(t) PROVE RetInv'
  <2>1. CASE WakePeers(t) \/ NotifyReceivers(t) \/ NotifySenders(t)
    BY <2>1, Broadcasts DEF WakePeers, NotifyReceivers, NotifySenders, Notified
  <2>2. CASE Release(t)
    BY <2>2 DEF Release
  <2>3. CASE StoreDropping(t) \/ SwapReceivers(t) \/ SwapSenders(t)
             \/ Drain(t) \/ Free(t) \/ DestroyCondvars(t)
    BY <2>3 DEF StoreDropping, SwapReceivers, SwapSenders, Drain, Free,
                DestroyCondvars
  <2> QED BY <1>3, <2>1, <2>2, <2>3 DEF DropStep
<1>4. ASSUME NEW t \in Thread, SpuriousWake(t) \/ Expire(t) \/ UseAfterFree(t)
      PROVE  RetInv'
  <2>1. CASE SpuriousWake(t)
    BY <2>1 DEF SpuriousWake
  <2>2. CASE Expire(t)
    BY <2>2 DEF Expire
  <2>3. CASE UseAfterFree(t)
    BY <2>3 DEF UseAfterFree
  <2> QED BY <1>4, <2>1, <2>2, <2>3
<1>5. ASSUME NEW P \in Processes, Crash(P) PROVE RetInv'
  BY <1>5, CrashEffect DEF Stopped
<1> QED BY <1>1, <1>2, <1>3, <1>4, <1>5 DEF Next

\* Thread t relies on an empty queue: its answer says so, or it is about to
\* sleep until there is a value, or found none and goes on to the counters.
ReliesOnEmpty(t) ==
    \/ ret[t] = "timed_out" /\ op[t] \in ReceiveOps
    \/ ret[t] = "disconnected" /\ op[t] = "receive"
    \/ pc[t] = "wait" /\ op[t] \in ReceiveOps
    \/ pc[t] = "decide" /\ op[t] = "try_receive_once"

\* Thread t relies on a full one.
ReliesOnFull(t) ==
    /\ op[t] \in SendOps
    /\ ret[t] = "timed_out" \/ pc[t] = "wait"

QueueInv ==
    \A t \in Thread : /\ ReliesOnEmpty(t) => queue = <<>>
                      /\ ReliesOnFull(t) => remaining_capacity = 0

\* A wait that goes on has looked at the queue under the mutex.
LEMMA NotReady ==
    ASSUME NEW method, ~is_ready(method)
    PROVE  /\ method \in ReceiveOps => queue = <<>>
           /\ method \in SendOps => remaining_capacity = 0
BY DEF is_ready, ReceiveOps, SendOps

\* Only the holder of the mutex relies on what the queue is.
LEMMA RelyingHolds ==
    ASSUME LockDiscipline, RetInv, NEW t \in Thread,
           ReliesOnEmpty(t) \/ ReliesOnFull(t)
    PROVE  lock = t
BY DEF LockDiscipline, RetInv, ReliesOnEmpty, ReliesOnFull

\* A transfer under the mutex, after which its thread relies on nothing.
LEMMA QueueTransfer ==
    ASSUME TypeOK, LockDiscipline, RetInv, NEW t \in Thread,
           PopOne(t) \/ PushOne(t)
    PROVE  QueueInv'
<1> SUFFICES ASSUME NEW u \in Thread
             PROVE  ~(ReliesOnEmpty(u) \/ ReliesOnFull(u))'
  BY DEF QueueInv
<1>1. /\ lock = t /\ ret' = [ret EXCEPT ![t] = "ok"] /\ UNCHANGED op
      /\ pc[t] # "asleep" /\ Notified(t, "unlock")
  BY DEF LockDiscipline, PopOne, PushOne
<1>2. CASE u = t
  BY <1>1, <1>2 DEF TypeOK, Notified, ReliesOnEmpty, ReliesOnFull
<1>3. CASE u # t
  <2>1. ~(ReliesOnEmpty(u) \/ ReliesOnFull(u))
    BY <1>1, <1>3, RelyingHolds
  <2>2. /\ ret'[u] = ret[u] /\ op'[u] = op[u]
        /\ pc'[u] = pc[u] \/ pc'[u] = "relock"
    BY <1>1, <1>3 DEF TypeOK, Notified
  <2> QED BY <2>1, <2>2 DEF ReliesOnEmpty, ReliesOnFull
<1> QED BY <1>2, <1>3

LEMMA QueueStep ==
    TypeOK /\ CallInv /\ LockDiscipline /\ PlaceInv /\ RetInv /\ QueueInv /\ Next
        => QueueInv'
<1> SUFFICES ASSUME TypeOK, CallInv, LockDiscipline, PlaceInv, RetInv, QueueInv,
                    Next
             PROVE  QueueInv'
  OBVIOUS
<1> USE ConstantsAssumption
    DEF TypeOK, CallInv, PlaceInv, RetInv, QueueInv, ReliesOnEmpty,
            ReliesOnFull, Waits, ReceiveOps, SendOps, Timed, Once, Goto, Return,
            Finish, Panic, Unwind, remaining_capacity, store, call
<1>1. ASSUME NEW t \in Thread, Begin(t) PROVE QueueInv'
  <2>1. UNCHANGED <<store, ret>>
    BY <1>1 DEF Begin, clone, make_sender, make_receiver, CallReceive, CallSend,
       DropChannel, DropSender, DropReceiver
  <2>2. /\ pc[t] \in {"idle", "unwinding"}
        /\ \A u \in Thread \ {t} : pc'[u] = pc[u] /\ op'[u] = op[u]
        /\ pc'[t] \notin {"wait", "decide"}
    BY <1>1 DEF Begin, clone, make_sender, make_receiver, CallReceive, CallSend,
       DropChannel, DropSender, DropReceiver
  <2>3. ret[t] = "none"
    BY <2>2
  <2> QED BY <2>1, <2>2, <2>3
<1>2. ASSUME NEW t \in Thread, MethodStep(t) PROVE QueueInv'
  <2>1. CASE CheckDropping(t) \/ LockTimeout(t) \/ LockPanics(t)
    BY <2>1 DEF CheckDropping, LockTimeout, LockPanics
  <2>2. CASE AcquireLock(t) \/ Relock(t)
    BY <2>2 DEF AcquireLock, AfterLock, Relock
  <2>3. CASE EvalReady(t) \/ EvalExpired(t)
    BY <2>3, NotReady DEF EvalReady, EvalExpired, AfterWait
  <2>4. CASE EvalPast(t)
    BY <2>4, NotReady DEF EvalPast, AfterWait
  <2>5. CASE CheckRoom(t) \/ CheckPeers(t)
    BY <2>5 DEF CheckRoom, CheckPeers
  <2>6. CASE CondWait(t) \/ Unlock(t)
    BY <2>6 DEF CondWait, Unlock
  <2>7. CASE pop(t)
    <3>1. CASE PopOne(t)
      BY <3>1, QueueTransfer
    <3>2. CASE PopNone(t)
      BY <3>2 DEF PopNone
    <3> QED BY <2>7, <3>1, <3>2, Transfers
  <2>8. CASE push(t)
    <3>1. CASE PushOne(t)
      BY <3>1, QueueTransfer
    <3>2. CASE PushFails(t)
      BY <3>2 DEF PushFails
    <3> QED BY <2>8, <3>1, <3>2, Transfers
  <2> QED BY <1>2, <2>1, <2>2, <2>3, <2>4, <2>5, <2>6, <2>7, <2>8 DEF MethodStep
<1>3. ASSUME NEW t \in Thread, DropStep(t) PROVE QueueInv'
  <2>1. CASE WakePeers(t) \/ NotifyReceivers(t) \/ NotifySenders(t)
    BY <2>1, Broadcasts DEF WakePeers, NotifyReceivers, NotifySenders, Notified
  <2>2. CASE Release(t)
    BY <2>2 DEF Release
  <2>3. CASE StoreDropping(t) \/ SwapReceivers(t) \/ SwapSenders(t)
             \/ Drain(t) \/ Free(t) \/ DestroyCondvars(t)
    BY <2>3 DEF StoreDropping, SwapReceivers, SwapSenders, Drain, Free,
                DestroyCondvars
  <2> QED BY <1>3, <2>1, <2>2, <2>3 DEF DropStep
<1>4. ASSUME NEW t \in Thread, SpuriousWake(t) \/ Expire(t) \/ UseAfterFree(t)
      PROVE  QueueInv'
  BY <1>4 DEF SpuriousWake, Expire, UseAfterFree
<1>5. ASSUME NEW P \in Processes, Crash(P) PROVE QueueInv'
  BY <1>5, CrashEffect DEF Stopped
<1> QED BY <1>1, <1>2, <1>3, <1>4, <1>5 DEF Next

LEMMA AnswerHolds == Spec => [](PlaceInv /\ RetInv /\ QueueInv)
<1>1. Init => PlaceInv /\ RetInv /\ QueueInv
  BY DEF Init, PlaceInv, RetInv, QueueInv, ReliesOnEmpty, ReliesOnFull, Waits,
     SendOps
<1>2. TypeOK /\ CallInv /\ LockDiscipline /\ PlaceInv /\ RetInv /\ QueueInv
         /\ [Next]_vars => (PlaceInv /\ RetInv /\ QueueInv)'
  <2>1. CASE UNCHANGED vars
    BY <2>1 DEF PlaceInv, RetInv, QueueInv, ReliesOnEmpty, ReliesOnFull,
       remaining_capacity, vars, store, call
  <2> QED BY <2>1, PlaceStep, RetStep, QueueStep
<1> QED BY <1>1, <1>2, TypeCorrect, LockDisciplineHolds, PTL DEF Spec

\* What a method says of the queue when it comes back empty-handed is true
\* until it drops its guard, whatever the other threads do meanwhile, which of
\* them die, and where it is itself stopped.
THEOREM EmptyHandedHolds == Spec => []EmptyHandedTellsTruth
<1>1. TypeOK /\ HistoryInv /\ QueueInv => EmptyHandedTellsTruth
  <2> SUFFICES ASSUME TypeOK, HistoryInv, QueueInv
               PROVE  EmptyHandedTellsTruth
    OBVIOUS
  <2>1. queue = <<>> => received = sent
    BY ConcatEmptySeq DEF TypeOK, HistoryInv
  <2>2. remaining_capacity = 0 => Len(queue) = capacity
    BY LenProperties DEF TypeOK, remaining_capacity
  <2> QED BY <2>1, <2>2
          DEF QueueInv, ReliesOnEmpty, ReliesOnFull, EmptyHandedTellsTruth
<1> QED BY <1>1, TypeCorrect, HistoryHolds, AnswerHolds, PTL
=============================================================================
