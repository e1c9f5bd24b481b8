------------------------- MODULE ChannelSignalProofs -------------------------
(***************************************************************************)
(* No signal is lost between pushing and popping: the theorems behind      *)
(* NoStrandedItem and NoStrandedSpace, for any number of threads and       *)
(* processes and any values.                                               *)
(*                                                                         *)
(* The two conditions mirror each other.  What is said of both is said of  *)
(* a set of methods: ReceiveOps, which take values, or SendOps, which take *)
(* room.                                                                   *)
(***************************************************************************)
EXTENDS ChannelCallProofs

USE DEF PC, InCall, Blocked, Critical, Waking, Closing, Killed, KilledInWait

\* Nothing is promised when a process was killed, while the channel is being
\* destroyed, or while the wake-up of all sleepers is pending.
Excused(place) ==
    SomeKilled \/ dropping \/ \E t \in Thread : pc[t] = place

\* There is nothing to take for the methods.
Nothing(methods) ==
    IF methods = ReceiveOps THEN queue = <<>> ELSE remaining_capacity = 0

-----------------------------------------------------------------------------
(***************************************************************************)
(* What the methods are called on.                                         *)
(***************************************************************************)

\* A receiving method runs on a Receiver and a sending one on a Sender, only
\* methods that are called run, and only receiving ones pop.
MethodInv ==
    \A t \in Thread : pc[t] \in InCall =>
        /\ op[t] \in Ops
        /\ op[t] \in ReceiveOps => handle[t] = "receiver"
        /\ op[t] \in SendOps => handle[t] = "sender"
        /\ pc[t] = "pop" => op[t] \in ReceiveOps

LEMMA MethodStepInv == TypeOK /\ CallInv /\ MethodInv /\ Next => MethodInv'
<1> SUFFICES ASSUME TypeOK, CallInv, MethodInv, Next
             PROVE  MethodInv'
  OBVIOUS
<1> USE ConstantsAssumption
    DEF TypeOK, CallInv, MethodInv, ReceiveOps, SendOps, Timed, Once, Goto,
        Return, Finish, Panic, Unwind, call
<1>1. ASSUME NEW t \in Thread, Begin(t) PROVE MethodInv'
  BY <1>1 DEF Begin, clone, make_sender, make_receiver, CallReceive, CallSend,
     DropChannel, DropSender, DropReceiver
<1>2. ASSUME NEW t \in Thread, MethodStep(t) PROVE MethodInv'
  <2>1. CASE CheckDropping(t) \/ LockTimeout(t) \/ LockPanics(t)
    BY <2>1 DEF CheckDropping, LockTimeout, LockPanics
  <2>2. CASE AcquireLock(t) \/ Relock(t)
    BY <2>2 DEF AcquireLock, AfterLock, Relock
  <2>3. CASE EvalReady(t) \/ EvalExpired(t)
    BY <2>3 DEF EvalReady, EvalExpired, AfterWait
  <2>4. CASE EvalPast(t)
    BY <2>4 DEF EvalPast, AfterWait
  <2>5. CASE CheckRoom(t) \/ CheckPeers(t)
    BY <2>5 DEF CheckRoom, CheckPeers
  <2>6. CASE CondWait(t) \/ Unlock(t)
    BY <2>6 DEF CondWait, Unlock
  <2>7. CASE pop(t)
    <3>1. CASE PopOne(t)
      BY <3>1 DEF PopOne, Notified
    <3>2. CASE PopNone(t)
      BY <3>2 DEF PopNone
    <3> QED BY <2>7, <3>1, <3>2, Transfers
  <2>8. CASE push(t)
    <3>1. CASE PushOne(t)
      BY <3>1 DEF PushOne, Notified
    <3>2. CASE PushFails(t)
      BY <3>2 DEF PushFails
    <3> QED BY <2>8, <3>1, <3>2, Transfers
  <2> QED BY <1>2, <2>1, <2>2, <2>3, <2>4, <2>5, <2>6, <2>7, <2>8 DEF MethodStep
<1>3. ASSUME NEW t \in Thread, DropStep(t) PROVE MethodInv'
  <2>1. CASE WakePeers(t) \/ NotifyReceivers(t) \/ NotifySenders(t)
    BY <2>1, Broadcasts DEF WakePeers, NotifyReceivers, NotifySenders, Notified
  <2>2. CASE Release(t)
    BY <2>2 DEF Release
  <2>3. CASE StoreDropping(t) \/ SwapReceivers(t) \/ SwapSenders(t)
             \/ Drain(t) \/ Free(t) \/ DestroyCondvars(t)
    BY <2>3 DEF StoreDropping, SwapReceivers, SwapSenders, Drain, Free,
                DestroyCondvars
  <2> QED BY <1>3, <2>1, <2>2, <2>3 DEF DropStep
<1>4. ASSUME NEW t \in Thread, SpuriousWake(t) \/ Expire(t) \/ UseAfterFree(t)
      PROVE  MethodInv'
  BY <1>4 DEF SpuriousWake, Expire, UseAfterFree
<1>5. ASSUME NEW P \in Processes, Crash(P) PROVE MethodInv'
  BY <1>5, CrashEffect DEF Stopped
<1> QED BY <1>1, <1>2, <1>3, <1>4, <1>5 DEF Next

LEMMA MethodHolds == Spec => []MethodInv
<1>1. Init => MethodInv
  BY DEF Init, MethodInv
<1>2. TypeOK /\ CallInv /\ MethodInv /\ [Next]_vars => MethodInv'
  <2>1. CASE UNCHANGED vars
    BY <2>1 DEF MethodInv, vars, call
  <2> QED BY <2>1, MethodStepInv
<1> QED BY <1>1, <1>2, TypeCorrect, PTL DEF Spec

-----------------------------------------------------------------------------
(***************************************************************************)
(* What a step does to the sleepers and to the threads on their way.       *)
(***************************************************************************)

\* A killed thread stays where it was killed; a thread that has to wake the
\* others does so, unless it is killed or Inner is gone.
Lasting(u) ==
    /\ pc[u] \in Killed => pc'[u] \in Killed
    /\ pc[u] \in Waking => \/ pc'[u] \in Killed \cup {pc[u]}
                           \/ WakePeers(u) \/ inner # "live"

LastingAll == \A u \in Thread : Lasting(u)

LEMMA LastingStep == TypeOK /\ Next => LastingAll
<1> SUFFICES ASSUME TypeOK, Next
             PROVE  LastingAll
  OBVIOUS
<1> USE ConstantsAssumption
    DEF TypeOK, LastingAll, Lasting, Goto, Return, Finish, Panic, Unwind
<1>1. ASSUME NEW t \in Thread, Begin(t) PROVE LastingAll
  BY <1>1 DEF Begin, clone, make_sender, make_receiver, CallReceive, CallSend,
     DropChannel, DropSender, DropReceiver
<1>2. ASSUME NEW t \in Thread, MethodStep(t) PROVE LastingAll
  <2>1. CASE CheckDropping(t) \/ LockTimeout(t) \/ LockPanics(t)
    BY <2>1 DEF CheckDropping, LockTimeout, LockPanics
  <2>2. CASE AcquireLock(t) \/ Relock(t)
    BY <2>2 DEF AcquireLock, AfterLock, Relock
  <2>3. CASE EvalReady(t) \/ EvalExpired(t)
    BY <2>3 DEF EvalReady, EvalExpired, AfterWait
  <2>4. CASE EvalPast(t)
    BY <2>4 DEF EvalPast, AfterWait
  <2>5. CASE CheckRoom(t) \/ CheckPeers(t)
    BY <2>5 DEF CheckRoom, CheckPeers
  <2>6. CASE CondWait(t) \/ Unlock(t)
    BY <2>6 DEF CondWait, Unlock
  <2>7. CASE pop(t)
    <3>1. CASE PopOne(t)
      BY <3>1 DEF PopOne, Notified
    <3>2. CASE PopNone(t)
      BY <3>2 DEF PopNone
    <3> QED BY <2>7, <3>1, <3>2, Transfers
  <2>8. CASE push(t)
    <3>1. CASE PushOne(t)
      BY <3>1 DEF PushOne, Notified
    <3>2. CASE PushFails(t)
      BY <3>2 DEF PushFails
    <3> QED BY <2>8, <3>1, <3>2, Transfers
  <2> QED BY <1>2, <2>1, <2>2, <2>3, <2>4, <2>5, <2>6, <2>7, <2>8 DEF MethodStep
<1>3. ASSUME NEW t \in Thread, DropStep(t) PROVE LastingAll
  <2>1. CASE WakePeers(t)
    <3>1. pc[t] \in Waking /\ Notified(t, "drop_channel")
      BY <2>1, Broadcasts DEF WakePeers
    <3> QED BY <2>1, <3>1 DEF Notified
  <2>4. CASE NotifyReceivers(t) \/ NotifySenders(t)
    BY <2>4, Broadcasts DEF NotifyReceivers, NotifySenders, Notified
  <2>2. CASE Release(t)
    BY <2>2 DEF Release
  <2>3. CASE StoreDropping(t) \/ SwapReceivers(t) \/ SwapSenders(t)
             \/ Drain(t) \/ Free(t) \/ DestroyCondvars(t)
    BY <2>3 DEF StoreDropping, SwapReceivers, SwapSenders, Drain, Free,
                DestroyCondvars
  <2> QED BY <1>3, <2>1, <2>2, <2>3, <2>4 DEF DropStep
<1>4. ASSUME NEW t \in Thread, SpuriousWake(t) \/ Expire(t) \/ UseAfterFree(t)
      PROVE  LastingAll
  BY <1>4 DEF SpuriousWake, Expire, UseAfterFree
<1>5. ASSUME NEW P \in Processes, Crash(P) PROVE LastingAll
  BY <1>5, CrashEffect DEF Stopped
<1> QED BY <1>1, <1>2, <1>3, <1>4, <1>5 DEF Next

Peers(methods) == IF methods = ReceiveOps THEN senders ELSE receivers

\* Nobody on the way gets off it, and nobody falls asleep.
Calm(methods) ==
    /\ UNCHANGED <<queue, capacity>>
    /\ OnTheWay(methods) \subseteq OnTheWay(methods)'
    /\ Sleepers(methods)' \subseteq Sleepers(methods)

\* There is nothing to take, whoever gives up or falls asleep.
Forgoes(methods) == UNCHANGED <<queue, capacity>> /\ Nothing(methods)

\* A thread gives up because its counterparts are gone.
Deserted(methods) ==
    /\ UNCHANGED <<queue, capacity, senders, receivers>>
    /\ Peers(methods) = 0
    /\ Sleepers(methods)' \subseteq Sleepers(methods)

\* A step of t that does not touch the queue, and leaves t on its way, if it
\* was, and awake.
LEMMA CalmStep ==
    ASSUME TypeOK, NEW methods, NEW t \in Thread, UNCHANGED <<queue, capacity>>,
           \A u \in Thread \ {t} : pc'[u] = pc[u] /\ op'[u] = op[u],
           t \in OnTheWay(methods) => t \in OnTheWay(methods)',
           pc'[t] # "asleep" \/ op'[t] \notin methods
    PROVE  Calm(methods)
BY DEF Calm, OnTheWay, Sleepers

\* The same for a step that wakes others.
LEMMA CalmNotify ==
    ASSUME TypeOK, NEW methods, NEW t \in Thread, UNCHANGED <<queue, capacity>>,
           UNCHANGED op, NEW next \in PC, Notified(t, next), next # "asleep",
           t \notin OnTheWay(methods)
    PROVE  Calm(methods)
<1>1. OnTheWay(methods) \subseteq OnTheWay(methods)'
  BY DEF OnTheWay, Notified
<1>2. Sleepers(methods)' \subseteq Sleepers(methods)
  BY DEF Sleepers, Notified
<1> QED BY <1>1, <1>2 DEF Calm

\* Every step but a transfer is calm, or there is nothing to take, or the
\* counterparts are gone.  wait_for_message_until is the exception: it is woken
\* for a value that it leaves in the queue.
LEMMA Kinds ==
    ASSUME TypeOK, CallInv, DropInv, MethodInv, PlaceInv, QueueInv, Next,
           ~SomeKilled', ~dropping', NEW methods \in {ReceiveOps, SendOps},
           methods = ReceiveOps => "wait_for_message_until" \notin Ops
    PROVE  \/ Calm(methods) \/ Forgoes(methods) \/ Deserted(methods)
           \/ \E t \in Thread : \/ pop(t) /\ PopOne(t)
                                \/ push(t) /\ PushOne(t)
<1> DEFINE Kind == Calm(methods) \/ Forgoes(methods) \/ Deserted(methods)
<1> SUFFICES ASSUME ~\E t \in Thread : \/ pop(t) /\ PopOne(t)
                                       \/ push(t) /\ PushOne(t)
             PROVE  Kind
  OBVIOUS
<1>a. ~dropping /\ inner = "live"
  BY CounterFrame DEF DropInv, DroppingInv
<1>b. /\ ReceiveOps # SendOps /\ ReceiveOps \cap SendOps = {}
      /\ "none" \notin ReceiveOps \cup SendOps
  <2>1. "receive" \in ReceiveOps /\ "receive" \notin SendOps
    BY DEF ReceiveOps, SendOps
  <2> QED BY <2>1 DEF ReceiveOps, SendOps
<1>c. ASSUME NEW t \in Thread, op[t] \in methods, ~is_ready(op[t])
      PROVE  Nothing(methods)
  BY <1>b, <1>c, NotReady DEF Nothing
<1>1. ASSUME NEW t \in Thread, Begin(t) PROVE Kind
  <2>1. /\ UNCHANGED <<queue, capacity>>
        /\ \A u \in Thread \ {t} : pc'[u] = pc[u] /\ op'[u] = op[u]
        /\ pc[t] \in {"idle", "unwinding"} /\ pc'[t] # "asleep"
    BY <1>1 DEF Begin, clone, make_sender, make_receiver, CallReceive, CallSend,
       DropChannel, DropSender, DropReceiver, Goto, store, call, TypeOK
  <2>2. t \notin OnTheWay(methods)
    BY <2>1 DEF OnTheWay
  <2> QED BY <2>1, <2>2, CalmStep
<1>2. ASSUME NEW t \in Thread, MethodStep(t) PROVE Kind
  <2>1. CASE CheckDropping(t) \/ LockTimeout(t) \/ LockPanics(t) \/ Unlock(t)
    <3>1. /\ UNCHANGED <<queue, capacity>>
          /\ \A u \in Thread \ {t} : pc'[u] = pc[u] /\ op'[u] = op[u]
          /\ pc[t] \in {"check", "lock", "unlock"} /\ pc'[t] # "asleep"
      BY <2>1 DEF CheckDropping, LockTimeout, LockPanics, Unlock, Goto, Return,
         Unwind, store, call, TypeOK
    <3>2. t \notin OnTheWay(methods)
      BY <3>1 DEF OnTheWay
    <3> QED BY <3>1, <3>2, CalmStep
  <2>2. CASE AcquireLock(t) \/ Relock(t)
    <3>1. /\ UNCHANGED <<queue, capacity>> /\ UNCHANGED op
          /\ \A u \in Thread \ {t} : pc'[u] = pc[u]
          /\ \/ pc[t] = "lock" /\ pc'[t] # "asleep"
             \/ pc'[t] \in {"ready", "expired"}
      BY <2>2 DEF AcquireLock, AfterLock, Relock, Goto, store, call, TypeOK
    <3>2. t \in OnTheWay(methods) => t \in OnTheWay(methods)'
      BY <3>1 DEF OnTheWay
    <3> QED BY <3>1, <3>2, CalmStep
  <2>3. CASE EvalReady(t) \/ EvalPast(t) \/ EvalExpired(t)
    <3>1. UNCHANGED <<queue, capacity>>
      BY <2>3 DEF EvalReady, EvalPast, EvalExpired, store
    <3>2. \A u \in Thread \ {t} : pc'[u] = pc[u] /\ op'[u] = op[u]
      BY <2>3 DEF EvalReady, EvalPast, EvalExpired, Goto, Finish, Panic, Unwind,
         call, TypeOK
    <3>3. CASE op[t] \notin methods
      <4>1. op'[t] \notin methods
        BY <2>3, <3>3, <1>b DEF EvalReady, EvalPast, EvalExpired, Goto, Finish,
           Panic, Unwind, call, TypeOK
      <4>2. t \notin OnTheWay(methods)
        BY <3>3 DEF OnTheWay
      <4> QED BY <3>1, <3>2, <4>1, <4>2, CalmStep
    <3>4. CASE op[t] \in methods /\ ~is_ready(op[t])
      BY <3>1, <3>4, <1>c DEF Forgoes
    <3>5. CASE op[t] \in methods /\ is_ready(op[t])
      <4>1. op[t] \in Ops
        BY <2>3 DEF EvalReady, EvalPast, EvalExpired, MethodInv
      <4>2. AfterWait(op[t]) \in {"pop", "decide"}
        BY <4>1, <3>5, <1>b DEF AfterWait, ReceiveOps, SendOps
      <4>3. pc'[t] = AfterWait(op[t]) /\ op'[t] = op[t]
        BY <2>3, <3>5, <4>2 DEF EvalReady, EvalPast, EvalExpired, Goto, call,
           TypeOK
      <4>4. t \in OnTheWay(methods)'
        BY <3>5, <4>2, <4>3 DEF OnTheWay
      <4> QED BY <3>1, <3>2, <4>2, <4>3, <4>4, CalmStep
    <3> QED BY <3>3, <3>4, <3>5
  <2>4. CASE CondWait(t)
    <3>1. /\ UNCHANGED <<queue, capacity>> /\ UNCHANGED op
          /\ \A u \in Thread \ {t} : pc'[u] = pc[u]
          /\ pc[t] = "wait"
      BY <2>4 DEF CondWait, Goto, store, call, TypeOK
    <3>2. CASE op[t] \in methods
      BY <3>1, <3>2, <1>b DEF Forgoes, Nothing, QueueInv, ReliesOnEmpty,
         ReliesOnFull
    <3>3. CASE op[t] \notin methods
      <4>1. t \notin OnTheWay(methods)
        BY <3>3 DEF OnTheWay
      <4> QED BY <3>1, <3>3, <4>1, CalmStep
    <3> QED BY <3>2, <3>3
  <2>5. CASE CheckRoom(t)
    <3>1. /\ UNCHANGED <<queue, capacity>> /\ UNCHANGED op
          /\ \A u \in Thread \ {t} : pc'[u] = pc[u]
          /\ pc[t] = "room" /\ pc'[t] # "asleep"
      BY <2>5 DEF CheckRoom, Finish, Goto, store, call, TypeOK
    <3>2. t \notin OnTheWay(methods)
      BY <3>1 DEF OnTheWay
    <3> QED BY <3>1, <3>2, CalmStep
  <2>6. CASE CheckPeers(t)
    <3>1. /\ UNCHANGED <<queue, capacity, senders, receivers>> /\ UNCHANGED op
          /\ \A u \in Thread \ {t} : pc'[u] = pc[u]
          /\ pc[t] = "decide" /\ pc'[t] \in {"unlock", "pop", "push"}
      BY <2>6 DEF CheckPeers, Finish, Goto, store, counters, call, TypeOK
    <3>2. CASE op[t] \notin methods
      <4>1. t \notin OnTheWay(methods)
        BY <3>2 DEF OnTheWay
      <4> QED BY <3>1, <4>1, CalmStep
    <3>3. CASE op[t] \in methods /\ Disconnected(op[t])
      <4>1. Peers(methods) = 0
        BY <3>3, <1>a, <1>b DEF Disconnected, Peers
      <4>2. Sleepers(methods)' \subseteq Sleepers(methods)
        BY <3>1 DEF Sleepers
      <4> QED BY <3>1, <4>1, <4>2 DEF Deserted
    <3>4. CASE op[t] = "try_receive_once" /\ op[t] \in methods
      <4>1. op[t] \in ReceiveOps /\ methods = ReceiveOps
        BY <3>4, <1>b DEF ReceiveOps
      <4>2. queue = <<>>
        BY <3>1, <3>4 DEF QueueInv, ReliesOnEmpty
      <4> QED BY <3>1, <4>1, <4>2 DEF Forgoes, Nothing
    <3>5. CASE op[t] # "try_receive_once" /\ ~Disconnected(op[t])
      <4>1. pc'[t] \in {"pop", "push"}
        BY <2>6, <3>5 DEF CheckPeers, Goto, TypeOK
      <4>2. t \in OnTheWay(methods) => t \in OnTheWay(methods)'
        BY <3>1, <4>1 DEF OnTheWay
      <4> QED BY <3>1, <4>2, CalmStep
    <3> QED BY <3>2, <3>3, <3>4, <3>5
  <2>7. CASE pop(t)
    <3>1. PopNone(t) /\ op[t] \in ReceiveOps
      BY <2>7, Transfers DEF PopNone, PopOne, MethodInv
    <3>2. CASE methods = ReceiveOps
      BY <3>1, <3>2 DEF PopNone, Forgoes, Nothing, store
    <3>3. CASE methods = SendOps
      <4>1. /\ UNCHANGED <<queue, capacity>>
            /\ \A u \in Thread \ {t} : pc'[u] = pc[u] /\ op'[u] = op[u]
            /\ pc'[t] # "asleep"
        BY <3>1 DEF PopNone, Goto, Finish, Panic, Unwind, store, call, TypeOK
      <4>2. t \notin OnTheWay(methods)
        BY <3>1, <3>3, <1>b DEF OnTheWay
      <4> QED BY <4>1, <4>2, CalmStep
    <3> QED BY <3>2, <3>3
  <2>8. CASE push(t)
    <3>a. PushFails(t) /\ ~PushOne(t)
      BY <2>8, Transfers
    <3>b. op[t] \in SendOps
      BY <2>8 DEF push, CallInv
    <3>c. remaining_capacity = 0
      BY <2>8, <3>a, SignalEffect DEF push, PushOne, TypeOK
    <3>1. PushFails(t) /\ op[t] \in SendOps /\ remaining_capacity = 0
      BY <3>a, <3>b, <3>c
    <3>2. CASE methods = SendOps
      BY <3>1, <3>2, <1>b DEF PushFails, Forgoes, Nothing, store
    <3>3. CASE methods = ReceiveOps
      <4>1. /\ UNCHANGED <<queue, capacity>>
            /\ \A u \in Thread \ {t} : pc'[u] = pc[u] /\ op'[u] = op[u]
            /\ pc'[t] # "asleep"
        BY <3>1 DEF PushFails, Panic, Unwind, store, TypeOK
      <4>2. t \notin OnTheWay(methods)
        BY <3>1, <3>3, <1>b DEF OnTheWay
      <4> QED BY <4>1, <4>2, CalmStep
    <3> QED BY <3>2, <3>3
  <2> QED BY <1>2, <2>1, <2>2, <2>3, <2>4, <2>5, <2>6, <2>7, <2>8 DEF MethodStep
<1>3. ASSUME NEW t \in Thread, DropStep(t) PROVE Kind
  <2>1. CASE WakePeers(t) \/ NotifyReceivers(t) \/ NotifySenders(t)
    <3>1. /\ UNCHANGED <<queue, capacity>> /\ UNCHANGED op
          /\ pc[t] \in Waking \cup Closing
          /\ \E next \in PC \ {"asleep"} : Notified(t, next)
      BY <2>1, Broadcasts DEF WakePeers, NotifyReceivers, NotifySenders, store,
         call
    <3>2. t \notin OnTheWay(methods)
      BY <3>1 DEF OnTheWay
    <3> QED BY <3>1, <3>2, CalmNotify
  <2>2. CASE \/ Release(t) \/ StoreDropping(t) \/ SwapReceivers(t)
             \/ SwapSenders(t) \/ Drain(t) \/ Free(t) \/ DestroyCondvars(t)
    <3>1. /\ UNCHANGED <<queue, capacity>> /\ UNCHANGED op
          /\ \A u \in Thread \ {t} : pc'[u] = pc[u]
          /\ pc[t] \in Closing \cup {"drop_channel", "destroy_condvars"}
          /\ pc'[t] # "asleep"
      BY <2>2 DEF Release, StoreDropping, SwapReceivers, SwapSenders, Drain,
         Free, DestroyCondvars, Goto, store, call, TypeOK
    <3>2. t \notin OnTheWay(methods)
      BY <3>1 DEF OnTheWay
    <3> QED BY <3>1, <3>2, CalmStep
  <2> QED BY <1>3, <2>1, <2>2 DEF DropStep
<1>4. ASSUME NEW t \in Thread, SpuriousWake(t) \/ Expire(t) PROVE Kind
  <2>1. /\ UNCHANGED <<queue, capacity>> /\ UNCHANGED op
        /\ \A u \in Thread \ {t} : pc'[u] = pc[u]
        /\ pc[t] = "asleep" /\ pc'[t] # "asleep"
    BY <1>4 DEF SpuriousWake, Expire, Goto, store, call, TypeOK
  <2>2. t \notin OnTheWay(methods)
    BY <2>1 DEF OnTheWay
  <2> QED BY <2>1, <2>2, CalmStep
<1>5. ASSUME NEW t \in Thread, UseAfterFree(t) PROVE Kind
  BY <1>5, <1>a DEF UseAfterFree
<1>6. ASSUME NEW P \in Processes, Crash(P) PROVE Kind
  <2>1. PICK t \in Thread : t \in P
    BY ConstantsAssumption DEF Processes, Thread
  <2>2. pc'[t] \in Killed
    BY <1>6, <2>1 DEF Crash
  <2> QED BY <2>2 DEF SomeKilled
<1> QED BY <1>1, <1>2, <1>3, <1>4, <1>5, <1>6 DEF Next

\* The last Sender, or the last Receiver, to be dropped has to wake the others.
LEMMA LastOne ==
    ASSUME TypeOK, DropInv, Next, ~dropping'
    PROVE  /\ senders # 0 /\ senders' = 0
                  => \E t \in Thread : pc'[t] = "wake_receivers"
           /\ receivers # 0 /\ receivers' = 0
                  => \E t \in Thread : pc'[t] = "wake_senders"
<1>1. CASE UNCHANGED <<senders, receivers>>
  BY <1>1
<1>2. ASSUME NEW t \in Thread, HandleAction(t)
      PROVE  /\ senders # 0 /\ senders' = 0
                    => \E u \in Thread : pc'[u] = "wake_receivers"
             /\ receivers # 0 /\ receivers' = 0
                    => \E u \in Thread : pc'[u] = "wake_senders"
  <2>1. CASE clone(t) \/ make_sender(t) \/ make_receiver(t) \/ Release(t)
    BY <2>1 DEF clone, make_sender, make_receiver, Release, counters, TypeOK
  <2>2. CASE DropSender(t)
    <3>1. UNCHANGED receivers /\ (senders' = 0 => pc'[t] = "wake_receivers")
      BY <2>2 DEF DropSender, TypeOK
    <3> QED BY <3>1
  <2>3. CASE DropReceiver(t)
    <3>1. UNCHANGED senders /\ (receivers' = 0 => pc'[t] = "wake_senders")
      BY <2>3 DEF DropReceiver, TypeOK
    <3> QED BY <3>1
  <2> QED BY <1>2, <2>1, <2>2, <2>3 DEF HandleAction
<1> QED BY <1>1, <1>2, CounterFrame

\* What excuses, in the state before a step after which nothing does: that all
\* sleepers are woken by the step.
LEMMA NoExcuse ==
    ASSUME TypeOK, DropInv, Next, NEW place \in Waking, ~Excused(place)',
           Excused(place)
    PROVE  IF place = "wake_receivers" THEN Sleepers(ReceiveOps)' = {}
                                       ELSE Sleepers(SendOps)' = {}
<1>1. ~SomeKilled
  BY LastingStep DEF SomeKilled, Excused, LastingAll, Lasting
<1>2. ~dropping' /\ ~dropping /\ inner = "live"
  BY CounterFrame DEF Excused, DropInv, DroppingInv
<1>3. PICK t \in Thread : pc[t] = place
  BY <1>1, <1>2 DEF Excused
<1>4. WakePeers(t)
  BY <1>2, <1>3, LastingStep DEF LastingAll, Lasting, Excused, SomeKilled
<1>5. CASE place = "wake_receivers"
  BY <1>3, <1>4, <1>5 DEF WakePeers, broadcast, Sleepers, call, TypeOK
<1>6. CASE place = "wake_senders"
  BY <1>3, <1>4, <1>6 DEF WakePeers, broadcast, Sleepers, call, TypeOK
<1> QED BY <1>5, <1>6

LEMMA WayFinite ==
    ASSUME NEW methods
    PROVE  /\ IsFiniteSet(OnTheWay(methods)) /\ IsFiniteSet(OnTheWay(methods)')
           /\ Cardinality(OnTheWay(methods)) \in Nat
           /\ Cardinality(OnTheWay(methods)') \in Nat
<1>1. IsFiniteSet(Thread)
  BY ConstantsAssumption, FS_Union DEF Thread
<1>2. OnTheWay(methods) \subseteq Thread /\ OnTheWay(methods)' \subseteq Thread
  BY DEF OnTheWay
<1> QED BY <1>1, <1>2, FS_Subset, FS_CardinalityType

\* Condvar::signal puts one more thread on the way, unless nobody sleeps.
LEMMA SignalWakes ==
    ASSUME TypeOK, ~SomeKilled, NEW methods, NEW t \in Thread,
           t \notin OnTheWay(methods), pc[t] # "asleep", UNCHANGED op,
           signal(methods, t, "unlock")
    PROVE  \/ Sleepers(methods)' = {}
           \/ /\ Sleepers(methods) # {}
              /\ Cardinality(OnTheWay(methods)')
                    = Cardinality(OnTheWay(methods)) + 1
<1>1. DeadSleepers(methods) = {}
  BY DEF DeadSleepers, SomeKilled
<1>2. CASE Sleepers(methods) = {}
  <2>1. pc' = [pc EXCEPT ![t] = "unlock"]
    BY <1>2 DEF signal
  <2> QED BY <1>2, <2>1 DEF Sleepers, TypeOK
<1>3. CASE Sleepers(methods) # {}
  <2>1. PICK u \in Sleepers(methods) :
            pc' = [pc EXCEPT ![t] = "unlock", ![u] = "relock"]
    BY <1>1, <1>3 DEF signal
  <2>2. /\ OnTheWay(methods)' = OnTheWay(methods) \cup {u}
        /\ u \notin OnTheWay(methods)
    BY <2>1 DEF OnTheWay, Sleepers, TypeOK
  <2> QED BY <1>3, <2>2, WayFinite, FS_AddElement
<1> QED BY <1>2, <1>3

\* A thread that makes a transfer gets off the way, and no other does.
LEMMA OneLeaves ==
    ASSUME TypeOK, NEW methods, NEW t \in Thread, Notified(t, "unlock"),
           UNCHANGED op
    PROVE  /\ Cardinality(OnTheWay(methods)') >= Cardinality(OnTheWay(methods)) - 1
           /\ Sleepers(methods)' \subseteq Sleepers(methods)
<1>1. OnTheWay(methods) \ {t} \subseteq OnTheWay(methods)'
  BY DEF OnTheWay, Notified
<1>2. /\ IsFiniteSet(OnTheWay(methods)) /\ IsFiniteSet(OnTheWay(methods)')
      /\ Cardinality(OnTheWay(methods)) \in Nat
      /\ Cardinality(OnTheWay(methods)') \in Nat
  BY WayFinite
<1>3. Cardinality(OnTheWay(methods) \ {t}) <= Cardinality(OnTheWay(methods)')
  BY <1>1, <1>2, FS_Subset
<1>4. Cardinality(OnTheWay(methods) \ {t}) >= Cardinality(OnTheWay(methods)) - 1
  BY <1>2, FS_RemoveElement
<1>5. Sleepers(methods)' \subseteq Sleepers(methods)
  BY DEF Sleepers, Notified
<1>6. Cardinality(OnTheWay(methods) \ {t}) \in Nat
  BY <1>2, FS_RemoveElement, FS_CardinalityType
<1> QED BY <1>2, <1>3, <1>4, <1>5, <1>6

-----------------------------------------------------------------------------
(***************************************************************************)
(* NoStrandedItem                                                          *)
(***************************************************************************)

\* The invariant: NoStrandedItem also without senders, because then nothing is
\* in the queue that a sleeper could miss.
ItemInv ==
    \/ Excused("wake_receivers")
    \/ Sleepers(ReceiveOps) = {}
    \/ /\ senders = 0 => queue = <<>>
       /\ Len(queue) <= Cardinality(OnTheWay(ReceiveOps))

\* What the steps of both proofs rest on.
SignalInv ==
    /\ TypeOK /\ CallInv /\ DropInv /\ MethodInv /\ PlaceInv /\ QueueInv
    /\ CountersMatchHandles

\* Who pushes is a Sender and who pops is a Receiver.
LEMMA Counterparts ==
    ASSUME SignalInv, ~dropping, NEW t \in Thread
    PROVE  /\ pc[t] = "push" => senders # 0
           /\ pc[t] = "pop" => receivers # 0
<1>1. pc[t] = "push" => t \in Owning("sender")
  BY DEF SignalInv, CallInv, MethodInv, Owning
<1>2. pc[t] = "pop" => t \in Owning("receiver")
  BY DEF SignalInv, MethodInv, Owning
<1>3. /\ senders = Cardinality(Owning("sender"))
      /\ receivers = Cardinality(Owning("receiver"))
  BY DEF SignalInv, CountersMatchHandles, Owning
<1> QED BY <1>1, <1>2, <1>3, OwningFinite, FS_EmptySet

LEMMA ItemStep ==
    ASSUME "wait_for_message_until" \notin Ops, SignalInv, ItemInv, Next
    PROVE  ItemInv'
<1> DEFINE Way == OnTheWay(ReceiveOps)
<1> SUFFICES ASSUME ~Excused("wake_receivers")', Sleepers(ReceiveOps)' # {}
             PROVE  /\ senders' = 0 => queue' = <<>>
                    /\ Len(queue') <= Cardinality(Way')
  BY DEF ItemInv
<1>a. ~Excused("wake_receivers")
  BY NoExcuse DEF SignalInv
<1>b. ~SomeKilled /\ ~SomeKilled' /\ ~dropping /\ ~dropping'
  BY <1>a DEF Excused
<1>c. senders # 0 => senders' # 0
  BY <1>b, LastOne DEF SignalInv, Excused
<1>d. /\ Cardinality(Way) \in Nat /\ Cardinality(Way') \in Nat
      /\ IsFiniteSet(Way) /\ IsFiniteSet(Way')
  BY WayFinite
<1>e. queue \in Seq(Item) /\ Len(queue) \in Nat
  BY LenProperties DEF SignalInv, TypeOK
<1>f. ReceiveOps \cap SendOps = {}
  BY DEF ReceiveOps, SendOps
<1>g. Sleepers(ReceiveOps) # {} => /\ senders = 0 => queue = <<>>
                                   /\ Len(queue) <= Cardinality(Way)
  BY <1>a DEF ItemInv
<1> HIDE DEF Way
<1>1. CASE Calm(ReceiveOps)
  <2>1. Cardinality(Way) <= Cardinality(Way')
    BY <1>1, <1>d, FS_Subset DEF Calm, Way
  <2>2. Sleepers(ReceiveOps) # {} /\ queue' = queue
    BY <1>1 DEF Calm
  <2> QED BY <1>c, <1>d, <1>e, <1>g, <2>1, <2>2
<1>2. CASE Forgoes(ReceiveOps)
  <2>1. queue' = <<>>
    BY <1>2 DEF Forgoes, Nothing
  <2> QED BY <1>d, <2>1, EmptySeq
<1>3. CASE Deserted(ReceiveOps)
  <2>1. queue' = <<>>
    BY <1>3, <1>g DEF Deserted, Peers
  <2> QED BY <1>d, <2>1, EmptySeq
<1>4. ASSUME NEW t \in Thread, pop(t), PopOne(t)
      PROVE  /\ senders' = 0 => queue' = <<>>
             /\ Len(queue') <= Cardinality(Way')
  <2>1. /\ Cardinality(Way') >= Cardinality(Way) - 1
        /\ Sleepers(ReceiveOps)' \subseteq Sleepers(ReceiveOps)
    BY <1>4, OneLeaves DEF PopOne, SignalInv, Way
  <2>2. /\ Len(queue') = Len(queue) - 1 /\ queue # <<>>
        /\ senders' = senders
    BY <1>4, <1>e, HeadTailProperties DEF PopOne, counters
  <2> QED BY <1>d, <1>e, <1>g, <2>1, <2>2
<1>5. ASSUME NEW t \in Thread, push(t), PushOne(t)
      PROVE  /\ senders' = 0 => queue' = <<>>
             /\ Len(queue') <= Cardinality(Way')
  <2>1. op[t] \in SendOps /\ item[t] \in Item /\ pc[t] = "push"
    BY <1>5 DEF PushOne, SignalInv, CallInv
  <2>2. t \notin Way
    BY <2>1, <1>f DEF OnTheWay, Way
  <2>3. signal(ReceiveOps, t, "unlock")
    <3>1. pc'[t] = "unlock"
      BY <1>5 DEF PushOne, Notified
    <3> QED BY <1>5, <3>1 DEF push, Panic, Unwind, SignalInv, TypeOK
  <2>4. /\ Sleepers(ReceiveOps) # {}
        /\ Cardinality(Way') = Cardinality(Way) + 1
    BY <1>5, <1>b, <2>1, <2>2, <2>3, SignalWakes DEF PushOne, SignalInv, Way
  <2>5. Len(queue') = Len(queue) + 1
    BY <1>5, <1>e, <2>1, AppendProperties DEF PushOne, push_back
  <2>6. senders' # 0
    BY <1>b, <1>c, <2>1, Counterparts
  <2> QED BY <1>d, <1>e, <1>g, <2>4, <2>5, <2>6
<1> QED BY <1>1, <1>2, <1>3, <1>4, <1>5, <1>b, Kinds DEF SignalInv

LEMMA SignalHolds == Spec => []SignalInv
BY TypeCorrect, DropHolds, MethodHolds, AnswerHolds, CountersHold, PTL
   DEF SignalInv

\* No signal of a push is lost: while a receiver sleeps, every queued value has
\* a receiver on its way to take it, unless a process was killed with the
\* signal.  For every set of methods but wait_for_message_until, which takes a
\* signal and leaves the value.
THEOREM NoStrandedItemHolds ==
    ASSUME "wait_for_message_until" \notin Ops
    PROVE  Spec => []NoStrandedItem
<1>1. Init => ItemInv
  BY DEF Init, ItemInv, Sleepers
<1>2. SignalInv /\ ItemInv /\ [Next]_vars => ItemInv'
  <2> SUFFICES ASSUME SignalInv, ItemInv, [Next]_vars PROVE ItemInv'
    OBVIOUS
  <2>1. CASE UNCHANGED vars
    BY <2>1 DEF ItemInv, Excused, SomeKilled, Sleepers, OnTheWay, vars, store,
       counters, call
  <2> QED BY <2>1, ItemStep
<1>3. ItemInv => NoStrandedItem
  BY DEF ItemInv, Excused, NoStrandedItem
<1> QED BY <1>1, <1>2, <1>3, SignalHolds, PTL DEF Spec

-----------------------------------------------------------------------------
(***************************************************************************)
(* NoStrandedSpace                                                         *)
(***************************************************************************)

\* The same for the room in the queue.
SpaceInv ==
    \/ Excused("wake_senders")
    \/ Sleepers(SendOps) = {}
    \/ /\ receivers = 0 => remaining_capacity = 0
       /\ remaining_capacity <= Cardinality(OnTheWay(SendOps))

\* The allocator does not let the queue grow.
CapacityInv == capacity = Capacity /\ Len(queue) <= capacity

LEMMA CapacityHolds ==
    ASSUME Capacity = MaxCapacity
    PROVE  Spec => []CapacityInv
<1>1. Init => CapacityInv
  BY ConstantsAssumption, EmptySeq DEF Init, CapacityInv
<1>2. TypeOK /\ CallInv /\ CapacityInv /\ [Next]_vars => CapacityInv'
  <2> SUFFICES ASSUME TypeOK, CallInv, CapacityInv, [Next]_vars
               PROVE  CapacityInv'
    OBVIOUS
  <2> USE DEF CapacityInv
  <2>a. queue \in Seq(Item) /\ Len(queue) \in Nat /\ capacity \in Nat
    BY LenProperties DEF TypeOK
  <2>1. CASE UNCHANGED store
    BY <2>1 DEF store
  <2>2. ASSUME NEW t \in Thread, PopOne(t) PROVE CapacityInv'
    BY <2>2, <2>a, HeadTailProperties DEF PopOne
  <2>3. ASSUME NEW t \in Thread, PushOne(t) PROVE CapacityInv'
    <3>1. remaining_capacity # 0 /\ capacity' = capacity
      BY <2>3, <2>a, ConstantsAssumption DEF PushOne
    <3>2. item[t] \in Item
      BY <2>3 DEF PushOne, CallInv
    <3>3. Len(queue') = Len(queue) + 1
      BY <2>3, <2>a, <3>2, AppendProperties DEF PushOne, push_back
    <3> QED BY <2>a, <3>1, <3>3 DEF remaining_capacity
  <2> QED BY <2>1, <2>2, <2>3, StoreFrame DEF vars
<1> QED BY <1>1, <1>2, TypeCorrect, PTL DEF Spec

LEMMA SpaceStep ==
    ASSUME Capacity = MaxCapacity, CapacityInv, SignalInv, SpaceInv, Next
    PROVE  SpaceInv'
<1> DEFINE Way == OnTheWay(SendOps)
<1> SUFFICES ASSUME ~Excused("wake_senders")', Sleepers(SendOps)' # {}
             PROVE  /\ receivers' = 0 => remaining_capacity' = 0
                    /\ remaining_capacity' <= Cardinality(Way')
  BY DEF SpaceInv
<1>a. ~Excused("wake_senders")
  BY NoExcuse DEF SignalInv
<1>b. ~SomeKilled /\ ~SomeKilled' /\ ~dropping /\ ~dropping'
  BY <1>a DEF Excused
<1>c. receivers # 0 => receivers' # 0
  BY <1>b, LastOne DEF SignalInv, Excused
<1>d. /\ Cardinality(Way) \in Nat /\ Cardinality(Way') \in Nat
      /\ IsFiniteSet(Way) /\ IsFiniteSet(Way')
  BY WayFinite
<1>e. /\ queue \in Seq(Item) /\ Len(queue) \in Nat /\ capacity \in Nat
      /\ remaining_capacity \in Nat
  BY LenProperties DEF SignalInv, TypeOK, CapacityInv, remaining_capacity
<1>f. ReceiveOps \cap SendOps = {} /\ SendOps # ReceiveOps
  BY DEF ReceiveOps, SendOps
<1>g. Sleepers(SendOps) # {} => /\ receivers = 0 => remaining_capacity = 0
                                /\ remaining_capacity <= Cardinality(Way)
  BY <1>a DEF SpaceInv
<1> HIDE DEF Way
<1>1. CASE Calm(SendOps)
  <2>1. Cardinality(Way) <= Cardinality(Way')
    BY <1>1, <1>d, FS_Subset DEF Calm, Way
  <2>2. Sleepers(SendOps) # {} /\ remaining_capacity' = remaining_capacity
    BY <1>1 DEF Calm, remaining_capacity
  <2> QED BY <1>c, <1>d, <1>e, <1>g, <2>1, <2>2
<1>2. CASE Forgoes(SendOps)
  <2>1. remaining_capacity' = 0
    BY <1>2, <1>f DEF Forgoes, Nothing, remaining_capacity
  <2> QED BY <1>d, <2>1
<1>3. CASE Deserted(SendOps)
  <2>1. remaining_capacity' = 0
    BY <1>3, <1>f, <1>g DEF Deserted, Peers, remaining_capacity
  <2> QED BY <1>d, <2>1
<1>4. ASSUME NEW t \in Thread, push(t), PushOne(t)
      PROVE  /\ receivers' = 0 => remaining_capacity' = 0
             /\ remaining_capacity' <= Cardinality(Way')
  <2>1. /\ Cardinality(Way') >= Cardinality(Way) - 1
        /\ Sleepers(SendOps)' \subseteq Sleepers(SendOps)
    BY <1>4, OneLeaves DEF PushOne, SignalInv, Way
  <2>2. item[t] \in Item
    BY <1>4 DEF PushOne, SignalInv, CallInv
  <2>3. Len(queue') = Len(queue) + 1
    BY <1>4, <1>e, <2>2, AppendProperties DEF PushOne, push_back
  <2>4. remaining_capacity # 0 /\ capacity' = capacity /\ receivers' = receivers
    BY <1>4, <1>e, ConstantsAssumption DEF PushOne, CapacityInv, counters
  <2>5. remaining_capacity' = remaining_capacity - 1
    BY <1>e, <2>3, <2>4 DEF remaining_capacity
  <2> QED BY <1>d, <1>e, <1>g, <2>1, <2>4, <2>5
<1>5. ASSUME NEW t \in Thread, pop(t), PopOne(t)
      PROVE  /\ receivers' = 0 => remaining_capacity' = 0
             /\ remaining_capacity' <= Cardinality(Way')
  <2>1. op[t] \in ReceiveOps /\ pc[t] = "pop"
    BY <1>5 DEF PopOne, SignalInv, MethodInv
  <2>2. t \notin Way
    BY <2>1, <1>f DEF OnTheWay, Way
  <2>3. signal(SendOps, t, "unlock")
    BY <1>5 DEF pop, PopOne
  <2>4. /\ Sleepers(SendOps) # {}
        /\ Cardinality(Way') = Cardinality(Way) + 1
    BY <1>5, <1>b, <2>1, <2>2, <2>3, SignalWakes DEF PopOne, SignalInv, Way
  <2>5. Len(queue') = Len(queue) - 1 /\ capacity' = capacity
    BY <1>5, <1>e, HeadTailProperties DEF PopOne
  <2>6. remaining_capacity' = remaining_capacity + 1
    BY <1>e, <2>5 DEF remaining_capacity
  <2>7. receivers' # 0
    BY <1>b, <1>c, <2>1, Counterparts
  <2> QED BY <1>d, <1>e, <1>g, <2>4, <2>6, <2>7
<1> QED BY <1>1, <1>2, <1>3, <1>4, <1>5, <1>b, <1>f, Kinds DEF SignalInv

\* No signal of a pop is lost: while a sender sleeps, every free slot has a
\* sender on its way to fill it, unless a process was killed with the signal.
\* For every set of methods, as long as the allocator lets the queue not grow:
\* a queue that grows under push_back gains room that is not signalled.
THEOREM NoStrandedSpaceHolds ==
    ASSUME Capacity = MaxCapacity
    PROVE  Spec => []NoStrandedSpace
<1>1. Init => SpaceInv
  BY DEF Init, SpaceInv, Sleepers
<1>2. SignalInv /\ CapacityInv /\ SpaceInv /\ [Next]_vars => SpaceInv'
  <2> SUFFICES ASSUME SignalInv, CapacityInv, SpaceInv, [Next]_vars
               PROVE  SpaceInv'
    OBVIOUS
  <2>1. CASE UNCHANGED vars
    BY <2>1 DEF SpaceInv, Excused, SomeKilled, Sleepers, OnTheWay,
       remaining_capacity, vars, store, counters, call
  <2> QED BY <2>1, SpaceStep
<1>3. SpaceInv => NoStrandedSpace
  BY DEF SpaceInv, Excused, NoStrandedSpace
<1> QED BY <1>1, <1>2, <1>3, SignalHolds, CapacityHolds, PTL DEF Spec
=============================================================================
