---------------------------- MODULE ChannelProofs ----------------------------
(***************************************************************************)
(* Theorems about the channel of channel.rs, for any number of threads and *)
(* processes, any values and any capacity.                                 *)
(***************************************************************************)
EXTENDS Channel, FiniteSetTheorems, SequenceTheorems, TLAPS

-----------------------------------------------------------------------------
(***************************************************************************)
(* The strengthening of TypeOK.                                            *)
(***************************************************************************)

\* A thread inside a method of Inner, or inside a drop that has not released
\* its reference yet, owns a handle; a sending method still has its value.
CallInv ==
    \A t \in Thread :
        /\ pc[t] \in InCall => op[t] # "none"
        /\ pc[t] \in InCall \cup Waking \cup {"drop_channel"}
              => handle[t] # "none"
        /\ pc[t] \in InCall \ {"unlock"} /\ op[t] \in SendOps
              => item[t] \in Item
        /\ pc[t] = "push" => op[t] \in SendOps

Owners == {t \in Local : handle[t] # "none"}

\* The reference counter of the creating process counts its handles.
RefInv == references = Cardinality(Owners)

-----------------------------------------------------------------------------
(***************************************************************************)
(* What a notification does to the threads: the notifier goes on at        *)
(* `next', and of the others only sleepers move, to take the mutex back.   *)
(***************************************************************************)
Notified(t, next) ==
    /\ pc' \in [Thread -> PC]
    /\ pc'[t] = next
    /\ \A u \in Thread \ {t} : \/ pc'[u] = pc[u]
                               \/ pc[u] = "asleep" /\ pc'[u] = "relock"

\* Condvar::signal only moves the notifier and at most one sleeper.
LEMMA SignalEffect ==
    ASSUME NEW methods, NEW t \in Thread, NEW next \in PC,
           pc \in [Thread -> PC], pc[t] # "asleep",
           signal(methods, t, next)
    PROVE  Notified(t, next)
<1>1. "relock" \in PC
  BY DEF PC, InCall, Blocked
<1> QED
  BY <1>1 DEF signal, Notified, Sleepers

\* Condvar::broadcast only moves the notifier and sleepers.
LEMMA BroadcastEffect ==
    ASSUME NEW methods, NEW t \in Thread, NEW next \in PC,
           pc \in [Thread -> PC], broadcast(methods, t, next)
    PROVE  Notified(t, next)
<1>1. "relock" \in PC
  BY DEF PC, InCall, Blocked
<1> QED
  BY <1>1 DEF broadcast, Notified, Sleepers

USE DEF PC, InCall, Blocked, Critical, Waking, Closing, Killed, KilledInWait

\* A kill stops threads and changes nothing else; only a thread that was
\* blocked in a wait is still counted there.
Stopped ==
    /\ pc' \in [Thread -> PC]
    /\ \A t \in Thread : \/ pc'[t] = pc[t]
                         \/ pc'[t] = "dead" /\ pc[t] \notin Killed
                         \/ pc'[t] \in KilledInWait /\ pc[t] \in Blocked
    /\ UNCHANGED <<store, lock, counters, memory, handle, call>>

LEMMA CrashEffect ==
    ASSUME pc \in [Thread -> PC], NEW P \in Processes, Crash(P)
    PROVE  Stopped
<1>1. PICK place \in [P -> Killed] :
             /\ \A t \in P : place[t] \in KilledAt(pc[t])
             /\ pc' = [t \in Thread |-> IF t \in P THEN place[t] ELSE pc[t]]
  BY DEF Crash
<1>2. pc' \in [Thread -> PC]
  BY <1>1
<1>3. ASSUME NEW t \in Thread
      PROVE  \/ pc'[t] = pc[t]
             \/ pc'[t] = "dead" /\ pc[t] \notin Killed
             \/ pc'[t] \in KilledInWait /\ pc[t] \in Blocked
  <2>1. CASE t \notin P
    BY <1>1, <2>1
  <2>2. CASE t \in P
    <3>1. pc'[t] = place[t] /\ place[t] \in KilledAt(pc[t]) /\ pc[t] \notin Killed
      BY <1>1, <2>2 DEF Crash
    <3> QED BY <3>1 DEF KilledAt
  <2> QED BY <2>1, <2>2
<1> QED BY <1>2, <1>3 DEF Crash, Stopped

\* A transfer that succeeds, and one that does not.
PopOne(t) ==
    /\ pc[t] = "pop" /\ inner = "live" /\ queue # <<>>
    /\ queue' = Tail(queue)
    /\ received' = Append(received, Head(queue))
    /\ Notified(t, "unlock")
    /\ ret' = [ret EXCEPT ![t] = "ok"]
    /\ UNCHANGED <<capacity, sent, counters, memory, lock, handle, op, item>>

PopNone(t) ==
    /\ pc[t] = "pop" /\ inner = "live" /\ queue = <<>>
    /\ \/ op[t] = "receive" /\ Finish(t, "disconnected") /\ UNCHANGED lock
       \/ op[t] = "try_receive_once" /\ Goto(t, "decide") /\ UNCHANGED lock
       \/ op[t] = "try_receive_until" /\ Panic(t)
    /\ UNCHANGED <<store, counters, memory, handle>>

PushOne(t) ==
    /\ pc[t] = "push" /\ inner = "live"
    /\ push_back(item[t])
    /\ \/ remaining_capacity # 0 /\ UNCHANGED capacity
       \/ remaining_capacity = 0 /\ capacity' \in (capacity + 1)..MaxCapacity
    /\ Notified(t, "unlock")
    /\ ret' = [ret EXCEPT ![t] = "ok"]
    /\ item' = [item EXCEPT ![t] = NoItem]
    /\ UNCHANGED <<received, counters, memory, lock, handle, op>>

PushFails(t) ==
    /\ pc[t] = "push" /\ inner = "live"
    /\ Panic(t)
    /\ UNCHANGED <<store, counters, memory, handle>>

LEMMA Transfers ==
    ASSUME TypeOK, NEW t \in Thread
    PROVE  /\ pop(t) => PopOne(t) \/ PopNone(t)
           /\ push(t) => PushOne(t) \/ PushFails(t)
<1>1. pop(t) => PopOne(t) \/ PopNone(t)
  BY SignalEffect DEF TypeOK, pop, PopOne, PopNone, Panic, Unwind, store
<1>2. push(t) => PushOne(t) \/ PushFails(t)
  BY SignalEffect DEF TypeOK, push, PushOne, PushFails, Panic, Unwind, store
<1> QED BY <1>1, <1>2

\* The broadcasts of Sender::drop, Receiver::drop and Channel::drop.
LEMMA Broadcasts ==
    ASSUME TypeOK, NEW t \in Thread
    PROVE  /\ WakePeers(t) => Notified(t, "drop_channel")
           /\ NotifyReceivers(t) => Notified(t, "notify_senders")
           /\ NotifySenders(t) => Notified(t, "drain")
<1> USE DEF TypeOK
<1>1. WakePeers(t) => Notified(t, "drop_channel")
  BY BroadcastEffect DEF WakePeers
<1>2. NotifyReceivers(t) => Notified(t, "notify_senders")
  <2>1. CASE orphans.receivers # 0
    BY <2>1, BroadcastEffect DEF NotifyReceivers
  <2>2. CASE orphans.receivers = 0
    BY <2>2 DEF NotifyReceivers, Notified
  <2> QED BY <2>1, <2>2
<1>3. NotifySenders(t) => Notified(t, "drain")
  <2>1. CASE orphans.senders # 0
    BY <2>1, BroadcastEffect DEF NotifySenders
  <2>2. CASE orphans.senders = 0
    BY <2>2 DEF NotifySenders, Notified
  <2> QED BY <2>1, <2>2
<1> QED BY <1>1, <1>2, <1>3

-----------------------------------------------------------------------------
(***************************************************************************)
(* CallInv                                                                 *)
(***************************************************************************)
LEMMA CallInit == Init => CallInv
BY DEF Init, CallInv

LEMMA CallStep == TypeOK /\ CallInv /\ Next => CallInv'
<1> SUFFICES ASSUME TypeOK, CallInv, Next
             PROVE  CallInv'
  OBVIOUS
<1> USE DEF TypeOK, CallInv, Goto, Return, Finish, Panic, Unwind, call, memory,
            counters, store, ReceiveOps, SendOps, Timed, Once
<1>1. ASSUME NEW t \in Thread, Begin(t) PROVE CallInv'
  <2>1. CASE clone(t) \/ make_sender(t) \/ make_receiver(t)
    BY <2>1 DEF clone, make_sender, make_receiver
  <2>2. CASE CallReceive(t)
    BY <2>2 DEF CallReceive
  <2>3. CASE CallSend(t)
    BY <2>3 DEF CallSend
  <2>4. CASE DropChannel(t)
    BY <2>4 DEF DropChannel
  <2>5. CASE DropSender(t) \/ DropReceiver(t)
    BY <2>5 DEF DropSender, DropReceiver
  <2> QED BY <1>1, <2>1, <2>2, <2>3, <2>4, <2>5 DEF Begin
<1>2. ASSUME NEW t \in Thread, MethodStep(t) PROVE CallInv'
  <2>1. CASE CheckDropping(t) \/ LockTimeout(t)
    BY <2>1 DEF CheckDropping, LockTimeout
  <2>2. CASE AcquireLock(t) \/ Relock(t)
    BY <2>2 DEF AcquireLock, AfterLock, Relock
  <2>3. CASE EvalReady(t) \/ EvalExpired(t)
    BY <2>3 DEF EvalReady, EvalExpired, AfterWait
  <2>4. CASE CondWait(t)
    BY <2>4 DEF CondWait
  <2>5. CASE CheckRoom(t) \/ CheckPeers(t)
    BY <2>5 DEF CheckRoom, CheckPeers
  <2>6. CASE pop(t)
    <3>1. CASE PopOne(t)
      BY <3>1 DEF PopOne, Notified
    <3>2. CASE PopNone(t)
      BY <3>2 DEF PopNone
    <3> QED BY <2>6, <3>1, <3>2, Transfers
  <2>7. CASE push(t)
    <3>1. CASE PushOne(t)
      BY <3>1 DEF PushOne, Notified
    <3>2. CASE PushFails(t)
      BY <3>2 DEF PushFails
    <3> QED BY <2>7, <3>1, <3>2, Transfers
  <2>8. CASE Unlock(t)
    BY <2>8 DEF Unlock
  <2>9. CASE LockPanics(t)
    BY <2>9 DEF LockPanics
  <2>10. CASE EvalPast(t)
    BY <2>10 DEF EvalPast, AfterWait
  <2> QED BY <1>2, <2>1, <2>2, <2>3, <2>4, <2>5, <2>6, <2>7, <2>8, <2>9, <2>10
          DEF MethodStep
<1>3. ASSUME NEW t \in Thread, DropStep(t) PROVE CallInv'
  <2>1. CASE WakePeers(t)
    BY <2>1, Broadcasts DEF WakePeers, Notified
  <2>2. CASE Release(t)
    BY <2>2 DEF Release
  <2>3. CASE StoreDropping(t) \/ SwapReceivers(t) \/ SwapSenders(t)
    BY <2>3 DEF StoreDropping, SwapReceivers, SwapSenders
  <2>4. CASE NotifyReceivers(t)
    BY <2>4, Broadcasts DEF NotifyReceivers, Notified
  <2>5. CASE NotifySenders(t)
    BY <2>5, Broadcasts DEF NotifySenders, Notified
  <2>6. CASE Drain(t) \/ Free(t) \/ DestroyCondvars(t)
    BY <2>6 DEF Drain, Free, DestroyCondvars
  <2> QED BY <1>3, <2>1, <2>2, <2>3, <2>4, <2>5, <2>6 DEF DropStep
<1>4. ASSUME NEW t \in Thread, SpuriousWake(t) \/ Expire(t) \/ UseAfterFree(t)
      PROVE  CallInv'
  BY <1>4 DEF SpuriousWake, Expire, UseAfterFree
<1>5. ASSUME NEW P \in Processes, Crash(P) PROVE CallInv'
  BY <1>5, CrashEffect DEF Stopped
<1> QED BY <1>1, <1>2, <1>3, <1>4, <1>5 DEF Next

-----------------------------------------------------------------------------
(***************************************************************************)
(* RefInv                                                                  *)
(***************************************************************************)

\* The owners in the creating process are a finite set, and there is one as
\* long as the counter is not zero.
LEMMA OwnersFinite ==
    ASSUME RefInv
    PROVE  /\ IsFiniteSet(Owners) /\ references \in Nat
           /\ references = 0 <=> Owners = {}
BY ConstantsAssumption, FS_Subset, FS_CardinalityType, FS_EmptySet
   DEF Owners, RefInv

\* Handles and the reference counter change only where a handle is made, is
\* turned into the Channel it contains, or is released.
HandleAction(t) ==
    \/ clone(t) \/ make_sender(t) \/ make_receiver(t)
    \/ DropSender(t) \/ DropReceiver(t) \/ Release(t)

LEMMA HandleFrame ==
    Next => \/ UNCHANGED <<handle, references>>
            \/ \E t \in Thread : HandleAction(t)
<1> SUFFICES ASSUME Next, ~\E t \in Thread : HandleAction(t)
             PROVE  UNCHANGED <<handle, references>>
  OBVIOUS
<1> USE DEF HandleAction, memory, Panic, Unwind
<1>1. ASSUME NEW t \in Thread, Begin(t) PROVE UNCHANGED <<handle, references>>
  BY <1>1 DEF Begin, CallReceive, CallSend, DropChannel
<1>2. ASSUME NEW t \in Thread, MethodStep(t)
      PROVE  UNCHANGED <<handle, references>>
  <2>1. CASE pop(t) \/ push(t)
    BY <2>1 DEF pop, push
  <2>2. CASE ~(pop(t) \/ push(t))
    BY <1>2, <2>2 DEF MethodStep, CheckDropping, AcquireLock, LockTimeout,
       LockPanics, EvalReady, EvalPast, Panic, Unwind, CondWait, Relock,
       EvalExpired, CheckRoom, CheckPeers, Unlock
  <2> QED BY <2>1, <2>2
<1>3. ASSUME NEW t \in Thread, DropStep(t)
      PROVE  UNCHANGED <<handle, references>>
  BY <1>3 DEF DropStep, WakePeers, StoreDropping, SwapReceivers, SwapSenders,
     NotifyReceivers, NotifySenders, Drain, Free, DestroyCondvars
<1>4. ASSUME NEW t \in Thread, SpuriousWake(t) \/ Expire(t) \/ UseAfterFree(t)
      PROVE  UNCHANGED <<handle, references>>
  BY <1>4 DEF SpuriousWake, Expire, UseAfterFree
<1>5. ASSUME NEW P \in Processes, Crash(P)
      PROVE  UNCHANGED <<handle, references>>
  BY <1>5 DEF Crash
<1> QED BY <1>1, <1>2, <1>3, <1>4, <1>5 DEF Next

LEMMA RefInit == Init => RefInv
<1> SUFFICES ASSUME Init PROVE RefInv
  OBVIOUS
<1>1. Owners = {Main}
  BY ConstantsAssumption DEF Init, Owners, Thread
<1> QED BY <1>1, FS_Singleton DEF Init, RefInv

LEMMA RefStep == TypeOK /\ CallInv /\ RefInv /\ Next => RefInv'
<1> SUFFICES ASSUME TypeOK, CallInv, RefInv, Next
             PROVE  RefInv'
  OBVIOUS
<1>1. CASE UNCHANGED <<handle, references>>
  BY <1>1 DEF RefInv, Owners
<1>2. ASSUME NEW t \in Thread, HandleAction(t) PROVE RefInv'
  <2> USE DEF TypeOK, Thread
  <2>1. CASE clone(t) \/ make_sender(t) \/ make_receiver(t)
    <3>1. CASE t \in Local
      <4>1. Owners' = Owners \cup {t} /\ t \notin Owners
        BY <2>1, <3>1 DEF clone, make_sender, make_receiver, Owners
      <4>2. references' = references + 1
        BY <2>1, <3>1 DEF clone, make_sender, make_receiver, increase
      <4> QED BY <4>1, <4>2, OwnersFinite, FS_AddElement DEF RefInv
    <3>2. CASE t \notin Local
      <4>1. Owners' = Owners /\ references' = references
        BY <2>1, <3>2
           DEF clone, make_sender, make_receiver, increase, Owners
      <4> QED BY <4>1 DEF RefInv
    <3> QED BY <3>1, <3>2
  <2>2. CASE DropSender(t) \/ DropReceiver(t)
    <3>1. Owners' = Owners /\ references' = references
      BY <2>2 DEF DropSender, DropReceiver, Owners, memory
    <3> QED BY <3>1 DEF RefInv
  <2>3. CASE Release(t)
    <3>1. CASE t \in Local
      <4>1. Owners' = Owners \ {t} /\ t \in Owners
        BY <2>3, <3>1 DEF Release, Owners, CallInv
      <4>2. references' = references - 1
        BY <2>3, <3>1, ConstantsAssumption DEF Release
      <4> QED BY <4>1, <4>2, OwnersFinite, FS_RemoveElement DEF RefInv
    <3>2. CASE t \notin Local
      <4>1. Owners' = Owners /\ references' = references
        BY <2>3, <3>2 DEF Release, Owners
      <4> QED BY <4>1 DEF RefInv
    <3> QED BY <3>1, <3>2
  <2> QED BY <1>2, <2>1, <2>2, <2>3 DEF HandleAction
<1> QED BY <1>1, <1>2, HandleFrame

-----------------------------------------------------------------------------
(***************************************************************************)
(* TypeOK                                                                  *)
(***************************************************************************)
LEMMA TypeInit == Init => TypeOK
<1> SUFFICES ASSUME Init PROVE TypeOK
  OBVIOUS
<1>1. orphans \in [receivers : Nat, senders : Nat]
  BY DEF Init
<1>2. lock \in Thread \cup {NoThread} /\ capacity \in Nat
  BY ConstantsAssumption DEF Init
<1>3. /\ handle \in [Thread -> {"none", "channel", "sender", "receiver"}]
      /\ pc \in [Thread -> PC]
      /\ op \in [Thread -> ReceiveOps \cup SendOps \cup {"none"}]
      /\ item \in [Thread -> Item \cup {NoItem}]
      /\ ret \in [Thread -> {"none", "ok", "timed_out", "disconnected"}]
  BY DEF Init
<1>4. queue \in Seq(Item) /\ sent \in Seq(Item) /\ received \in Seq(Item)
  BY EmptySeq DEF Init
<1> QED BY <1>1, <1>2, <1>3, <1>4 DEF Init, TypeOK

LEMMA TypeStep == TypeOK /\ CallInv /\ RefInv /\ Next => TypeOK'
<1> SUFFICES ASSUME TypeOK, CallInv, RefInv, Next
             PROVE  TypeOK'
  OBVIOUS
<1> USE ConstantsAssumption
    DEF TypeOK, Goto, Return, Finish, Panic, Unwind, call, memory, counters, store
<1>1. ASSUME NEW t \in Thread, Begin(t) PROVE TypeOK'
  <2>1. CASE clone(t) \/ make_sender(t) \/ make_receiver(t)
    <3>1. references' \in Nat
      BY <2>1 DEF clone, make_sender, make_receiver, increase
    <3>2. senders' \in Nat /\ receivers' \in Nat
      BY <2>1 DEF clone, make_sender, make_receiver
    <3> QED BY <2>1, <3>1, <3>2 DEF clone, make_sender, make_receiver
  <2>2. CASE CallReceive(t)
    BY <2>2 DEF CallReceive
  <2>3. CASE CallSend(t)
    BY <2>3 DEF CallSend
  <2>4. CASE DropChannel(t)
    BY <2>4 DEF DropChannel
  <2>5. CASE DropSender(t) \/ DropReceiver(t)
    <3>1. senders' \in Nat /\ receivers' \in Nat
      BY <2>5 DEF DropSender, DropReceiver, atomic_checked_sub
    <3> QED BY <2>5, <3>1 DEF DropSender, DropReceiver
  <2> QED BY <1>1, <2>1, <2>2, <2>3, <2>4, <2>5 DEF Begin
<1>2. ASSUME NEW t \in Thread, MethodStep(t) PROVE TypeOK'
  <2>1. CASE CheckDropping(t) \/ LockTimeout(t)
    <3>1. CASE Return(t)
      BY <2>1, <3>1 DEF CheckDropping, LockTimeout
    <3>2. CASE ~Return(t)
      BY <2>1, <3>2 DEF CheckDropping, LockTimeout
    <3> QED BY <3>1, <3>2
  <2>2. CASE AcquireLock(t) \/ Relock(t)
    <3>1. /\ \E next \in PC : Goto(t, next)
          /\ lock' = t /\ UNCHANGED <<store, counters, memory, handle>>
      BY <2>2 DEF AcquireLock, AfterLock, Relock
    <3> QED BY <3>1
  <2>3. CASE EvalReady(t) \/ EvalExpired(t)
    <3>1. \/ Goto(t, "wait") \/ Goto(t, "pop") \/ Goto(t, "decide")
          \/ Finish(t, "ok") \/ Finish(t, "timed_out")
      BY <2>3 DEF EvalReady, EvalExpired, AfterWait
    <3>2. UNCHANGED <<store, lock, counters, memory, handle>>
      BY <2>3 DEF EvalReady, EvalExpired
    <3> QED BY <3>1, <3>2
  <2>4. CASE CondWait(t)
    BY <2>4 DEF CondWait
  <2>5. CASE CheckRoom(t) \/ CheckPeers(t)
    <3>1. \/ Goto(t, "decide") \/ Goto(t, "pop") \/ Goto(t, "push")
          \/ Finish(t, "timed_out") \/ Finish(t, "disconnected")
      BY <2>5 DEF CheckRoom, CheckPeers
    <3>2. UNCHANGED <<store, lock, counters, memory, handle>>
      BY <2>5 DEF CheckRoom, CheckPeers
    <3> QED BY <3>1, <3>2
  <2>6. CASE pop(t)
    <3>1. CASE PopOne(t)
      <4>1. queue' \in Seq(Item) /\ received' \in Seq(Item)
        BY <3>1, HeadTailProperties DEF PopOne
      <4> QED BY <3>1, <4>1 DEF PopOne, Notified
    <3>2. CASE PopNone(t)
      BY <3>2 DEF PopNone
    <3> QED BY <2>6, <3>1, <3>2, Transfers
  <2>7. CASE push(t)
    <3>1. CASE PushOne(t)
      <4>1. item[t] \in Item
        BY <3>1 DEF PushOne, CallInv
      <4>2. queue' \in Seq(Item) /\ sent' \in Seq(Item)
        BY <3>1, <4>1 DEF PushOne, push_back
      <4>3. capacity' \in Nat
        BY <3>1 DEF PushOne
      <4> QED BY <3>1, <4>2, <4>3 DEF PushOne, Notified
    <3>2. CASE PushFails(t)
      BY <3>2 DEF PushFails
    <3> QED BY <2>7, <3>1, <3>2, Transfers
  <2>8. CASE Unlock(t)
    BY <2>8 DEF Unlock
  <2>9. CASE LockPanics(t)
    BY <2>9 DEF LockPanics
  <2>10. CASE EvalPast(t)
    BY <2>10 DEF EvalPast, AfterWait
  <2> QED BY <1>2, <2>1, <2>2, <2>3, <2>4, <2>5, <2>6, <2>7, <2>8, <2>9, <2>10
          DEF MethodStep
<1>3. ASSUME NEW t \in Thread, DropStep(t) PROVE TypeOK'
  <2>1. CASE WakePeers(t)
    <3>1. pc' \in [Thread -> PC]
      BY <2>1, Broadcasts DEF Notified
    <3> QED BY <2>1, <3>1 DEF WakePeers
  <2>2. CASE Release(t)
    <3>1. t \in Local => references # 0
      BY <2>2, OwnersFinite DEF Release, Owners, CallInv
    <3>2. references' \in Nat
      BY <2>2, <3>1 DEF Release
    <3> QED BY <2>2, <3>2 DEF Release
  <2>3. CASE StoreDropping(t) \/ SwapReceivers(t) \/ SwapSenders(t)
    <3>1. orphans' \in [receivers : Nat, senders : Nat]
      BY <2>3 DEF StoreDropping, SwapReceivers, SwapSenders
    <3>2. senders' \in Nat /\ receivers' \in Nat
      BY <2>3 DEF StoreDropping, SwapReceivers, SwapSenders
    <3> QED BY <2>3, <3>1, <3>2 DEF StoreDropping, SwapReceivers, SwapSenders
  <2>4. CASE NotifyReceivers(t)
    BY <2>4, Broadcasts DEF NotifyReceivers, Notified
  <2>5. CASE NotifySenders(t)
    BY <2>5, Broadcasts DEF NotifySenders, Notified
  <2>6. CASE Drain(t) \/ Free(t) \/ DestroyCondvars(t)
    BY <2>6 DEF Drain, Free, DestroyCondvars
  <2> QED BY <1>3, <2>1, <2>2, <2>3, <2>4, <2>5, <2>6 DEF DropStep
<1>4. ASSUME NEW t \in Thread, SpuriousWake(t) \/ Expire(t) \/ UseAfterFree(t)
      PROVE  TypeOK'
  BY <1>4 DEF SpuriousWake, Expire, UseAfterFree
<1>5. ASSUME NEW P \in Processes, Crash(P) PROVE TypeOK'
  BY <1>5, CrashEffect DEF Stopped
<1> QED BY <1>1, <1>2, <1>3, <1>4, <1>5 DEF Next

\* Every variable keeps its type: in particular PerProcessReferences::decrease
\* never takes the counter below zero, and push never sends a value that its
\* method no longer has.
THEOREM TypeCorrect == Spec => [](TypeOK /\ CallInv /\ RefInv)
<1>1. Init => TypeOK /\ CallInv /\ RefInv
  BY TypeInit, CallInit, RefInit
<1>2. TypeOK /\ CallInv /\ RefInv /\ [Next]_vars
         => (TypeOK /\ CallInv /\ RefInv)'
  <2>1. CASE UNCHANGED vars
    BY <2>1 DEF TypeOK, CallInv, RefInv, Owners, vars, store, counters,
                memory, call
  <2> QED BY <2>1, TypeStep, CallStep, RefStep
<1> QED BY <1>1, <1>2, PTL DEF Spec

-----------------------------------------------------------------------------
(***************************************************************************)
(* LockDiscipline                                                          *)
(***************************************************************************)
LEMMA LockInit == Init => LockDiscipline
BY DEF Init, LockDiscipline

LEMMA LockStep == TypeOK /\ LockDiscipline /\ Next => LockDiscipline'
<1> SUFFICES ASSUME TypeOK, LockDiscipline, Next
             PROVE  LockDiscipline'
  OBVIOUS
<1> USE ConstantsAssumption
    DEF TypeOK, LockDiscipline, Goto, Return, Finish, Panic, Unwind
<1>1. ASSUME NEW t \in Thread, Begin(t) PROVE LockDiscipline'
  BY <1>1 DEF Begin, clone, make_sender, make_receiver, CallReceive, CallSend,
     DropChannel, DropSender, DropReceiver
<1>2. ASSUME NEW t \in Thread, MethodStep(t) PROVE LockDiscipline'
  <2>1. CASE CheckDropping(t) \/ LockTimeout(t)
    BY <2>1 DEF CheckDropping, LockTimeout
  <2>2. CASE AcquireLock(t) \/ Relock(t)
    BY <2>2 DEF AcquireLock, AfterLock, Relock
  <2>3. CASE EvalReady(t) \/ EvalExpired(t)
    BY <2>3 DEF EvalReady, EvalExpired, AfterWait
  <2>4. CASE CondWait(t)
    BY <2>4 DEF CondWait
  <2>5. CASE CheckRoom(t) \/ CheckPeers(t)
    BY <2>5 DEF CheckRoom, CheckPeers
  <2>6. CASE pop(t)
    BY <2>6, Transfers DEF PopOne, PopNone, Notified
  <2>7. CASE push(t)
    BY <2>7, Transfers DEF PushOne, PushFails, Notified
  <2>8. CASE Unlock(t)
    BY <2>8 DEF Unlock
  <2>9. CASE LockPanics(t)
    BY <2>9 DEF LockPanics
  <2>10. CASE EvalPast(t)
    BY <2>10 DEF EvalPast, AfterWait
  <2> QED BY <1>2, <2>1, <2>2, <2>3, <2>4, <2>5, <2>6, <2>7, <2>8, <2>9, <2>10
          DEF MethodStep
<1>3. ASSUME NEW t \in Thread, DropStep(t) PROVE LockDiscipline'
  <2>1. CASE WakePeers(t) \/ NotifyReceivers(t) \/ NotifySenders(t)
    BY <2>1, Broadcasts DEF WakePeers, NotifyReceivers, NotifySenders, Notified
  <2>2. CASE Release(t)
    BY <2>2 DEF Release
  <2>3. CASE StoreDropping(t) \/ SwapReceivers(t) \/ SwapSenders(t)
             \/ Drain(t) \/ Free(t) \/ DestroyCondvars(t)
    BY <2>3 DEF StoreDropping, SwapReceivers, SwapSenders, Drain, Free,
                DestroyCondvars
  <2> QED BY <1>3, <2>1, <2>2, <2>3 DEF DropStep
<1>4. ASSUME NEW t \in Thread, SpuriousWake(t) \/ Expire(t) \/ UseAfterFree(t)
      PROVE  LockDiscipline'
  BY <1>4 DEF SpuriousWake, Expire, UseAfterFree
<1>5. ASSUME NEW P \in Processes, Crash(P) PROVE LockDiscipline'
  BY <1>5, CrashEffect DEF Stopped
<1> QED BY <1>1, <1>2, <1>3, <1>4, <1>5 DEF Next

\* No thread touches the queue without the mutex: neither after a wait on a
\* condition variable gave the mutex up and took it back, nor after a panic, a
\* crash or the destruction of the channel in the middle of a method.
THEOREM LockDisciplineHolds == Spec => []LockDiscipline
<1>1. TypeOK /\ LockDiscipline /\ [Next]_vars => LockDiscipline'
  <2>1. CASE UNCHANGED vars
    BY <2>1 DEF LockDiscipline, vars
  <2> QED BY <2>1, LockStep
<1> QED BY LockInit, <1>1, TypeCorrect, PTL DEF Spec

-----------------------------------------------------------------------------
(***************************************************************************)
(* The histories                                                           *)
(***************************************************************************)

\* What was popped, followed by what is queued, is what was pushed.
HistoryInv == sent = received \o queue

\* The queue changes only in a transfer that succeeds.
LEMMA StoreFrame ==
    TypeOK /\ Next => \/ UNCHANGED store
                      \/ \E t \in Thread : PopOne(t) \/ PushOne(t)
<1> SUFFICES ASSUME TypeOK, Next, ~\E t \in Thread : PopOne(t) \/ PushOne(t)
             PROVE  UNCHANGED store
  OBVIOUS
<1>1. ASSUME NEW t \in Thread, Begin(t) PROVE UNCHANGED store
  BY <1>1 DEF Begin, clone, make_sender, make_receiver, CallReceive, CallSend,
     DropChannel, DropSender, DropReceiver
<1>2. ASSUME NEW t \in Thread, MethodStep(t) PROVE UNCHANGED store
  <2>1. CASE pop(t) \/ push(t)
    BY <2>1, Transfers DEF PopNone, PushFails
  <2>2. CASE ~(pop(t) \/ push(t))
    BY <1>2, <2>2 DEF MethodStep, CheckDropping, AcquireLock, LockTimeout,
       LockPanics, EvalReady, EvalPast, Panic, Unwind, CondWait, Relock,
       EvalExpired, CheckRoom, CheckPeers, Unlock
  <2> QED BY <2>1, <2>2
<1>3. ASSUME NEW t \in Thread, DropStep(t) PROVE UNCHANGED store
  BY <1>3 DEF DropStep, WakePeers, Release, StoreDropping, SwapReceivers,
     SwapSenders, NotifyReceivers, NotifySenders, Drain, Free, DestroyCondvars
<1>4. ASSUME NEW t \in Thread, SpuriousWake(t) \/ Expire(t) \/ UseAfterFree(t)
      PROVE  UNCHANGED store
  BY <1>4 DEF SpuriousWake, Expire, UseAfterFree
<1>5. ASSUME NEW P \in Processes, Crash(P) PROVE UNCHANGED store
  BY <1>5 DEF Crash
<1> QED BY <1>1, <1>2, <1>3, <1>4, <1>5 DEF Next

\* Moving the head of one sequence to the end of another keeps their
\* concatenation.
LEMMA MoveHead ==
    ASSUME NEW S, NEW r \in Seq(S), NEW q \in Seq(S), q # <<>>
    PROVE  Append(r, Head(q)) \o Tail(q) = r \o q
<1>1. Append(r, Head(q)) \in Seq(S) /\ Tail(q) \in Seq(S)
  BY HeadTailProperties
<1>2. /\ Append(r, Head(q)) \o Tail(q) \in Seq(S)
      /\ r \o q \in Seq(S)
      /\ Len(Append(r, Head(q)) \o Tail(q)) = Len(r \o q)
  BY <1>1, ConcatProperties, HeadTailProperties, EmptySeq, LenProperties
<1>3. ASSUME NEW i \in 1..Len(r \o q)
      PROVE  (Append(r, Head(q)) \o Tail(q))[i] = (r \o q)[i]
  BY <1>1, <1>2, HeadTailProperties, LenProperties
<1> QED BY <1>2, <1>3, SeqEqual

\* The histories are those of the queue, whatever crashes or times out.
LEMMA HistoryHolds == Spec => []HistoryInv
<1>1. Init => HistoryInv
  BY DEF Init, HistoryInv
<1>2. TypeOK /\ CallInv /\ HistoryInv /\ [Next]_vars => HistoryInv'
  <2> SUFFICES ASSUME TypeOK, CallInv, HistoryInv, [Next]_vars
               PROVE  HistoryInv'
    OBVIOUS
  <2>1. CASE UNCHANGED store
    BY <2>1 DEF store, HistoryInv
  <2>2. ASSUME NEW t \in Thread, PopOne(t) PROVE HistoryInv'
    <3>1. Append(received, Head(queue)) \o Tail(queue) = received \o queue
      BY <2>2, MoveHead DEF TypeOK, PopOne
    <3> QED BY <2>2, <3>1 DEF PopOne, HistoryInv
  <2>3. ASSUME NEW t \in Thread, PushOne(t) PROVE HistoryInv'
    <3>1. item[t] \in Item
      BY <2>3 DEF PushOne, CallInv
    <3>2. received \in Seq(Item) /\ queue \in Seq(Item)
      BY DEF TypeOK
    <3>3. /\ Append(received \o queue, item[t]) \in Seq(Item)
          /\ received \o Append(queue, item[t]) \in Seq(Item)
          /\ Len(Append(received \o queue, item[t]))
               = Len(received \o Append(queue, item[t]))
      BY <3>1, <3>2, ConcatProperties, LenProperties
    <3>4. ASSUME NEW k \in 1..Len(received \o Append(queue, item[t]))
          PROVE  Append(received \o queue, item[t])[k]
                   = (received \o Append(queue, item[t]))[k]
      BY <3>1, <3>2, ConcatProperties, LenProperties
    <3>5. Append(received \o queue, item[t]) = received \o Append(queue, item[t])
      BY <3>3, <3>4, SeqEqual
    <3> QED BY <2>3, <3>5 DEF PushOne, push_back, HistoryInv
  <2> QED BY <2>1, <2>2, <2>3, StoreFrame DEF vars
<1> QED BY <1>1, <1>2, TypeCorrect, PTL DEF Spec

-----------------------------------------------------------------------------
(***************************************************************************)
(* ImplementsFifo                                                          *)
(***************************************************************************)

\* A thread that is in no method of Inner has no value to send: a call that
\* returned, or unwound, has given its value back or sent it.
OfferInv ==
    \A t \in Thread : pc[t] \notin InCall \cup Killed \cup {"ub"}
                         => item[t] = NoItem

\* A step that ends a call without a transfer.
GivenUp(t) ==
    /\ pc[t] \in InCall
    /\ item' = [item EXCEPT ![t] = NoItem]
    /\ \A u \in Thread \ {t} : pc'[u] = pc[u]
    /\ UNCHANGED <<store, inner>>

\* A step that Fifo does not see: no thread leaves a method in it.
Hidden ==
    /\ UNCHANGED <<store, inner, item>>
    /\ \A u \in Thread : pc'[u] \notin InCall \cup Killed \cup {"ub"}
                            => pc[u] \notin InCall \cup Killed \cup {"ub"}

\* Every step is hidden, gives a value up, or is one of the four that Fifo
\* knows.
LEMMA OfferFrame ==
    TypeOK /\ Next =>
        \/ Hidden
        \/ \E t \in Thread : \/ GivenUp(t) \/ CallSend(t) \/ PopOne(t)
                             \/ PushOne(t) \/ Free(t)
<1> SUFFICES ASSUME TypeOK, Next,
                    ~\E t \in Thread : \/ GivenUp(t) \/ CallSend(t)
                                        \/ PopOne(t) \/ PushOne(t) \/ Free(t)
             PROVE  Hidden
  OBVIOUS
<1> USE DEF TypeOK, Hidden, GivenUp, Goto, Return, Finish, memory, call
<1>1. ASSUME NEW t \in Thread, Begin(t) PROVE Hidden
  BY <1>1 DEF Begin, clone, make_sender, make_receiver, CallReceive,
     DropChannel, DropSender, DropReceiver
<1>2. ASSUME NEW t \in Thread, MethodStep(t) PROVE Hidden
  <2>1. CASE pop(t)
    BY <2>1, Transfers DEF PopNone, Panic, Unwind
  <2>2. CASE push(t)
    BY <2>2, Transfers DEF PushFails, Panic, Unwind
  <2>3. CASE CheckDropping(t) \/ LockTimeout(t) \/ Unlock(t)
    BY <2>3 DEF CheckDropping, LockTimeout, Unlock
  <2>4. CASE AcquireLock(t) \/ Relock(t) \/ CondWait(t)
    BY <2>4 DEF AcquireLock, AfterLock, Relock, CondWait
  <2>5. CASE EvalReady(t) \/ EvalExpired(t)
    BY <2>5 DEF EvalReady, EvalExpired, AfterWait
  <2>6. CASE CheckRoom(t) \/ CheckPeers(t)
    BY <2>6 DEF CheckRoom, CheckPeers
  <2>7. CASE LockPanics(t) \/ EvalPast(t)
    BY <2>7 DEF LockPanics, EvalPast, AfterWait, Panic, Unwind
  <2> QED BY <1>2, <2>1, <2>2, <2>3, <2>4, <2>5, <2>6, <2>7 DEF MethodStep
<1>3. ASSUME NEW t \in Thread, DropStep(t) PROVE Hidden
  <2>1. CASE WakePeers(t) \/ NotifyReceivers(t) \/ NotifySenders(t)
    BY <2>1, Broadcasts
       DEF Notified, WakePeers, NotifyReceivers, NotifySenders
  <2>2. CASE \/ Release(t) \/ StoreDropping(t) \/ SwapReceivers(t)
             \/ SwapSenders(t) \/ Drain(t) \/ DestroyCondvars(t)
    BY <2>2 DEF Release, StoreDropping, SwapReceivers, SwapSenders, Drain,
       DestroyCondvars
  <2> QED BY <1>3, <2>1, <2>2 DEF DropStep
<1>4. ASSUME NEW t \in Thread, SpuriousWake(t) \/ Expire(t) \/ UseAfterFree(t)
      PROVE  Hidden
  BY <1>4 DEF SpuriousWake, Expire, UseAfterFree
<1>5. ASSUME NEW P \in Processes, Crash(P) PROVE Hidden
  BY <1>5 DEF Crash
<1> QED BY <1>1, <1>2, <1>3, <1>4, <1>5 DEF Next

LEMMA OfferHolds == Spec => []OfferInv
<1>1. Init => OfferInv
  BY DEF Init, OfferInv
<1>2. TypeOK /\ OfferInv /\ [Next]_vars => OfferInv'
  <2> SUFFICES ASSUME TypeOK, OfferInv, [Next]_vars PROVE OfferInv'
    OBVIOUS
  <2> USE DEF TypeOK, OfferInv
  <2>1. CASE UNCHANGED vars
    BY <2>1 DEF vars, call
  <2>2. CASE Hidden
    BY <2>2 DEF Hidden
  <2>3. ASSUME NEW t \in Thread, GivenUp(t) PROVE OfferInv'
    BY <2>3 DEF GivenUp
  <2>4. ASSUME NEW t \in Thread, CallSend(t) PROVE OfferInv'
    BY <2>4 DEF CallSend
  <2>5. ASSUME NEW t \in Thread, PopOne(t) \/ PushOne(t) PROVE OfferInv'
    <3>1. Notified(t, "unlock") /\ pc[t] \in InCall
      BY <2>5 DEF PopOne, PushOne
    <3>2. \A u \in Thread \ {t} : item'[u] = item[u]
      BY <2>5 DEF PopOne, PushOne
    <3>3. ASSUME NEW u \in Thread \ {t}, pc'[u] \notin InCall \cup Killed \cup {"ub"}
          PROVE  item'[u] = NoItem
      <4>1. pc'[u] = pc[u]
        BY <3>1, <3>3 DEF Notified
      <4> QED BY <3>2, <3>3, <4>1
    <3>4. pc'[t] \in InCall
      BY <3>1 DEF Notified
    <3> QED BY <3>3, <3>4
  <2>6. ASSUME NEW t \in Thread, Free(t) PROVE OfferInv'
    BY <2>6 DEF Free, Goto, call
  <2> QED BY <2>1, <2>2, <2>3, <2>4, <2>5, <2>6, OfferFrame
<1> QED BY <1>1, <1>2, TypeCorrect, PTL DEF Spec

\* channel.rs implements the channel of Fifo, whatever crashes, times out or
\* is destroyed, and even where a thread of a forked process runs on inside an
\* Inner that was freed.
THEOREM ChannelImplementsFifo == Spec => ImplementsFifo
<1>1. Init => Abstract!Init
  BY DEF Init, Abstract!Init
<1>2. TypeOK /\ CallInv /\ OfferInv /\ [Next]_vars
          => [Abstract!Next]_(Abstract!vars)
  <2> SUFFICES ASSUME TypeOK, CallInv, OfferInv, [Next]_vars
               PROVE  Abstract!Next \/ UNCHANGED Abstract!vars
    OBVIOUS
  <2> USE DEF Abstract!Next, Abstract!vars, store, memory
  <2>1. CASE UNCHANGED vars
    BY <2>1 DEF vars, call
  <2>2. CASE Hidden
    BY <2>2 DEF Hidden
  <2>3. ASSUME NEW t \in Thread, GivenUp(t)
        PROVE  Abstract!Next \/ UNCHANGED Abstract!vars
    <3>1. CASE item[t] = NoItem
      BY <2>3, <3>1 DEF GivenUp, TypeOK
    <3>2. CASE item[t] # NoItem
      BY <2>3, <3>2 DEF GivenUp, Abstract!Withdraw
    <3> QED BY <3>1, <3>2
  <2>4. ASSUME NEW t \in Thread, CallSend(t) PROVE Abstract!Next
    <3>1. Abstract!Offer(t)
      BY <2>4 DEF CallSend, Abstract!Offer, OfferInv
    <3> QED BY <3>1
  <2>5. ASSUME NEW t \in Thread, PopOne(t) PROVE Abstract!Next
    BY <2>5 DEF PopOne, Abstract!Receive
  <2>6. ASSUME NEW t \in Thread, PushOne(t) PROVE Abstract!Next
    <3>1. item[t] # NoItem
      BY <2>6, ConstantsAssumption DEF PushOne, CallInv
    <3>2. Abstract!Send(t)
      BY <2>6, <3>1 DEF PushOne, push_back, Abstract!Send
    <3> QED BY <3>2
  <2>7. ASSUME NEW t \in Thread, Free(t) PROVE Abstract!Next
    BY <2>7 DEF Free, Goto, call, Abstract!Close
  <2> QED BY <2>1, <2>2, <2>3, <2>4, <2>5, <2>6, <2>7, OfferFrame
<1> QED BY <1>1, <1>2, TypeCorrect, OfferHolds, PTL
        DEF Spec, ImplementsFifo, Abstract!Spec

-----------------------------------------------------------------------------
(***************************************************************************)
(* CreatorNeverDangles                                                     *)
(***************************************************************************)

\* At most one thread closes the channel; it belongs to the creating process,
\* and while it closes, and after Inner is freed, no reference is left there.
CloseInv ==
    /\ \A t \in Thread : pc[t] \in Closing => /\ t \in Local /\ references = 0
                                              /\ inner = "live"
    /\ \A t, u \in Thread : pc[t] \in Closing /\ pc[u] \in Closing => t = u
    /\ inner # "live" => references = 0
    /\ \A t \in Local : pc[t] # "ub"

LEMMA CloseInit == Init => CloseInv
BY DEF Init, CloseInv, Thread

LEMMA CloseStep == TypeOK /\ CallInv /\ RefInv /\ CloseInv /\ Next => CloseInv'
<1> SUFFICES ASSUME TypeOK, CallInv, RefInv, CloseInv, Next
             PROVE  CloseInv'
  OBVIOUS
<1>a. \A t \in Local : handle[t] # "none" => references # 0
  BY OwnersFinite DEF Owners
<1> USE ConstantsAssumption
    DEF TypeOK, CloseInv, Thread, Goto, Return, Finish, Panic, Unwind, memory
<1>1. ASSUME NEW t \in Thread, Begin(t) PROVE CloseInv'
  <2>1. CASE clone(t) \/ make_sender(t) \/ make_receiver(t)
    <3>1. UNCHANGED <<pc, inner>> /\ inner = "live"
      BY <2>1 DEF clone, make_sender, make_receiver
    <3>2. CASE t \in Local
      <4>1. references # 0
        BY <2>1, <3>2, <1>a
           DEF clone, make_sender, make_receiver, CanBorrow
      <4> QED BY <3>1, <4>1
    <3>3. CASE t \notin Local
      BY <2>1, <3>1, <3>3 DEF clone, make_sender, make_receiver, increase
    <3> QED BY <3>2, <3>3
  <2>2. CASE CallReceive(t) \/ CallSend(t) \/ DropChannel(t)
    BY <2>2 DEF CallReceive, CallSend, DropChannel
  <2>3. CASE DropSender(t) \/ DropReceiver(t)
    BY <2>3 DEF DropSender, DropReceiver
  <2> QED BY <1>1, <2>1, <2>2, <2>3 DEF Begin
<1>2. ASSUME NEW t \in Thread, MethodStep(t) PROVE CloseInv'
  <2>1. CASE CheckDropping(t) \/ LockTimeout(t)
    BY <2>1 DEF CheckDropping, LockTimeout
  <2>2. CASE AcquireLock(t) \/ Relock(t)
    BY <2>2 DEF AcquireLock, AfterLock, Relock
  <2>3. CASE EvalReady(t) \/ EvalExpired(t)
    BY <2>3 DEF EvalReady, EvalExpired, AfterWait
  <2>4. CASE CondWait(t)
    BY <2>4 DEF CondWait
  <2>5. CASE CheckRoom(t) \/ CheckPeers(t)
    BY <2>5 DEF CheckRoom, CheckPeers
  <2>6. CASE pop(t)
    <3>1. CASE PopOne(t)
      BY <3>1 DEF PopOne, Notified
    <3>2. CASE PopNone(t)
      BY <3>2 DEF PopNone
    <3> QED BY <2>6, <3>1, <3>2, Transfers
  <2>7. CASE push(t)
    <3>1. CASE PushOne(t)
      BY <3>1 DEF PushOne, Notified
    <3>2. CASE PushFails(t)
      BY <3>2 DEF PushFails
    <3> QED BY <2>7, <3>1, <3>2, Transfers
  <2>8. CASE Unlock(t)
    BY <2>8 DEF Unlock
  <2>9. CASE LockPanics(t)
    BY <2>9 DEF LockPanics
  <2>10. CASE EvalPast(t)
    BY <2>10 DEF EvalPast, AfterWait
  <2> QED BY <1>2, <2>1, <2>2, <2>3, <2>4, <2>5, <2>6, <2>7, <2>8, <2>9, <2>10
          DEF MethodStep
<1>3. ASSUME NEW t \in Thread, DropStep(t) PROVE CloseInv'
  <2>1. CASE WakePeers(t)
    BY <2>1, Broadcasts DEF WakePeers, Notified
  <2>2. CASE Release(t)
    <3>1. CASE t \in Local
      <4>1. references # 0
        BY <2>2, <3>1, <1>a DEF Release, CallInv
      <4>2. inner = "live" /\ \A u \in Thread : pc[u] \notin Closing
        BY <4>1
      <4> QED BY <2>2, <3>1, <4>1, <4>2 DEF Release
    <3>2. CASE t \notin Local
      BY <2>2, <3>2 DEF Release
    <3> QED BY <3>1, <3>2
  <2>3. CASE StoreDropping(t) \/ SwapReceivers(t) \/ SwapSenders(t) \/ Drain(t)
    <3>1. /\ pc[t] \in Closing /\ UNCHANGED <<inner, references>>
          /\ \E next \in Closing : pc' = [pc EXCEPT ![t] = next]
      BY <2>3 DEF StoreDropping, SwapReceivers, SwapSenders, Drain
    <3> QED BY <3>1
  <2>4. CASE NotifyReceivers(t) \/ NotifySenders(t)
    <3>1. /\ pc[t] \in Closing /\ UNCHANGED <<inner, references>>
          /\ \E next \in Closing : Notified(t, next)
      BY <2>4, Broadcasts DEF NotifyReceivers, NotifySenders
    <3> QED BY <3>1 DEF Notified
  <2>5. CASE Free(t)
    <3>1. /\ pc[t] \in Closing /\ references' = references
          /\ inner' # "live" /\ pc' = [pc EXCEPT ![t] = "destroy_condvars"]
      BY <2>5 DEF Free
    <3>2. references = 0 /\ \A u \in Thread \ {t} : pc[u] \notin Closing
      BY <3>1
    <3> QED BY <3>1, <3>2
  <2>6. CASE DestroyCondvars(t)
    BY <2>6 DEF DestroyCondvars
  <2> QED BY <1>3, <2>1, <2>2, <2>3, <2>4, <2>5, <2>6 DEF DropStep
<1>4. ASSUME NEW t \in Thread, SpuriousWake(t) \/ Expire(t) PROVE CloseInv'
  BY <1>4 DEF SpuriousWake, Expire
<1>5. ASSUME NEW t \in Thread, UseAfterFree(t) PROVE CloseInv'
  <2>1. t \notin Local
    BY <1>5, <1>a DEF UseAfterFree, Reaches, CallInv
  <2> QED BY <1>5, <2>1 DEF UseAfterFree
<1>6. ASSUME NEW P \in Processes, Crash(P) PROVE CloseInv'
  BY <1>6, CrashEffect DEF Stopped
<1> QED BY <1>1, <1>2, <1>3, <1>4, <1>5, <1>6 DEF Next

LEMMA CloseHolds == Spec => []CloseInv
<1>1. TypeOK /\ CallInv /\ RefInv /\ CloseInv /\ [Next]_vars => CloseInv'
  <2>1. CASE UNCHANGED vars
    BY <2>1 DEF CloseInv, vars, memory
  <2> QED BY <2>1, CloseStep
<1> QED BY CloseInit, <1>1, TypeCorrect, PTL DEF Spec

\* PerProcessReferences keeps Inner alive for the process that created the
\* channel: when Channel::drop has freed it, no thread of that process owns a
\* Channel, a Sender or a Receiver, and none has run inside the freed memory.
THEOREM CreatorIsSafe == Spec => []CreatorNeverDangles
<1>1. RefInv /\ CloseInv => CreatorNeverDangles
  BY OwnersFinite DEF CloseInv, CreatorNeverDangles, Owners
<1> QED BY <1>1, TypeCorrect, CloseHolds, PTL
=============================================================================
