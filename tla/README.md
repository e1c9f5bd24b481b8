# Verification of shmem-utils

`shmem-utils` is a Rust crate for communication between processes that share
memory after `fork`: an allocator over an anonymous shared mapping, a
process-shared mutex and condition variable, and a multi-producer
multi-consumer channel built from them. This directory holds TLA+ models of the
crate, the TLC configurations that check them, and theorems about them with
proofs checked by TLAPS.

## The system

| component | state | operations | used by |
|---|---|---|---|
| channel (`channel.rs`) | `Inner`: the queue behind a mutex, two condition variables, `senders`, `receivers`, `dropping`; `Channel`: pointer to `Inner`, pointer to the process's reference counter, pid of the creator | `new`, `clone`, `make_sender`, `make_receiver`, `destroy`; the sends and receives of `Inner`; `drop` of `Sender`, `Receiver`, `Channel` | the program |
| mutex (`mutex.rs`) | a `pthread_mutex_t` with `PTHREAD_PROCESS_SHARED`, not robust; the data; pid of the creator | `lock`, `try_lock`, `try_lock_for`, `try_lock_until`; `drop` of the guard and of the mutex | channel, allocator |
| condvar (`condvar.rs`) | a `pthread_cond_t` on the monotonic clock | `signal`, `broadcast`, `wait`, `wait_for`, `wait_until` | channel |
| process_rc (`process_rc.rs`) | `counter`, `pid`, on the private heap of each process | `increase`, `decrease` | channel |
| allocator (`allocator.rs`, `allocator/`) | the sorted list of free chunks behind a mutex, the mapped buffer | `alloc`, `alloc_zeroed`, `alloc_excess`, `usable_size`, `dealloc` | the channel's queue and `Inner` |
| time (`time.rs`) | - | `UnixClock`: add, sub, conversion of an `Instant` | mutex, condvar |
| memmap, pagesize, shmem_safe | - | one system call each; a marker trait | allocator |
| autoclean | - | not compiled | - |

Every thread of every process works directly on `Inner` in shared memory: there
are no messages and no server. What is hard is therefore concurrency between
threads of several processes (atomics next to a mutex, condition variables,
predicates that read both), lifetime (one process frees what the others still
point to, each with its own copy of the reference counter), and failure
(deadlines, panics that unwind, processes killed in the middle of a method).
`PROJECT.json` lists each hazard at its line.

What makes the parts correct:

- channel: values arrive once and in order; nobody sleeps while there is work
  for it; a method that returns empty-handed tells the truth; the counters count
  the handles; memory is freed once, and after its last use;
- mutex and condvar: exclusion, also across a wait; no lost signal; destruction
  that copes with a lock held by a dead process;
- process_rc: exactly one last reference per process;
- allocator: no chunk is lost or handed out twice, adjacent free chunks are
  merged, a request fails only when no run of free chunks is long enough;
- time: a deadline is the instant that was asked for, on the clock that the
  caller of the deadline reads.

## Modules

| module | content |
|---|---|
| `Channel` | the channel with the mutex, the condition variables and the reference counter it uses; its properties |
| `Fifo` | the abstract channel that `Channel` implements |
| `MCChannel` | the instance for TLC: the symmetry of threads and values |
| `ChannelProofs` | theorems about `Channel`: types, the mutex, the order of values, the refinement of `Fifo`, the life of `Inner` |
| `ChannelCallProofs` | theorems about `Channel`: the counters, the leak, the answers of the methods |
| `ChannelSignalProofs` | theorems about `Channel`: no signal is lost |
| `Chunks` | the allocator: the list of free chunks, its mutex, its clients; its properties |
| `Allocator` | the abstract allocator that `Chunks` implements |
| `MCChunks` | the instance for TLC: the sizes |
| `ChunksProofs` | the theorems about `Chunks` |
| `AllocatorProofs` | that `Chunks` implements `Allocator` |
| `UnixClock` | the arithmetic of `time.rs`, as operators |
| `Deadline` | one call of a method with a deadline, between two clocks; its properties |
| `MCDeadline` | the instance for TLC |
| `DeadlineProofs` | the theorems about `UnixClock` and `Deadline` |
| `Lifetime` | what is allocated and who frees it: creation, fork, the copies of the reference counter, `destroy` |
| `MCLifetime` | the instance for TLC: the symmetry of threads and processes |
| `LifetimeProofs` | the theorems about `Lifetime` |

`Channel` is the centre. What it leaves abstract is detailed elsewhere: a
deadline that "may pass" in `Channel` is a time on a clock in `Deadline`, which
also shows when a conversion makes the kernel refuse it; the growth of the queue,
"any growth up to `MaxCapacity`" in `Channel`, ends where `Chunks` refuses; the
reference counter, one step in `Channel`, is its atomic operations in `Lifetime`,
with the counters of the forked processes that `Channel` has no use for.

### Channel

A step is one access to shared state by one thread: an atomic operation, the
acquisition or release of the mutex, one evaluation of a wait predicate, one
transfer under the lock. Threads of the process that called `Channel::new` are
`Local`; each member of `Remote` is the only thread of a forked process.

| variable | in the code |
|---|---|
| `queue`, `capacity` | the `VecDeque` inside `Inner.mutex` |
| `lock` | the holder of the raw mutex |
| `senders`, `receivers`, `dropping` | the atomics of `Inner` |
| `inner` | whether `Inner` is allocated (`live`), `freed`, or freed with its queue `leaked` |
| `references` | `PerProcessReferences.counter` of the creating process |
| `orphans` | the locals of `Channel::drop` that hold the swapped counters |
| `handle` | the `Channel`, `Sender` or `Receiver` a thread owns |
| `pc`, `op`, `item`, `ret` | where a thread is, the method it executes, the value it sends, the result it carries while its guard is dropped |
| `sent`, `received` | history, for the properties only |

The seven methods of `Inner` are one control flow with different exits, and the
model keeps it that way:

    check  ->  lock  ->  ready <-> wait / asleep / relock  ->  decide  ->  pop, push  ->  unlock
                            \-> expired (deadline) --------/

`CheckDropping` is the load of `dropping` each method starts with; `AcquireLock`
and `LockTimeout` are the outcomes of `try_lock`, `try_lock_for` and
`try_lock_until`; `EvalReady`, `CondWait`, `Relock` and `EvalExpired` are the
loops of `Condvar::wait` and `wait_until_internal`; `CheckPeers` is the second
look at the counters after the wait; `pop` and `push` include their signals.
`receive` skips `decide`; the `once` methods skip the wait, and
`try_receive_once` pops before it decides. `DropSender`, `DropReceiver`,
`WakePeers`, `Release` and the actions from `StoreDropping` to `Free` are the
three `drop`s, one atomic operation each; `DestroyCondvars` is the end of the
last one, where `pthread_cond_destroy` waits for threads that sleep. `Free` is
`Mutex::drop` inside it: `pthread_mutex_destroy` fails while the mutex has a user
(`UsesMutex`), that is a holder or a thread inside `pthread_cond_wait`, which the
mutex counts during the sleep and until the thread has taken the mutex back; the
queue then stays allocated (`leaked`). `Panic` is an
`expect` that fails: the guard and then the handle are dropped. `LockPanics` and
`EvalPast` are the panic of a timed method whose deadline has passed and whose
conversion the kernel refuses (see `Deadline`). `Crash` kills a process; its mutex
stays locked, its handles stay counted, and a thread killed inside a wait stays
counted by the mutex. It stays on the condition variable when it was killed in its
sleep (`dead_asleep`, where a later signal may be spent on it) or after it was
woken and before it confirmed that (`dead_woken`), not when it was only waiting
for the mutex (`dead_relock`). `UseAfterFree` is a step of a thread inside
a freed `Inner`: it is undefined, and the model says nothing of the thread
afterwards.

Abstractions. Deadlines are not numbers: a timed wait may expire at any time, a
timed lock only while another thread holds the mutex. The growth of a full
`VecDeque` by an amount of the library's choosing is any growth up to
`MaxCapacity`, the allocator's room; at `MaxCapacity` it fails. Two loads in one
condition are one step, which loses no outcome because `dropping` never returns
to false. `compare_exchange` loops are one step. Each value is sent at most
once, so that the histories tell values apart. `make_sender` is one step: the
increments of the private reference counter and of `senders` are adjacent, and
no other thread reads both. A freshly forked process has a copy of the `Channel`
and keeps it, because dropping it does nothing.

`Fifo` says what all this amounts to: a thread offers a value, the value enters
the channel at most once or goes back, what entered leaves in order and once, and
nothing moves after the channel is closed. The mapping reads the offer off `item`,
the contents off `queue`, and `open` off `inner`; a call that returns or unwinds
without having pushed is `Withdraw`, every step about locks, waits and handles is
a stuttering step.

### Chunks

| variable | in the code |
|---|---|
| `free_chunks` | the vector inside `Chunks`, in its order |
| `lock` | the holder of the mutex around `Chunks` |
| `pc`, `op`, `size` | where a thread is, the method it executes, the size of its layout |
| `chunk` | the local of `insert_chunk_and_merge`; before that, what `return_back` is called with |
| `grant` | the space that `get` took, until the method returns |
| `allocations` | the clients: the pointers they own, with the sizes they asked for; `space`, the chunks behind a pointer, is history |
| `dead` | the threads whose process was killed |
| `dirty` | the cells of the buffer that a client wrote to |

`alloc` and `dealloc` are the calls, `Lock` is `Mutex::lock`, `get` and `GetNone`
are the outcomes of `Chunks::get`, `MergeOne` is one round of the loop in
`insert_chunk_and_merge`, `push` its end, `Unlock` the drop of the guard and the
return; the client then writes to all it got. `Kill` stops a thread where it is,
with the mutex if it holds it. Any thread may return what another one allocated,
as processes do that pass values through the channel.

`Allocator` is a set of free cells and the runs that were granted. The mapping
takes for free what is listed and what a thread moves while it holds the mutex;
what `dealloc` was called with is `returning` until the mutex is taken. `Refuse`
is enabled only when no run of free cells is long enough, so `ImplementsAllocator`
contains that the list never refuses what a perfect allocator would grant at that
moment.

The two binary searches of `superslice` are external: `lower_bound` and
`upper_bound` say where they end on a sorted slice, and define nothing on one
that is not sorted: a thread with an unsorted list would be stuck, which
`CallsReturn` would show. `required_chunks` and `returned_chunks` are the same arithmetic written
twice in the code, and twice here. Sizes are those of layouts that are not empty
and whose alignment is supported: the other ones return before the list is
touched. The list counts in chunks and the clients in bytes from the beginning of
the buffer: `Unlock` hands out `into_absolute` of a chunk, and `dealloc` computes
the chunk again with `from_bytes` of the pointer and `returned_chunks` of the size.
That both together give back just the space that was granted is part of
`Partition`. `TypeOK` contains the assertion of `return_back`, that a pointer is a
multiple of the chunk size.

### UnixClock and Deadline

`UnixClock` translates `add`, `sub` and the comparison operation by operation,
with `NANOS` nanoseconds in a second. `Deadline` has one thread that calls one of
`try_lock_for`, `try_lock_until`, `wait_for` and `wait_until`.

| variable | in the code |
|---|---|
| `now`, `offset` | the monotonic clock, and the realtime clock minus it |
| `stepped` | history: somebody set the realtime clock |
| `mutex`, `ready` | who holds the mutex, the value of the wait predicate |
| `target` | the `Instant` or the end of the `Duration` that the caller gave |
| `gap` | the difference that `From<Instant>` computed, or the duration |
| `until` | the `timespec` that is given to the kernel |

`ReadInstant` and `ReadClock` are the two readings of a clock in `From<Instant>`,
and time may pass between them. `ReadBy` is the clock that the code reads,
`ComparedBy` the one the kernel compares with: the condition variables were
created with the monotonic clock, `pthread_mutex_timedlock` knows only the
realtime clock. A `timespec` whose nanoseconds are out of range is refused
(`Valid`), which the code turns into a panic (`LockPanics`, `WaitPanics`).
`sub` is wrong in the code when it borrows, and the model has it as it is: for a
deadline that has passed the nanoseconds may come out negative.
`PanicNeedsPast` says that nothing else makes the kernel refuse a deadline.

### Lifetime

| variable | in the code |
|---|---|
| `start`, `mapped` | how far `ShmemAlloc::new` and `Channel::new` are, and what exists |
| `status` | processes that are not forked yet, running, gone, or killed while they owned a handle |
| `counter`, `pid` | the `PerProcessReferences` of each process |
| `dangling` | processes that have freed theirs |
| `handles` | how many handles each process owns |
| `pc`, `count` | where a thread is in `increase` or `decrease`, and what it loaded |
| `made`, `exported`, `imported`, `destroyed` | history, for the properties and the bounds |

`Allocate` and `AllocateFails` are the five allocations of the two constructors,
in their order; `Unwound` is what an early return drops. `clone`, `Load`, `Swap`,
`Add` and `Reset` are `increase`, `drop`, `DropSwap` and `DropSub` are `decrease`,
one atomic operation each. `fork` copies the memory of a process, its counter
included. `Move` is a `Sender` sent to another process, as the test of
`channel.rs` does; `destroy` is called with the only handle there is, as its
comment requires. `Close` abstracts the closing that `Channel` details: `Inner`
is freed, and its queue with it unless `Mutex::drop` runs in another process or
cannot destroy the mutex. The latter may happen when somebody can be inside the
mutex or in a wait on it (`MutexInUse`), which takes a handle, or a process that
was killed with one.

A handle moved to another process defeats the count: dropped there it is never
subtracted, and the channel leaks; brought to the creating process and dropped
there it is subtracted without having been added, and the channel may be closed
under a handle. The notices of `Sender` and `Receiver` forbid such use, the marker
`ShmemSafe` and the test allow it. `CounterCounts` says by how
much the counter is off then; `CreatorSafe` and `LastDropFrees` hold as long as no
handle is moved to, or away from, the creating process.

## Runs

The runs of `Channel` use two threads of the creator and one forked process unless said
otherwise, and do not check deadlock: all threads may return and do nothing more,
and the killed or undefined ones stop.

| run | checks | bounds |
|---|---|---|
| `safety` | `TypeOK`, `LockDiscipline`, `NoOrphanedLock`, `CountersMatchHandles`, `CreatorNeverDangles`, `EmptyHandedTellsTruth`, `LeakNeedsRemoteUser`, `ImplementsFifo` | all methods, 2 values, capacity 1 that may grow to 2, crashes |
| `liveness` | `NoStrandedItem`, `NoStrandedSpace`, `ReceiverServed`, `CloseCompletes` | `receive` and `try_send`, 2 values, capacity 1, crashes |
| `list` | `TypeOK`, `Partition`, `SelfCheck`, `RoomToPush`, `ImplementsAllocator`, `CallsReturn` | 2 processes that may be killed, 5 chunks of 2 bytes, sizes 1, 3, 4 and 5 (1 to 3 chunks, with and without a remainder) |
| `clock` | `TypeOK`, `NeverEarly`, `PanicNeedsPast`, `CallEnds` | seconds of 3 nanoseconds, times up to 12 (4 seconds), the realtime clock 2 or 6 ahead and set once, deadlines asked for up to 6 |
| `lifetime` | `TypeOK`, `CounterCounts`, `CreatorSafe`, `LastDropFrees`, `NeverZero` | the creator and one forked process of two threads each, 3 handles made in each, 1 handle moved, words of 8 values |

The bounds let the cases happen that the properties are about: a full and an
empty queue, two sleepers and one signal, a third thread that takes what a woken
thread was promised, a handle made between two loads, a process killed at every
step, an `Inner` freed under a remote thread. Five chunks are enough for a chunk
that merges with both neighbours while a third space is apart, for a request that
fits nowhere although enough cells are free, and for an exact fit, a best fit and
a tie between equal counts. Three nanoseconds in a second give every combination
of carry, exact second and borrow; the offsets of the clocks put their seconds at
the same and at different places. Two threads that use a copied counter first at
the same time need two handles to be made after the fork, a third is made before.

`NoStrandedItem` and `NoStrandedSpace` say more than that some thread is awake:
while somebody sleeps, there are at least as many threads on their way as there
are values to take (slots to fill). `wait_for_message_until` is left out of
`liveness` because it breaks them: it waits on the same condition variable as
`receive`, consumes the signal of a push and leaves the value, and a receiver
beside it may sleep on. A process can also die with a signal it consumed, so that
both say nothing once a process was killed (`SomeKilled`). The run has three
threads and a queue of one, and no deadlines, because it checks liveness; the
theorems have the two properties for any number of threads, any capacity and the
timed methods.

`CloseCompletes` names the one thing that can hold up the drop of the last
reference: a thread of another process that a condition variable still counts,
asleep or killed there, which `pthread_cond_destroy` waits for.

`NoOrphanedLock` is about the many ways out of a method: the mutex is not robust,
so a path that returned, timed out or unwound without unlocking it would stop
every process. `LeakNeedsRemoteUser` is an action property: in the step that
leaves the queue behind, some thread of another process is in the mutex or in a
wait on it, and no thread of the creating process is.

### What the code does not keep

Each of these runs refutes one statement of the repository; `PROJECT.json`
quotes it.

| run | statement | what happens |
|---|---|---|
| `lost_wakeup` | `receive` waits until no senders are available | `Sender::drop` decrements and broadcasts without the mutex; a receiver between its predicate and its sleep misses both |
| `panic` | "There should be something!!", "Shouldn't fail" | the wait of `try_receive_until` ends because there are no senders, a sender appears, and an empty queue is popped; the same race on `receivers` pushes to a full queue, which grows or panics |
| `sole` | the closer of the channel is the only one who references `Inner` | a thread of a forked process is inside a method when `Inner` is freed |
| `zeroed` | `mmap` returns zeroed memory, so `alloc_zeroed` has nothing to do | it returns cells that were written to and returned before |
| `deadline` | `try_lock_until` tries to obtain a lock within a given timeout | its deadline is read on the monotonic clock and compared with the realtime clock, so it gives up at once on a mutex held by another |
| `destroyed` | `destroy` destroys all the internal structures from any process | `Mutex::drop` does nothing in another process and the queue's buffer stays; and when the process made two handles its counter is not one and nothing is freed |
| `failed` | if `ShmemAlloc::new` fails, all the memory is freed | when it is the last mapping that fails, the list and its vector stay mapped: the box around them was turned into a raw pointer before |

Two more statements do not hold, and the properties are stated around them:

- "Substracts duration from the instant." (`time.rs:69`): where `sub` borrows it
  subtracts the complement of the nanoseconds. The result may have negative
  nanoseconds, which the kernel refuses: a method that is called with a deadline
  that has passed may panic instead of reporting a timeout. `clock` reaches that
  panic, and `PanicNeedsPast` says that nothing else panics this way;
- "types that are safe to be transmitted between processes" (`shmem_safe.rs:4`), of
  which `Sender` is one: see `Lifetime` above. Here the repository contradicts
  itself, and `CreatorSafe` and `LastDropFrees` exempt handles that were moved.

The models also show what a user should know and the repository is silent on:

- `try_receive_until` reports `NoSenders` with values in the queue, where `receive`
  and `try_receive` hand them out;
- `wait_for_message_until` returns `Ok` without a message when the channel is
  dropped during the wait;
- a process killed inside the allocator stops all others (`CallsReturn`).

### Fairness

`FairSpec` of `Channel` is assumed by `liveness` and `lost_wakeup` only.
A thread inside a method or a drop that can go on does (weak fairness of
`MethodStep` and `DropStep`: the kernel schedules every runnable thread), a
deadline is reached (weak fairness of `Expire`), and a mutex that is free again
and again is not denied to the same thread for ever (strong fairness of
`AcquireLock` and `Relock`; without it spurious wake-ups of others could keep the
mutex away from a thread for ever). Nothing is assumed about what the program
decides to do: no call, no new handle and no drop is ever forced, nor a spurious
wake-up, nor a crash.

In `Chunks`, for `CallsReturn`, it is the same: a thread inside a method
that can go on does (weak fairness of `Step`), and a mutex that is free again and
again is not denied to the same thread for ever (strong fairness of `Lock`), both
as long as its process lives. No client is ever forced to call or to return what
it owns.

In `Deadline`, for `CallEnds`: the thread runs, time passes, and a mutex that
others hold is given up again (weak fairness of `Step`, `Tick`, `OtherUnlocks`); a
mutex that is free again and again is not denied for ever, and signals do not for
ever forestall a deadline that has passed (strong fairness of `Relock` and
`Expire`; the kernel looks at the deadline before it sleeps).

## Theorems

Each theorem holds for every value of the constants that satisfies the
assumptions of its module: any finite sets of threads and processes, any values
and capacities (`ConstantsAssumption`), any buffer, chunk size and layouts
(`ChunksAssumption`), any length of a second and any clocks (`NanosAssumption`,
`DeadlineAssumption`), any number of processes, threads and handles
(`LifetimeAssumption`). Every safety invariant and action property that a passing
run checks, and both refinements, are theorems.

| module | theorem | statement |
|---|---|---|
| `ChannelProofs` | `TypeCorrect` | `Spec => [](TypeOK /\ CallInv /\ RefInv)` |
| | `LockDisciplineHolds` | `Spec => []LockDiscipline` |
| | `ChannelImplementsFifo` | `Spec => ImplementsFifo` |
| | `CreatorIsSafe` | `Spec => []CreatorNeverDangles` |
| `ChannelCallProofs` | `CountersHold` | `Spec => []CountersMatchHandles` |
| | `NoOrphanedLockHolds` | `Spec => []NoOrphanedLock` |
| | `LeakHolds` | `Spec => LeakNeedsRemoteUser` |
| | `EmptyHandedHolds` | `Spec => []EmptyHandedTellsTruth` |
| `ChannelSignalProofs` | `NoStrandedItemHolds` | without `wait_for_message_until`: `Spec => []NoStrandedItem` |
| | `NoStrandedSpaceHolds` | with `Capacity = MaxCapacity`: `Spec => []NoStrandedSpace` |
| `ChunksProofs` | `ChunksTypeCorrect` | `Spec => []TypeOK` |
| | `PartitionHolds` | `Spec => []Partition` |
| | `SelfCheckHolds` | `Spec => []SelfCheck` |
| | `RoomToPushHolds` | `Spec => []RoomToPush` |
| `AllocatorProofs` | `ChunksImplementAllocator` | `Spec => ImplementsAllocator` |
| `DeadlineProofs` | `DeadlineTypeCorrect` | `Spec => []TypeOK` |
| | `NeverEarlyHolds` | `Spec => []NeverEarly` |
| | `PanicNeedsPastHolds` | `Spec => []PanicNeedsPast` |
| `LifetimeProofs` | `LifetimeTypeCorrect` | `Spec => []TypeOK` |
| | `CounterCountsHolds` | `Spec => []CounterCounts` |
| | `CreatorSafeHolds` | `Spec => []CreatorSafe` |
| | `LastDropHolds` | `Spec => []LastDropFrees` |
| | `NeverZeroHolds` | `Spec => []NeverZero` |

The inductive invariants were checked with TLC on small instances before they
were proved, `LifeInv` also on one with a chain of two forks.

### Channel

`TypeOK` is not inductive: `push` needs that its method still has its value, and
`Release` that the counter it decrements is not zero. `CallInv` says what a
thread inside a call owns; `RefInv` says that `references` is the number of
threads of the creating process that own a handle. The three are inductive
together. `LockDiscipline` is inductive relative to them. For `CreatorNeverDangles` the strengthening is `CloseInv`: one
thread at most closes the channel, it belongs to the creator, and from the moment
it starts the counter stays at zero, because a new reference can only be
borrowed from an existing one.

For the refinement every step is shown to be hidden from `Fifo`, to give a value
up, or to be one of the four that `Fifo` knows (`OfferFrame`). `OfferInv`, that a
thread outside the methods has no value to send, is needed where a call starts:
`Offer` is for a thread that offers nothing yet.

What signals and broadcasts do to the other threads is stated once (`Notified`,
with `SignalEffect` and `BroadcastEffect`), what a kill does (`Stopped`, with
`CrashEffect`), and what `pop` and `push` come down to as well (`Transfers`).

`CountersMatchHandles` needs that a `Sender` that is being dropped is no sender
any more (`KindInv`) and that the counters are swapped under `dropping`
(`DroppingInv`). `NoOrphanedLock` is inductive relative to `TypeOK`. `LeakNeedsRemoteUser` rests on who can be in the mutex while the
creator frees: its holder is inside its critical section or stopped there
(`NoOrphanedLock`), a thread inside a method owns a handle and there is none left
(`CallInv`, `RefInv`), and the threads of the creating process are killed together
(`TogetherInv`), so none of them is (`CreatorLeftMutex`). For `EmptyHandedTellsTruth`, `QueueInv` says
from which place on a method relies on an empty (or full) queue, and `RetInv` that
a thread with an answer still has the mutex; `HistoryInv` ties the histories to
the queue, which changes only in a transfer that succeeds (`StoreFrame`).

For the signals, `ItemInv` and `SpaceInv` add to the property what happens while
there are no counterparts: then nothing is in the queue that a sleeper could miss.
The theorems have hypotheses that the code needs, not the proof:

- `wait_for_message_until` takes the signal of a push and leaves the value, so the
  first theorem is about programs that do not call it beside receiving methods;
- a queue that grows inside `push_back` gains room that nobody is told of, so the
  second is about a queue that cannot grow;
- a process killed between its signal and its transfer takes the signal along: the
  statements hold until a process is killed.

### Chunks and Allocator

`ChunksInv` is `SelfCheck` together with: who is inside the mutex and what it
has in hand (`ControlInv`, `HandInv`), that every space lies inside the buffer
(`InsideInv`), that no two spaces overlap, be they in the list, in the hand of a
thread or owned by a client (`ListApart`, `HandApart`, `OwnedApart`), and that
together they cover it (`CoverInv`). `Partition` follows. `SelfCheck` is
inductive only with them: a chunk that is pushed is adjacent to none of the list
because the loop of `insert_chunk_and_merge` ended, and different from all because
spaces do not overlap. `RoomToPush` follows from `SelfCheck`: two neighbours of the
list have a cell between them. The lemmas `RemoveAtProperties` and
`InsertAtProperties` say what `Vec::remove` and `Vec::insert` leave, `SplitFacts`
and `MergeFacts` what splitting and merging do to cells.

`AllocatorProofs` has one lemma per action. The step that matters is
`GetNoneRefuses`: no run of free cells is as long as what was asked for. A run lies
inside one chunk of the list because no two of them are adjacent, and a chunk that
is long enough would have been found.

### Deadline

`DeadlineProofs` first shows what the arithmetic computes: `add` is exact and
stays in range (`AddExact`), the nanoseconds of `sub` are at least `-NANOS`
(`SubRange`), and the comparison of two times in range is the comparison of what
they denote (`OrderExact`). The invariant says of a deadline that was computed from
a gap that is not past that it is in range and denotes, on the clock it was read
from, no less than `target`; the rest is that time does not run backwards.

### Lifetime

`LifeInv` has a part for each stage. Before `Channel::new` has returned nothing
happens in any process (`StartInv`, `BeforeInv`). In the creating process, while it
counts, the counter is what it owns, what it gave away less what it was given, and
the drops under way; it is at least one and at most what was made (`CreatorInv`).
When it stops to count there is no handle and no other thread inside, unless a
handle came from elsewhere (`ClosedInv`): the drop that reads one was the only one
under way, and a clone under way borrows a handle (`BorrowInv`). `MappedInv` says
what is left then. It rests on `UserIsForked`: whoever keeps the creating process
from destroying the mutex is a process that was forked, because the creator's own
handles are gone, or one came in from such a process.

In a forked process (`ForkedInv`), until the first `swap` the counter is the
constant that was copied and every thread about to swap has loaded it; from then on
one thread at most is about to subtract it, and the counter is what that thread
loaded plus what was made since, possibly wrapped. So `Reset` leaves exactly what
was made, whatever the other threads added in between. `ZeroInv` bounds what can be
copied by a chain of forks: with `n` processes there are at most `n - 1` times
`MaxMade` handles in a count that a copy starts from. This is where
`LifetimeAssumption` is needed: usize has more values than handles can be made in
all processes together. It is the only assumption about the width of a word, and
also excludes that the creator's own counter overflows.

### What is only model-checked

`ReceiverServed`, `CloseCompletes`, `CallsReturn` and `CallEnds` are liveness
properties under fairness, which the prover does not handle. The runs that
expect a violation are about one counterexample each.

## Plan

1. Done: the models of all components that have state, their runs, the two
   abstract specifications, and the theorems above.
2. Left: action properties that follow from the invariants already proved (a
   channel that was closed is never entered again by its creator; an allocated
   space is not touched by the allocator until it is returned), and what the
   signals promise when a process was killed.

## Not modelled

`shmem_safe.rs` is a marker trait, `pagesize.rs` reads one constant,
`autoclean.rs` is not compiled, `lib.rs` and `main.rs` declare modules.
`usable_size` of the allocator is a function that changes nothing and that nothing
in the crate calls. Empty layouts and layouts with an alignment that is not
supported return before the allocator touches its list. Seconds are unbounded: a
duration of more than 2^63 seconds, which panics, does not occur. Memory ordering
is not modelled: the atomics of `Inner` and of `PerProcessReferences` are
sequentially consistent in the code, up to the relaxed first load of a
`compare_exchange` loop. Errors of the pthread and `munmap` calls that do not
depend on the caller (lack of memory, objects that were never initialised) do not
occur in the models. Process ids are not used again: a process that got the id of
the creator of a channel would pass for it.
