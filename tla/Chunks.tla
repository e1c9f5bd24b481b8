------------------------------- MODULE Chunks -------------------------------
(***************************************************************************)
(* The shared memory allocator of allocator.rs: a sorted list of free      *)
(* chunks (allocator/chunks.rs) behind a process-shared mutex, from which  *)
(* threads of any process allocate, and to which any of them may return    *)
(* what another one allocated.                                             *)
(*                                                                         *)
(* Empty layouts and layouts that check_alignment refuses never reach the  *)
(* list, neither when they are allocated nor when they are freed: Sizes    *)
(* are the sizes of the others.                                            *)
(***************************************************************************)
EXTENDS Integers, SequencesExt

CONSTANTS
    Thread,      \* threads, each one of a process of its own
    MaxChunks,   \* the capacity of the allocator, in chunks
    CHUNK_SIZE,  \* bytes in a chunk
    Sizes,       \* sizes of the layouts that are asked for, in bytes
    AllocOps,    \* "alloc", "alloc_zeroed"
    NoThread     \* the mutex is free

ASSUME ChunksAssumption ==
    /\ MaxChunks \in Nat \ {0} /\ CHUNK_SIZE \in Nat \ {0}
    /\ Sizes \subseteq Nat \ {0}
    /\ AllocOps \subseteq {"alloc", "alloc_zeroed"}
    /\ NoThread \notin Thread

VARIABLES
    free_chunks,  \* the sorted vector
    lock,         \* holder of the mutex around it, or NoThread
    pc,           \* where each thread is
    op,           \* the method it executes
    size,         \* the size of its layout
    chunk,        \* what it inserts into the list: no chunk, or one
    grant,        \* what it took from the list: no chunk, or one
    dead,         \* threads whose process was killed
    allocations,  \* what the clients own: the pointer, the size of its layout,
                  \* and, as history, the space that was granted
    dirty         \* cells of the buffer that a client has written to

list   == <<free_chunks, chunk, grant>>
client == <<allocations, dirty>>
vars   == <<list, lock, pc, op, size, dead, client>>

-----------------------------------------------------------------------------
(***************************************************************************)
(* FreeSpace: where a space begins and how many cells it has, in chunks.   *)
(***************************************************************************)
FreeSpace == [begin : 0..MaxChunks, count : 1..MaxChunks]

\* RelativeBeginning: chunks into bytes from the start of the memory buffer, as
\* a pointer is handed out, and back, as it is returned.
into_absolute(begin) == begin * CHUNK_SIZE

from_bytes(bytes) == bytes \div CHUNK_SIZE

\* The chunks between begin() and begin() + count().
Cells(space) == space.begin .. (space.begin + space.count - 1)

are_contiguous(left, right) == left.begin + left.count = right.begin

CanMerge_left(space, other) == are_contiguous(space, other)

CanMerge(space, other) ==
    are_contiguous(space, other) \/ are_contiguous(other, space)

merge(space, other) ==
    [begin |-> IF are_contiguous(space, other) THEN space.begin
                                               ELSE other.begin,
     count |-> space.count + other.count]

\* The two parts of a split; the second is there when something is unused.
Required(space, n) == [begin |-> space.begin, count |-> n]

Unused_long(space, n) ==
    [begin |-> space.begin + n, count |-> space.count - n + 1]

Unused(space, n) ==
    [begin |-> space.begin + n, count |-> space.count - n]

\* Ord for FreeSpace: by count, then by beginning.
Less(space, other) ==
    \/ space.count < other.count
    \/ space.count = other.count /\ space.begin < other.begin

\* The number of chunks for a size, when it is taken and when it is returned.
required_chunks(bytes) ==
    bytes \div CHUNK_SIZE + IF bytes % CHUNK_SIZE = 0 THEN 0 ELSE 1

returned_chunks_floor(bytes) ==
    IF bytes < CHUNK_SIZE THEN 1 ELSE bytes \div CHUNK_SIZE

returned_chunks(bytes) ==
    bytes \div CHUNK_SIZE + IF bytes % CHUNK_SIZE = 0 THEN 0 ELSE 1

(***************************************************************************)
(* FixesSortedVec.  The binary searches of a sorted slice: the place in    *)
(* front of which every element is smaller than what is looked for (not    *)
(* greater, for the upper bound), and behind which none is.                *)
(***************************************************************************)
lower_bound_strict(i, n) ==
    /\ \A k \in 1..(i - 1) : free_chunks[k].count <= n
    /\ \A k \in i..Len(free_chunks) : free_chunks[k].count > n

lower_bound(i, n) ==
    /\ \A k \in 1..(i - 1) : free_chunks[k].count < n
    /\ \A k \in i..Len(free_chunks) : free_chunks[k].count >= n

upper_bound(i, space) ==
    /\ \A k \in 1..(i - 1) : ~Less(space, free_chunks[k])
    /\ \A k \in i..Len(free_chunks) : Less(space, free_chunks[k])

\* find_and_merge: the first element that the space can be merged with.
FirstMergeable(i, space) ==
    /\ CanMerge(free_chunks[i], space)
    /\ \A k \in 1..(i - 1) : ~CanMerge(free_chunks[k], space)

-----------------------------------------------------------------------------
PC == {"idle", "lock", "get", "insert", "unlock", "refused"}

TypeOK ==
    /\ free_chunks \in Seq(FreeSpace)
    /\ lock \in Thread \cup {NoThread}
    /\ pc \in [Thread -> PC]
    /\ op \in [Thread -> AllocOps \cup {"none", "dealloc"}]
    /\ size \in [Thread -> Sizes \cup {0}]
    /\ chunk \in [Thread -> SUBSET FreeSpace]
    /\ grant \in [Thread -> SUBSET FreeSpace]
    /\ dead \subseteq Thread
    /\ allocations \subseteq [space : FreeSpace, ptr : Nat, size : Sizes]
    /\ \A a \in allocations : a.ptr % CHUNK_SIZE = 0
    /\ dirty \subseteq 0..(MaxChunks - 1)

\* ShmemAlloc::new: one free space, the whole buffer, and mmap'ed zeroes.
Init ==
    /\ free_chunks = <<[begin |-> 0, count |-> MaxChunks]>>
    /\ lock = NoThread
    /\ pc = [t \in Thread |-> "idle"]
    /\ op = [t \in Thread |-> "none"]
    /\ size = [t \in Thread |-> 0]
    /\ chunk = [t \in Thread |-> {}]
    /\ grant = [t \in Thread |-> {}]
    /\ dead = {}
    /\ allocations = {}
    /\ dirty = {}

-----------------------------------------------------------------------------
\* alloc, alloc_zeroed, alloc_excess: called.
alloc(t) ==
    /\ pc[t] = "idle"
    /\ \E method \in AllocOps : op' = [op EXCEPT ![t] = method]
    /\ \E bytes \in Sizes : size' = [size EXCEPT ![t] = bytes]
    /\ pc' = [pc EXCEPT ![t] = "lock"]
    /\ UNCHANGED <<list, lock, client>>

\* dealloc: called by any thread, with the pointer and the layout of an
\* allocation; what return_back will insert is computed from these.
dealloc(t) ==
    /\ pc[t] = "idle"
    /\ \E a \in allocations :
          /\ allocations' = allocations \ {a}
          /\ size' = [size EXCEPT ![t] = a.size]
          /\ chunk' = [chunk EXCEPT ![t] =
                {[begin |-> from_bytes(a.ptr), count |-> returned_chunks(a.size)]}]
    /\ op' = [op EXCEPT ![t] = "dealloc"]
    /\ pc' = [pc EXCEPT ![t] = "lock"]
    /\ UNCHANGED <<free_chunks, lock, grant, dirty>>

\* Mutex::lock, which blocks.
Lock(t) ==
    /\ pc[t] = "lock"
    /\ lock = NoThread
    /\ lock' = t
    /\ pc' = [pc EXCEPT ![t] = IF op[t] = "dealloc" THEN "insert" ELSE "get"]
    /\ UNCHANGED <<list, op, size, client>>

\* Chunks::get finds a space that is large enough, and splits it.
get(t) ==
    /\ pc[t] = "get"
    /\ \E i \in 1..Len(free_chunks) :
          LET n == required_chunks(size[t])
              space == free_chunks[i]
          IN  /\ lower_bound(i, n)
              /\ free_chunks' = RemoveAt(free_chunks, i)
              /\ grant' = [grant EXCEPT ![t] = {Required(space, n)}]
              /\ IF space.count = n
                 THEN /\ pc' = [pc EXCEPT ![t] = "unlock"]
                      /\ UNCHANGED chunk
                 ELSE /\ pc' = [pc EXCEPT ![t] = "insert"]
                      /\ chunk' = [chunk EXCEPT ![t] = {Unused(space, n)}]
    /\ UNCHANGED <<lock, op, size, client>>

\* An allocation that waits until there is space.
GetNone_retry(t) ==
    /\ pc[t] = "get"
    /\ lower_bound(Len(free_chunks) + 1, required_chunks(size[t]))
    /\ pc' = [pc EXCEPT ![t] = "lock"]
    /\ lock' = NoThread
    /\ UNCHANGED <<list, op, size, client>>

\* Chunks::get finds none, and the allocation fails.
GetNone(t) ==
    /\ pc[t] = "get"
    /\ lower_bound(Len(free_chunks) + 1, required_chunks(size[t]))
    /\ pc' = [pc EXCEPT ![t] = "refused"]
    /\ UNCHANGED <<list, lock, op, size, client>>

\* insert_chunk_and_merge: one round of its loop.
MergeOne(t) ==
    /\ pc[t] = "insert"
    /\ \E i \in 1..Len(free_chunks), c \in chunk[t] :
          /\ FirstMergeable(i, c)
          /\ free_chunks' = RemoveAt(free_chunks, i)
          /\ chunk' = [chunk EXCEPT ![t] = {merge(free_chunks[i], c)}]
    /\ UNCHANGED <<grant, lock, pc, op, size, client>>

\* insert_chunk_and_merge: nothing is left to merge, the chunk is pushed.
push(t) ==
    /\ pc[t] = "insert"
    /\ \E i \in 1..(Len(free_chunks) + 1), c \in chunk[t] :
          /\ \A k \in 1..Len(free_chunks) : ~CanMerge(free_chunks[k], c)
          /\ Len(free_chunks) # MaxChunks
          /\ upper_bound(i, c)
          /\ free_chunks' = InsertAt(free_chunks, i, c)
    /\ chunk' = [chunk EXCEPT ![t] = {}]
    /\ pc' = [pc EXCEPT ![t] = "unlock"]
    /\ UNCHANGED <<grant, lock, op, size, client>>

\* The guard is dropped, the method returns, the caller owns what it got and
\* writes to it.
Unlock(t) ==
    /\ pc[t] \in {"unlock", "refused"}
    /\ lock' = NoThread
    /\ allocations' = allocations \cup
          {[space |-> c, ptr |-> into_absolute(c.begin), size |-> size[t]] :
              c \in grant[t]}
    /\ grant' = [grant EXCEPT ![t] = {}]
    /\ pc' = [pc EXCEPT ![t] = "idle"]
    /\ op' = [op EXCEPT ![t] = "none"]
    /\ size' = [size EXCEPT ![t] = 0]
    /\ dirty' = dirty \cup UNION {Cells(c) : c \in grant[t]}
    /\ UNCHANGED <<free_chunks, chunk>>

\* A process is killed: its thread stops where it is, and a mutex it holds
\* stays locked.
Kill(t) ==
    /\ dead' = dead \cup {t}
    /\ UNCHANGED <<list, lock, pc, op, size, client>>

Begin(t) == alloc(t) \/ dealloc(t)

Step(t) ==
    \/ Lock(t) \/ get(t) \/ GetNone(t) \/ MergeOne(t) \/ push(t) \/ Unlock(t)

Next ==
    \E t \in Thread \ dead :
        \/ (Begin(t) \/ Step(t)) /\ UNCHANGED dead
        \/ Kill(t)

Spec == Init /\ [][Next]_vars

\* A thread that can go on does, and a mutex that is free again and again is
\* not denied to the same thread for ever.
Fairness ==
    \A t \in Thread :
        /\ WF_vars(t \notin dead /\ Step(t) /\ UNCHANGED dead)
        /\ SF_vars(t \notin dead /\ Lock(t) /\ UNCHANGED dead)

FairSpec == Spec /\ Fairness

-----------------------------------------------------------------------------
(***************************************************************************)
(* Properties.                                                             *)
(***************************************************************************)
Listed == {free_chunks[k] : k \in 1..Len(free_chunks)}
InHand == UNION {chunk[t] \cup grant[t] : t \in Thread}
Owned  == {a.space : a \in allocations}

\* The free spaces, the spaces that a thread is moving and the spaces that
\* clients own partition the buffer: no cell is lost, none belongs to two,
\* none lies outside.  A space is in one place only and in the list once.
Partition ==
    /\ UNION {Cells(s) : s \in Listed \cup InHand \cup Owned}
          = 0..(MaxChunks - 1)
    /\ \A s, r \in Listed \cup InHand \cup Owned :
          s # r => Cells(s) \cap Cells(r) = {}
    /\ Listed \cap (InHand \cup Owned) = {} /\ InHand \cap Owned = {}
    /\ \A k, j \in 1..Len(free_chunks) :
          k # j => free_chunks[k] # free_chunks[j]

\* What Chunks::self_check asserts, in every state and for every pair: the
\* list is sorted and no two of its spaces are adjacent.
SelfCheck ==
    \A k, j \in 1..Len(free_chunks) :
        /\ k < j => Less(free_chunks[k], free_chunks[j])
        /\ ~are_contiguous(free_chunks[k], free_chunks[j])

\* The list, its splits and its merges implement the set of cells of Allocator:
\* a request gets a run of the length it needs from cells that are free, and
\* is refused only when no run of free cells is that long, however they were
\* taken and returned before; all of it also when processes are killed.  Cells
\* that a thread has in hand while it holds the mutex are free.
Waits(t) == op[t] \in AllocOps /\ pc[t] \in {"lock", "get"}

Returned(t) == op[t] = "dealloc" /\ pc[t] = "lock"

Abstract == INSTANCE Allocator WITH
    Lengths   <- {required_chunks(bytes) : bytes \in Sizes},
    free      <- UNION {Cells(s) : s \in Listed \cup
                    UNION {chunk[t] : t \in {u \in Thread : ~Returned(u)}}},
    wants     <- [t \in Thread |->
                    IF Waits(t) THEN required_chunks(size[t]) ELSE 0],
    owned     <- {Cells(s) : s \in Owned \cup UNION {grant[t] : t \in Thread}},
    returning <- {Cells(s) : s \in
                    UNION {chunk[t] : t \in {u \in Thread : Returned(u)}}}

ImplementsAllocator == Abstract!Spec

\* FixesSortedVec::push asserts that its vector is not full.  It never is when
\* a chunk is to be pushed; and since neighbours are merged, the list is never
\* longer than half the buffer, rounded up.
RoomToPush ==
    /\ \A t \in Thread : pc[t] = "insert" => Len(free_chunks) < MaxChunks
    /\ 2 * Len(free_chunks) <= MaxChunks + 1

\* Every alloc and dealloc that waits for the mutex gets it and returns, a
\* refused one too: every path out of a method drops the MutexGuard.  The
\* mutex is not robust: a process killed inside the allocator, and nothing
\* else, stops the others.
CallsReturn ==
    \A t \in Thread :
        (pc[t] = "lock") ~> (pc[t] = "idle" \/ t \in dead \/ lock \in dead)

\* "Since `mmap` returns zeroed memory, we don't need to do anything else":
\* what alloc_zeroed returns was never written to.
ZeroedIsZero ==
    \A t \in Thread : \A c \in grant[t] :
        op[t] = "alloc_zeroed" => Cells(c) \cap dirty = {}
=============================================================================
