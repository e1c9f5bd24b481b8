--------------------------- MODULE LifetimeProofs ---------------------------
(***************************************************************************)
(* Theorems about what is allocated for a channel and who frees it, for    *)
(* any number of processes and threads and any number of handles.          *)
(***************************************************************************)
EXTENDS Lifetime, FiniteSetTheorems, TLAPS

-----------------------------------------------------------------------------
(***************************************************************************)
(* Atomic operations on usize.                                             *)
(***************************************************************************)
LEMMA ModWord ==
    ASSUME NEW x \in Int, NEW n \in Nat, n > 0
    PROVE  /\ x % n \in 0..(n - 1)
           /\ x \in 0..(n - 1) => x % n = x
           /\ x \in (-n)..(-1) => x % n = x + n
           /\ x \in n..(2 * n - 1) => x % n = x - n
OBVIOUS

LEMMA WordPositive == Word \in Nat /\ Word > MaxMade /\ MaxMade \in Nat
                      /\ MaxMade >= 1
<1>1. Cardinality(Forked) \in Nat /\ MaxMade \in Nat /\ MaxMade >= 1
  BY LifetimeAssumption, FS_CardinalityType
<1>2. (Cardinality(Forked) + 1) * MaxMade
         = Cardinality(Forked) * MaxMade + MaxMade
  BY <1>1
<1>3. Cardinality(Forked) * MaxMade >= 0
  BY <1>1
<1> QED BY <1>1, <1>2, <1>3, LifetimeAssumption

LEMMA AddFacts ==
    ASSUME NEW n \in 0..(Word - 1)
    PROVE  /\ fetch_add(n, 1) \in 0..(Word - 1)
           /\ fetch_add(n, 1) = n + 1 \/ fetch_add(n, 1) = n + 1 - Word
           /\ n + 1 < Word => fetch_add(n, 1) = n + 1
<1>1. Word \in Nat /\ Word > 0 /\ n + 1 \in Int
  BY WordPositive
<1>2. n + 1 \in 0..(Word - 1) \/ n + 1 \in Word..(2 * Word - 1)
  BY <1>1
<1> QED BY <1>1, <1>2, ModWord DEF fetch_add

LEMMA SubFacts ==
    ASSUME NEW n \in 0..(Word - 1), NEW k \in 0..(Word - 1)
    PROVE  /\ fetch_sub(n, k) \in 0..(Word - 1)
           /\ fetch_sub(n, k) = n - k \/ fetch_sub(n, k) = n - k + Word
<1>1. Word \in Nat /\ Word > 0 /\ n - k \in Int
  BY WordPositive
<1>2. n - k \in 0..(Word - 1) \/ n - k \in (-Word)..(-1)
  BY <1>1
<1> QED BY <1>1, <1>2, ModWord DEF fetch_sub

-----------------------------------------------------------------------------
(***************************************************************************)
(* The inductive invariant.                                                *)
(***************************************************************************)
\* What is mapped at each step of ShmemAlloc::new and Channel::new.
StartInv ==
    /\ start = "chunks" => mapped = {}
    /\ start = "list"   => mapped = {"chunks"}
    /\ start = "buffer" => mapped = {"chunks", "list"}
    /\ start = "queue"  => mapped = {"chunks", "list", "buffer"}
    /\ start = "inner"  => mapped = {"chunks", "list", "buffer", "queue"}

\* Until then there is no handle, and nothing happens in any process.
BeforeInv ==
    start # "done" =>
        /\ Creator \in alive /\ Creator \notin dangling
        /\ \A p \in Process : handles[p] = 0 /\ made[p] = 0
        /\ \A t \in Thread : pc[t] = "idle"
        /\ exported = 0 /\ imported = 0 /\ ~destroyed

\* A process that was not forked yet has nothing, one that is gone has no
\* handle, and a PerProcessReferences knows no process that does not exist.
BornInv ==
    /\ status[Creator] # "unborn"
    /\ \A p \in Process : handles[p] > 0 => p \in alive
    /\ \A p \in Process : status[p] = "unborn" =>
          p \notin dangling /\ \A w \in Worker : pc[<<p, w>>] = "idle"
    /\ \A p \in Process : status[pid[p]] # "unborn"
    /\ pid[Creator] = Creator

\* A handle is borrowed while it is cloned, and the bound on the handles that
\* are made counts those that are being made.
CloneSet(p) == {w \in Worker : pc[<<p, w>>] \in Cloning}

BorrowInv ==
    \A p \in alive : CloneSet(p) # {} => handles[p] > 0

MadeInv ==
    \A p \in Process : made[p] + Cardinality(CloneSet(p)) <= MaxMade

\* Only destroy makes another process close the channel.
DestroyInv ==
    /\ destroyed => \A p \in Process : handles[p] = 0
    /\ \A p \in Forked, w \in Worker : pc[<<p, w>>] \in Dropping => destroyed

\* The creating process counts: nobody closed the channel there, and nobody is
\* about to.
DropSet == {w \in Worker : pc[<<Creator, w>>] \in {"drop_swap", "drop_sub"}}

Counting ==
    /\ start = "done" /\ Creator \in alive /\ Creator \notin dangling
    /\ \A w \in Worker : pc[<<Creator, w>>] # "close"

CreatorInv ==
    /\ \A w \in Worker : pc[<<Creator, w>>] \notin {"reset", "panic"}
    /\ Counting =>
          /\ counter[Creator]
                = handles[Creator] + exported - imported + Cardinality(DropSet)
          /\ counter[Creator] >= 1 /\ counter[Creator] <= made[Creator]

\* When it stops to count there is no handle and no other thread inside
\* PerProcessReferences, unless a handle came in that was not counted.
ClosedInv ==
    imported = 0 =>
        /\ start = "done" /\ Creator \in alive /\ ~Counting =>
              /\ handles[Creator] = 0
              /\ \A w \in Worker :
                    pc[<<Creator, w>>] \notin Cloning \cup {"drop_swap", "drop_sub"}
        /\ \A w \in Worker : pc[<<Creator, w>>] # "ub"
        /\ \A p \in Forked : p \in dangling => destroyed

\* What is left once the creating process has closed the channel.
MappedInv ==
    /\ Creator \in dangling =>
          "inner" \notin mapped /\ ("queue" \in mapped => Shared)
    /\ imported > 0 => Shared
    /\ "inner" \notin mapped /\ start = "done"
          => Creator \in dangling \/ destroyed

\* Before its first use a forked copy holds what was counted elsewhere, and
\* every thread that is about to use it has loaded just that; from then on one
\* thread at most is about to subtract it.
Copied(p) == p \in alive \ dangling /\ ~destroyed

Unused(p) ==
    /\ made[p] = 0
    /\ \A w \in Worker :
          /\ pc[<<p, w>>] \notin {"add", "reset"}
          /\ pc[<<p, w>>] = "swap" => count[<<p, w>>] = counter[p]

NoReset(p) == \A w \in Worker : pc[<<p, w>>] # "reset"

Used(p) ==
    /\ \A w, v \in Worker :
          pc[<<p, w>>] = "reset" /\ pc[<<p, v>>] = "reset" => w = v
    /\ \A w \in Worker : pc[<<p, w>>] = "reset" =>
          /\ count[<<p, w>>] \in 1..(Word - 1)
          /\ \/ counter[p] = count[<<p, w>>] + made[p]
             \/ counter[p] = count[<<p, w>>] + made[p] - Word
    /\ NoReset(p) => counter[p] = made[p]

ForkedInv ==
    \A p \in Forked : Copied(p) =>
        /\ pid[p] # p => Unused(p)
        /\ pid[p] = p => Used(p)

\* What was counted elsewhere is not zero and not more than all the processes
\* that were there could make.
Born == {p \in Process : status[p] # "unborn"}

Before == (Cardinality(Born) - 1) * MaxMade

NotZero(p) ==
    /\ pid[p] # p => counter[p] >= 1 /\ counter[p] <= Before
    /\ \A w \in Worker : pc[<<p, w>>] = "reset" => count[<<p, w>>] <= Before
    /\ pid[p] = p /\ NoReset(p) => made[p] >= 1

ZeroInv ==
    imported = 0 =>
        /\ \A p \in Forked : p \in alive /\ ~destroyed => NotZero(p)
        /\ \A p \in Process, w \in Worker : pc[<<p, w>>] # "panic"

LifeInv ==
    /\ TypeOK /\ StartInv /\ BeforeInv /\ BornInv /\ BorrowInv /\ MadeInv
    /\ DestroyInv /\ CreatorInv /\ ClosedInv /\ MappedInv /\ ForkedInv
    /\ ZeroInv

-----------------------------------------------------------------------------
(***************************************************************************)
(* Threads.                                                                *)
(***************************************************************************)
LEMMA GotoFacts ==
    ASSUME pc \in [Thread -> PC], NEW p \in Process, NEW w \in Worker,
           NEW place \in PC, Goto(<<p, w>>, place)
    PROVE  /\ pc' \in [Thread -> PC] /\ pc'[<<p, w>>] = place
           /\ \A q \in Process, v \in Worker :
                 q # p \/ v # w => pc'[<<q, v>>] = pc[<<q, v>>]
<1>1. <<p, w>> \in Thread
  BY DEF Thread
<1>2. \A q \in Process, v \in Worker : <<q, v>> \in Thread
  BY DEF Thread
<1> QED BY <1>1, <1>2 DEF Goto

LEMMA CloneSetFinite ==
    ASSUME NEW p \in Process
    PROVE  /\ IsFiniteSet(CloneSet(p)) /\ Cardinality(CloneSet(p)) \in Nat
           /\ CloneSet(p) # {} => Cardinality(CloneSet(p)) >= 1
           /\ IsFiniteSet(DropSet) /\ Cardinality(DropSet) \in Nat
           /\ DropSet # {} => Cardinality(DropSet) >= 1
<1>1. CloneSet(p) \subseteq Worker /\ DropSet \subseteq Worker
  BY DEF CloneSet, DropSet
<1>2. IsFiniteSet(CloneSet(p)) /\ IsFiniteSet(DropSet)
  BY <1>1, FS_Subset, LifetimeAssumption
<1>3. Cardinality(CloneSet(p)) \in Nat /\ Cardinality(DropSet) \in Nat
  BY <1>2, FS_CardinalityType
<1>4. /\ CloneSet(p) # {} => Cardinality(CloneSet(p)) # 0
      /\ DropSet # {} => Cardinality(DropSet) # 0
  BY <1>2, FS_EmptySet
<1> QED BY <1>2, <1>3, <1>4

\* A thread that begins or ends to clone.
LEMMA CloneSetSteps ==
    ASSUME NEW p \in Process, NEW w \in Worker,
           \A q \in Process, v \in Worker :
              q # p \/ v # w => pc'[<<q, v>>] = pc[<<q, v>>]
    PROVE  /\ \A q \in Process : q # p => CloneSet(q)' = CloneSet(q)
           /\ (pc'[<<p, w>>] \in Cloning <=> pc[<<p, w>>] \in Cloning)
                 => CloneSet(p)' = CloneSet(p)
           /\ pc'[<<p, w>>] \in Cloning /\ pc[<<p, w>>] \notin Cloning
                 => Cardinality(CloneSet(p)') = Cardinality(CloneSet(p)) + 1
           /\ pc'[<<p, w>>] \notin Cloning /\ pc[<<p, w>>] \in Cloning
                 => Cardinality(CloneSet(p)') = Cardinality(CloneSet(p)) - 1
           /\ pc'[<<p, w>>] \notin Cloning => CloneSet(p)' = CloneSet(p) \ {w}
<1>1. \A q \in Process : q # p => CloneSet(q)' = CloneSet(q)
  BY DEF CloneSet
<1>2. (pc'[<<p, w>>] \in Cloning <=> pc[<<p, w>>] \in Cloning)
         => CloneSet(p)' = CloneSet(p)
  BY DEF CloneSet
<1>3. pc'[<<p, w>>] \in Cloning /\ pc[<<p, w>>] \notin Cloning
         => CloneSet(p)' = CloneSet(p) \cup {w} /\ w \notin CloneSet(p)
  BY DEF CloneSet
<1>4. /\ pc'[<<p, w>>] \notin Cloning => CloneSet(p)' = CloneSet(p) \ {w}
      /\ pc[<<p, w>>] \in Cloning => w \in CloneSet(p)
  BY DEF CloneSet
<1>5. IsFiniteSet(CloneSet(p))
  BY CloneSetFinite
<1>6. pc'[<<p, w>>] \in Cloning /\ pc[<<p, w>>] \notin Cloning
         => Cardinality(CloneSet(p)') = Cardinality(CloneSet(p)) + 1
  BY <1>3, <1>5, FS_AddElement
<1>7. pc'[<<p, w>>] \notin Cloning /\ pc[<<p, w>>] \in Cloning
         => Cardinality(CloneSet(p)') = Cardinality(CloneSet(p)) - 1
  BY <1>4, <1>5, FS_RemoveElement
<1> QED BY <1>1, <1>2, <1>4, <1>6, <1>7

LEMMA SpareFacts ==
    ASSUME TypeOK, NEW p \in Process, Spare(p) > 0
    PROVE  /\ handles[p] \in Nat /\ handles[p] > 0
           /\ CloneSet(p) # {} => handles[p] > 1
BY DEF Spare, CloneSet, TypeOK

\* Next, with the parts of a thread named.
ThreadStep(p, w) ==
    \/ clone(<<p, w>>) \/ Load(<<p, w>>) \/ Swap(<<p, w>>)
    \/ Add(<<p, w>>) \/ Reset(<<p, w>>) \/ drop(<<p, w>>)
    \/ destroy(<<p, w>>) \/ DropSwap(<<p, w>>)
    \/ DropSub(<<p, w>>) \/ Close(<<p, w>>)
    \/ UseAfterFree(<<p, w>>)

LEMMA NextCases ==
    ASSUME [Next]_vars
    PROVE  \/ Allocate \/ AllocateFails \/ UNCHANGED vars
           \/ \E p, q \in Process : fork(p, q) \/ Move(p, q)
           \/ \E p \in Process : Exit(p)
           \/ \E p \in Process, w \in Worker : ThreadStep(p, w)
<1>1. \A t \in Thread : \E p \in Process, w \in Worker : t = <<p, w>>
  BY DEF Thread
<1> QED BY <1>1 DEF Next, ThreadStep

\* Where a thread goes, and what that leaves alone.
LEMMA Walk ==
    ASSUME TypeOK, NEW p \in Process, NEW w \in Worker
    PROVE  /\ clone(<<p, w>>) => Goto(<<p, w>>, "load") /\ pc[<<p, w>>] = "idle"
           /\ Load(<<p, w>>) => Goto(<<p, w>>, "swap") /\ pc[<<p, w>>] = "load"
           /\ Swap(<<p, w>>) =>
                 /\ pc[<<p, w>>] = "swap"
                 /\ \/ pid[p] = p /\ Goto(<<p, w>>, "add")
                    \/ pid[p] # p /\ count[<<p, w>>] = 0 /\ Goto(<<p, w>>, "panic")
                    \/ pid[p] # p /\ count[<<p, w>>] # 0 /\ Goto(<<p, w>>, "reset")
           /\ Add(<<p, w>>) => Goto(<<p, w>>, "idle") /\ pc[<<p, w>>] = "add"
           /\ Reset(<<p, w>>) => Goto(<<p, w>>, "idle") /\ pc[<<p, w>>] = "reset"
           /\ drop(<<p, w>>) =>
                 /\ pc[<<p, w>>] = "idle"
                 /\ IF p = Creator THEN Goto(<<p, w>>, "drop_swap")
                                   ELSE UNCHANGED pc
           /\ destroy(<<p, w>>) => /\ Goto(<<p, w>>, "drop_swap")
                                   /\ pc[<<p, w>>] = "idle"
           /\ DropSwap(<<p, w>>) =>
                 /\ pc[<<p, w>>] = "drop_swap"
                 /\ \/ pid[p] = p /\ Goto(<<p, w>>, "drop_sub")
                    \/ pid[p] # p /\ Goto(<<p, w>>, "close")
           /\ DropSub(<<p, w>>) =>
                 /\ pc[<<p, w>>] = "drop_sub"
                 /\ \/ counter[p] = 1 /\ Goto(<<p, w>>, "close")
                    \/ counter[p] # 1 /\ Goto(<<p, w>>, "idle")
           /\ Close(<<p, w>>) => Goto(<<p, w>>, "idle") /\ pc[<<p, w>>] = "close"
           /\ UseAfterFree(<<p, w>>) => Goto(<<p, w>>, "ub")
BY DEF clone, Load, Swap, Add, Reset, drop, destroy, DropSwap, DropSub, Close,
       UseAfterFree, Made, At

LEMMA OthersStay ==
    ASSUME TypeOK, NEW p \in Process, NEW w \in Worker, ThreadStep(p, w)
    PROVE  \A q \in Process, v \in Worker :
              q # p \/ v # w => pc'[<<q, v>>] = pc[<<q, v>>]
<1>1. pc \in [Thread -> PC]
  BY DEF TypeOK
<1>2. UNCHANGED pc \/ \E place \in PC : Goto(<<p, w>>, place)
  <2>1. {"load", "swap", "add", "panic", "reset", "idle", "drop_swap",
         "drop_sub", "close", "ub"} \subseteq PC
    BY DEF PC, Cloning, Dropping
  <2> QED BY <2>1, Walk DEF ThreadStep
<1> QED BY <1>1, <1>2, GotoFacts

LEMMA ThreadFrame ==
    ASSUME TypeOK, NEW p \in Process, NEW w \in Worker, ThreadStep(p, w)
    PROVE  /\ UNCHANGED <<start, status, exported, imported>> /\ p \in alive
           /\ \A q \in Process, v \in Worker : q # p \/ v # w =>
                 /\ pc'[<<q, v>>] = pc[<<q, v>>]
                 /\ count'[<<q, v>>] = count[<<q, v>>]
           /\ \A q \in Process : q # p =>
                 /\ handles'[q] = handles[q] /\ counter'[q] = counter[q]
                 /\ pid'[q] = pid[q] /\ made'[q] = made[q]
           /\ pid'[p] \in {pid[p], p}
           /\ Close(<<p, w>>) \/ UNCHANGED <<mapped, dangling>>
           /\ dangling' \in {dangling, dangling \cup {p}}
           /\ destroy(<<p, w>>) \/ UNCHANGED destroyed
<1> USE DEF At, Running, Made, heap, history, TypeOK
<1>a. \A q \in Process, v \in Worker : <<q, v>> \in Thread
  BY DEF Thread
<1> DEFINE Frame ==
           /\ UNCHANGED <<start, status, exported, imported>> /\ p \in alive
           /\ \A q \in Process, v \in Worker : q # p \/ v # w =>
                 count'[<<q, v>>] = count[<<q, v>>]
           /\ \A q \in Process : q # p =>
                 /\ handles'[q] = handles[q] /\ counter'[q] = counter[q]
                 /\ pid'[q] = pid[q] /\ made'[q] = made[q]
           /\ pid'[p] \in {pid[p], p}
<1>1. CASE clone(<<p, w>>)
  <2>1. Frame
    BY <1>1, <1>a DEF clone
  <2>2. Close(<<p, w>>) \/ UNCHANGED <<mapped, dangling>>
    BY <1>1 DEF clone
  <2>3. dangling' \in {dangling, dangling \cup {p}}
    BY <1>1 DEF clone
  <2>4. destroy(<<p, w>>) \/ UNCHANGED destroyed
    BY <1>1 DEF clone
  <2> QED BY <2>1, <2>2, <2>3, <2>4, OthersStay
<1>2. CASE Load(<<p, w>>)
  <2>1. Frame
    BY <1>2, <1>a DEF Load
  <2>2. Close(<<p, w>>) \/ UNCHANGED <<mapped, dangling>>
    BY <1>2 DEF Load
  <2>3. dangling' \in {dangling, dangling \cup {p}}
    BY <1>2 DEF Load
  <2>4. destroy(<<p, w>>) \/ UNCHANGED destroyed
    BY <1>2 DEF Load
  <2> QED BY <2>1, <2>2, <2>3, <2>4, OthersStay
<1>3. CASE Swap(<<p, w>>)
  <2>1. Frame
    BY <1>3, <1>a DEF Swap
  <2>2. Close(<<p, w>>) \/ UNCHANGED <<mapped, dangling>>
    BY <1>3 DEF Swap
  <2>3. dangling' \in {dangling, dangling \cup {p}}
    BY <1>3 DEF Swap
  <2>4. destroy(<<p, w>>) \/ UNCHANGED destroyed
    BY <1>3 DEF Swap
  <2> QED BY <2>1, <2>2, <2>3, <2>4, OthersStay
<1>4. CASE Add(<<p, w>>)
  <2>1. Frame
    BY <1>4, <1>a DEF Add
  <2>2. Close(<<p, w>>) \/ UNCHANGED <<mapped, dangling>>
    BY <1>4 DEF Add
  <2>3. dangling' \in {dangling, dangling \cup {p}}
    BY <1>4 DEF Add
  <2>4. destroy(<<p, w>>) \/ UNCHANGED destroyed
    BY <1>4 DEF Add
  <2> QED BY <2>1, <2>2, <2>3, <2>4, OthersStay
<1>5. CASE Reset(<<p, w>>)
  <2>1. Frame
    BY <1>5, <1>a DEF Reset
  <2>2. Close(<<p, w>>) \/ UNCHANGED <<mapped, dangling>>
    BY <1>5 DEF Reset
  <2>3. dangling' \in {dangling, dangling \cup {p}}
    BY <1>5 DEF Reset
  <2>4. destroy(<<p, w>>) \/ UNCHANGED destroyed
    BY <1>5 DEF Reset
  <2> QED BY <2>1, <2>2, <2>3, <2>4, OthersStay
<1>6. CASE drop(<<p, w>>)
  <2>1. Frame
    BY <1>6, <1>a DEF drop
  <2>2. Close(<<p, w>>) \/ UNCHANGED <<mapped, dangling>>
    BY <1>6 DEF drop
  <2>3. dangling' \in {dangling, dangling \cup {p}}
    BY <1>6 DEF drop
  <2>4. destroy(<<p, w>>) \/ UNCHANGED destroyed
    BY <1>6 DEF drop
  <2> QED BY <2>1, <2>2, <2>3, <2>4, OthersStay
<1>7. CASE destroy(<<p, w>>)
  <2>1. Frame
    BY <1>7, <1>a DEF destroy
  <2>2. Close(<<p, w>>) \/ UNCHANGED <<mapped, dangling>>
    BY <1>7 DEF destroy
  <2>3. dangling' \in {dangling, dangling \cup {p}}
    BY <1>7 DEF destroy
  <2>4. destroy(<<p, w>>) \/ UNCHANGED destroyed
    BY <1>7 DEF destroy
  <2> QED BY <2>1, <2>2, <2>3, <2>4, OthersStay
<1>8. CASE DropSwap(<<p, w>>)
  <2>1. Frame
    BY <1>8, <1>a DEF DropSwap
  <2>2. Close(<<p, w>>) \/ UNCHANGED <<mapped, dangling>>
    BY <1>8 DEF DropSwap
  <2>3. dangling' \in {dangling, dangling \cup {p}}
    BY <1>8 DEF DropSwap
  <2>4. destroy(<<p, w>>) \/ UNCHANGED destroyed
    BY <1>8 DEF DropSwap
  <2> QED BY <2>1, <2>2, <2>3, <2>4, OthersStay
<1>9. CASE DropSub(<<p, w>>)
  <2>1. Frame
    BY <1>9, <1>a DEF DropSub
  <2>2. Close(<<p, w>>) \/ UNCHANGED <<mapped, dangling>>
    BY <1>9 DEF DropSub
  <2>3. dangling' \in {dangling, dangling \cup {p}}
    BY <1>9 DEF DropSub
  <2>4. destroy(<<p, w>>) \/ UNCHANGED destroyed
    BY <1>9 DEF DropSub
  <2> QED BY <2>1, <2>2, <2>3, <2>4, OthersStay
<1>10. CASE Close(<<p, w>>)
  <2>1. Frame
    BY <1>10, <1>a DEF Close
  <2>2. Close(<<p, w>>) \/ UNCHANGED <<mapped, dangling>>
    BY <1>10 DEF Close
  <2>3. dangling' \in {dangling, dangling \cup {p}}
    BY <1>10 DEF Close
  <2>4. destroy(<<p, w>>) \/ UNCHANGED destroyed
    BY <1>10 DEF Close
  <2> QED BY <2>1, <2>2, <2>3, <2>4, OthersStay
<1>11. CASE UseAfterFree(<<p, w>>)
  <2>1. Frame
    BY <1>11, <1>a DEF UseAfterFree
  <2>2. Close(<<p, w>>) \/ UNCHANGED <<mapped, dangling>>
    BY <1>11 DEF UseAfterFree
  <2>3. dangling' \in {dangling, dangling \cup {p}}
    BY <1>11 DEF UseAfterFree
  <2>4. destroy(<<p, w>>) \/ UNCHANGED destroyed
    BY <1>11 DEF UseAfterFree
  <2> QED BY <2>1, <2>2, <2>3, <2>4, OthersStay
<1> QED BY <1>1, <1>2, <1>3, <1>4, <1>5, <1>6, <1>7, <1>8, <1>9, <1>10, <1>11
        DEF ThreadStep

LEMMA OwnFrame ==
    ASSUME TypeOK, NEW p \in Process, NEW w \in Worker, ThreadStep(p, w)
    PROVE  /\ p \in alive /\ UNCHANGED status
           /\ \A v \in Worker : v # w => /\ pc'[<<p, v>>] = pc[<<p, v>>]
                                         /\ count'[<<p, v>>] = count[<<p, v>>]
<1>1. /\ p \in alive /\ UNCHANGED status
      /\ \A q \in Process, v \in Worker : q # p \/ v # w =>
            /\ pc'[<<q, v>>] = pc[<<q, v>>]
            /\ count'[<<q, v>>] = count[<<q, v>>]
  BY ThreadFrame
<1> QED BY <1>1

\* What a thread's step does to its process, point by point.
LEMMA CloneEffect ==
    ASSUME TypeOK, NEW p \in Process, NEW w \in Worker, clone(<<p, w>>)
    PROVE  /\ pc[<<p, w>>] = "idle" /\ pc'[<<p, w>>] = "load"
           /\ handles[p] > 0 /\ made[p] + Cardinality(CloneSet(p)) < MaxMade
           /\ handles'[p] = handles[p] /\ counter'[p] = counter[p]
           /\ pid'[p] = pid[p] /\ made'[p] = made[p]
           /\ count'[<<p, w>>] = count[<<p, w>>]
           /\ UNCHANGED <<mapped, dangling, destroyed>>
<1>1. <<p, w>> \in Thread
  BY DEF Thread
<1> QED BY <1>1 DEF clone, TypeOK, At, Running, Goto, Made, heap, history, CloneSet

LEMMA LoadEffect ==
    ASSUME TypeOK, NEW p \in Process, NEW w \in Worker, Load(<<p, w>>)
    PROVE  /\ pc[<<p, w>>] = "load" /\ pc'[<<p, w>>] = "swap"
           /\ p \notin dangling /\ count'[<<p, w>>] = counter[p]
           /\ handles'[p] = handles[p] /\ counter'[p] = counter[p]
           /\ pid'[p] = pid[p] /\ made'[p] = made[p]
           /\ UNCHANGED <<mapped, dangling, destroyed>>
<1>1. <<p, w>> \in Thread
  BY DEF Thread
<1> QED BY <1>1 DEF Load, TypeOK, At, Running, Goto, Made, heap, history

LEMMA SwapEffect ==
    ASSUME TypeOK, NEW p \in Process, NEW w \in Worker, Swap(<<p, w>>)
    PROVE  /\ pc[<<p, w>>] = "swap" /\ pc'[<<p, w>>] = IF pid[p] = p THEN "add"
                    ELSE IF count[<<p, w>>] = 0 THEN "panic" ELSE "reset"
           /\ p \notin dangling /\ pid'[p] = p
           /\ handles'[p] = handles[p] /\ counter'[p] = counter[p]
           /\ made'[p] = made[p] /\ count'[<<p, w>>] = count[<<p, w>>]
           /\ UNCHANGED <<mapped, dangling, destroyed>>
<1>1. <<p, w>> \in Thread
  BY DEF Thread
<1> QED BY <1>1 DEF Swap, TypeOK, At, Running, Goto, Made, heap, history

LEMMA AddEffect ==
    ASSUME TypeOK, NEW p \in Process, NEW w \in Worker, Add(<<p, w>>)
    PROVE  /\ pc[<<p, w>>] = "add" /\ pc'[<<p, w>>] = "idle"
           /\ p \notin dangling /\ counter'[p] = fetch_add(counter[p], 1)
           /\ handles'[p] = handles[p] + 1 /\ made'[p] = made[p] + 1
           /\ pid'[p] = pid[p]
           /\ UNCHANGED <<mapped, dangling, destroyed>>
<1>1. <<p, w>> \in Thread
  BY DEF Thread
<1> QED BY <1>1 DEF Add, TypeOK, At, Running, Goto, Made, heap, history

LEMMA ResetEffect ==
    ASSUME TypeOK, NEW p \in Process, NEW w \in Worker, Reset(<<p, w>>)
    PROVE  /\ pc[<<p, w>>] = "reset" /\ pc'[<<p, w>>] = "idle"
           /\ p \notin dangling
           /\ counter'[p] = fetch_sub(counter[p], count[<<p, w>>] - 1)
           /\ handles'[p] = handles[p] + 1 /\ made'[p] = made[p] + 1
           /\ pid'[p] = pid[p]
           /\ UNCHANGED <<mapped, dangling, destroyed>>
<1>1. <<p, w>> \in Thread
  BY DEF Thread
<1> QED BY <1>1 DEF Reset, TypeOK, At, Running, Goto, Made, heap, history

LEMMA DropEffect ==
    ASSUME TypeOK, NEW p \in Process, NEW w \in Worker, drop(<<p, w>>)
    PROVE  /\ pc[<<p, w>>] = "idle"
           /\ pc'[<<p, w>>] = IF p = Creator THEN "drop_swap" ELSE "idle"
           /\ handles'[p] = handles[p] - 1 /\ Spare(p) > 0
           /\ counter'[p] = counter[p] /\ pid'[p] = pid[p]
           /\ made'[p] = made[p] /\ count'[<<p, w>>] = count[<<p, w>>]
           /\ UNCHANGED <<mapped, dangling, destroyed>>
<1>1. <<p, w>> \in Thread
  BY DEF Thread
<1> QED BY <1>1 DEF drop, TypeOK, At, Running, Goto, Made, heap, history

LEMMA DestroyEffect ==
    ASSUME TypeOK, NEW p \in Process, NEW w \in Worker, destroy(<<p, w>>)
    PROVE  /\ pc[<<p, w>>] = "idle" /\ pc'[<<p, w>>] = "drop_swap"
           /\ handles[p] = 1 /\ handles'[p] = 0 /\ "inner" \in mapped /\ destroyed'
           /\ \A v \in Worker : pc[<<p, v>>] = "idle"
           /\ \A q \in Process : q # p => handles[q] = 0
           /\ counter'[p] = counter[p] /\ pid'[p] = pid[p]
           /\ made'[p] = made[p] /\ count'[<<p, w>>] = count[<<p, w>>]
           /\ UNCHANGED <<mapped, dangling>>
<1>1. <<p, w>> \in Thread
  BY DEF Thread
<1> QED BY <1>1 DEF destroy, TypeOK, At, Running, Goto, Made, heap, history

LEMMA DropSwapEffect ==
    ASSUME TypeOK, NEW p \in Process, NEW w \in Worker, DropSwap(<<p, w>>)
    PROVE  /\ pc[<<p, w>>] = "drop_swap"
           /\ pc'[<<p, w>>] = IF pid[p] = p THEN "drop_sub" ELSE "close"
           /\ p \notin dangling /\ pid'[p] = p
           /\ handles'[p] = handles[p] /\ counter'[p] = counter[p]
           /\ made'[p] = made[p] /\ count'[<<p, w>>] = count[<<p, w>>]
           /\ UNCHANGED <<mapped, dangling, destroyed>>
<1>1. <<p, w>> \in Thread
  BY DEF Thread
<1> QED BY <1>1 DEF DropSwap, TypeOK, At, Running, Goto, Made, heap, history

LEMMA DropSubEffect ==
    ASSUME TypeOK, NEW p \in Process, NEW w \in Worker, DropSub(<<p, w>>)
    PROVE  /\ pc[<<p, w>>] = "drop_sub"
           /\ pc'[<<p, w>>] = IF counter[p] = 1 THEN "close" ELSE "idle"
           /\ p \notin dangling /\ counter'[p] = fetch_sub(counter[p], 1)
           /\ handles'[p] = handles[p] /\ pid'[p] = pid[p]
           /\ made'[p] = made[p] /\ count'[<<p, w>>] = count[<<p, w>>]
           /\ UNCHANGED <<mapped, dangling, destroyed>>
<1>1. <<p, w>> \in Thread
  BY DEF Thread
<1> QED BY <1>1 DEF DropSub, TypeOK, At, Running, Goto, Made, heap, history

LEMMA CloseEffect ==
    ASSUME TypeOK, NEW p \in Process, NEW w \in Worker, Close(<<p, w>>)
    PROVE  /\ pc[<<p, w>>] = "close" /\ pc'[<<p, w>>] = "idle"
           /\ \/ p = Creator /\ mapped' = mapped \ {"inner", "queue"}
              \/ (p # Creator \/ MutexInUse) /\ mapped' = mapped \ {"inner"}
           /\ dangling' = dangling \cup {p}
           /\ handles'[p] = handles[p] /\ counter'[p] = counter[p]
           /\ pid'[p] = pid[p] /\ made'[p] = made[p]
           /\ count'[<<p, w>>] = count[<<p, w>>]
           /\ UNCHANGED <<destroyed>>
<1>1. <<p, w>> \in Thread
  BY DEF Thread
<1> QED BY <1>1 DEF Close, TypeOK, At, Running, Goto, Made, heap, history

LEMMA UseAfterFreeEffect ==
    ASSUME TypeOK, NEW p \in Process, NEW w \in Worker, UseAfterFree(<<p, w>>)
    PROVE  /\ pc[<<p, w>>] \in Cloning \cup {"drop_swap", "drop_sub"}
           /\ pc'[<<p, w>>] = "ub"
           /\ p \in dangling
           /\ handles'[p] = handles[p] /\ counter'[p] = counter[p]
           /\ pid'[p] = pid[p] /\ made'[p] = made[p]
           /\ count'[<<p, w>>] = count[<<p, w>>]
           /\ UNCHANGED <<mapped, dangling, destroyed>>
<1>1. <<p, w>> \in Thread
  BY DEF Thread
<1> QED BY <1>1 DEF UseAfterFree, TypeOK, At, Running, Goto, Made, heap, history


LEMMA TypeStep ==
    ASSUME LifeInv, [Next]_vars PROVE TypeOK'
<1> USE DEF TypeOK, heap, history
<1>a. LifetimeAssumption /\ Word \in Nat /\ Word > MaxMade /\ MaxMade >= 1
  BY LifetimeAssumption, WordPositive
<1>b. TypeOK
  BY DEF LifeInv
<1>1. CASE Allocate
  <2>1. start' \in Allocations \cup {"done"}
    BY <1>1 DEF Allocate, Following, Allocations
  <2> QED BY <1>1, <1>a, <1>b, <2>1 DEF Allocate, new, Process
<1>2. CASE AllocateFails
  BY <1>2, <1>b DEF AllocateFails
<1>3. ASSUME NEW p \in Process, NEW q \in Process, fork(p, q) PROVE TypeOK'
  BY <1>3, <1>a, <1>b DEF fork
<1>4. ASSUME NEW p \in Process, NEW q \in Process, Move(p, q) PROVE TypeOK'
  BY <1>4, <1>a, <1>b, SpareFacts DEF Move
<1>5. ASSUME NEW p \in Process, Exit(p) PROVE TypeOK'
  BY <1>5, <1>b DEF Exit
<1>6. ASSUME NEW p \in Process, NEW w \in Worker,
             clone(<<p, w>>) \/ Load(<<p, w>>) \/ Swap(<<p, w>>)
      PROVE  TypeOK'
  <2>1. pc' \in [Thread -> PC]
    BY <1>6, <1>b, Walk, GotoFacts DEF PC, Cloning
  <2> QED BY <1>6, <1>b, <2>1 DEF clone, Load, Swap
<1>7. ASSUME NEW p \in Process, NEW w \in Worker, Add(<<p, w>>) \/ Reset(<<p, w>>)
      PROVE  TypeOK'
  <2>1. pc' \in [Thread -> PC] /\ pc[<<p, w>>] \in Cloning
    BY <1>7, <1>b, Walk, GotoFacts DEF PC, Cloning
  <2>2. made[p] + 1 <= MaxMade
    <3>1. CloneSet(p) # {}
      BY <2>1 DEF CloneSet
    <3>2. Cardinality(CloneSet(p)) \in Nat /\ Cardinality(CloneSet(p)) >= 1
      BY <3>1, CloneSetFinite
    <3>3. made[p] + Cardinality(CloneSet(p)) <= MaxMade
      BY DEF LifeInv, MadeInv
    <3>4. made[p] \in Nat
      BY <1>b, <1>a
    <3> QED BY <3>2, <3>3, <3>4, <1>a
  <2>3. counter' \in [Process -> 0..(Word - 1)]
    <3>1. fetch_add(counter[p], 1) \in 0..(Word - 1)
      BY <1>b, AddFacts
    <3>2. fetch_sub(counter[p], count[<<p, w>>] - 1) \in 0..(Word - 1)
      <4>1. count[<<p, w>>] \in Nat
        BY <1>b DEF Thread
      <4>2. counter[p] - (count[<<p, w>>] - 1) \in Int
        BY <4>1, <1>b
      <4> QED BY <4>2, <1>a, ModWord DEF fetch_sub
    <3> QED BY <1>7, <1>b, <3>1, <3>2 DEF Add, Reset
  <2> QED BY <1>7, <1>a, <1>b, <2>1, <2>2, <2>3 DEF Add, Reset, Made
<1>8. ASSUME NEW p \in Process, NEW w \in Worker,
             drop(<<p, w>>) \/ destroy(<<p, w>>)
      PROVE  TypeOK'
  <2>1. pc' \in [Thread -> PC]
    BY <1>8, <1>b, Walk, GotoFacts DEF PC, Dropping
  <2>2. CASE drop(<<p, w>>)
    <3>1. handles[p] \in Nat /\ handles[p] > 0
      BY <2>2, <1>b, SpareFacts DEF drop
    <3>2. handles' = [handles EXCEPT ![p] = handles[p] - 1]
      BY <2>2 DEF drop
    <3>3. handles' \in [Process -> Nat]
      BY <1>b, <3>1, <3>2
    <3> QED BY <2>2, <1>b, <2>1, <3>3 DEF drop
  <2>3. CASE destroy(<<p, w>>)
    BY <2>3, <1>b, <2>1 DEF destroy
  <2> QED BY <1>8, <2>2, <2>3
<1>9. ASSUME NEW p \in Process, NEW w \in Worker,
             \/ DropSwap(<<p, w>>) \/ DropSub(<<p, w>>) \/ Close(<<p, w>>)
             \/ UseAfterFree(<<p, w>>)
      PROVE  TypeOK'
  <2>1. pc' \in [Thread -> PC]
    BY <1>9, <1>b, Walk, GotoFacts DEF PC, Dropping
  <2>2. fetch_sub(counter[p], 1) \in 0..(Word - 1)
    BY <1>a, <1>b, SubFacts
  <2>3. CASE DropSub(<<p, w>>)
    BY <2>3, <1>b, <2>1, <2>2 DEF DropSub
  <2>4. CASE DropSwap(<<p, w>>) \/ UseAfterFree(<<p, w>>)
    BY <2>4, <1>b, <2>1 DEF DropSwap, UseAfterFree
  <2>5. CASE Close(<<p, w>>)
    BY <2>5, <1>b, <2>1 DEF Close
  <2> QED BY <1>9, <2>3, <2>4, <2>5
<1>10. CASE UNCHANGED vars
  BY <1>10, <1>b DEF vars
<1> QED BY <1>1, <1>2, <1>3, <1>4, <1>5, <1>6, <1>7, <1>8, <1>9, <1>10, NextCases
        DEF ThreadStep

LEMMA StartStep ==
    ASSUME LifeInv, [Next]_vars PROVE StartInv'
<1> USE DEF StartInv
<1>a. TypeOK /\ StartInv /\ BeforeInv
  BY DEF LifeInv
<1>1. CASE Allocate
  <2>1. /\ start \in Allocations /\ start' = Following[start]
        /\ mapped' = mapped \cup {start}
    BY <1>1 DEF Allocate
  <2> QED BY <2>1, <1>a DEF Following, Allocations
<1>2. CASE AllocateFails
  <2>1. /\ start \in Allocations /\ start' = "failed"
        /\ mapped' = mapped \ Unwound(start)
    BY <1>2 DEF AllocateFails
  <2> QED BY <2>1, <1>a DEF Unwound, Allocations
<1>3. ASSUME NEW p \in Process, NEW w \in Worker, Close(<<p, w>>) PROVE StartInv'
  <2>1. <<p, w>> \in Thread /\ pc[<<p, w>>] = "close" /\ start' = start
    BY <1>3 DEF Close, At, Thread
  <2>2. start = "done"
    BY <2>1, <1>a DEF BeforeInv
  <2> QED BY <2>1, <2>2
<1>4. CASE UNCHANGED <<start, mapped>>
  BY <1>4, <1>a
<1>5. \/ Allocate \/ AllocateFails \/ UNCHANGED <<start, mapped>>
      \/ \E p \in Process, w \in Worker : Close(<<p, w>>)
  BY <1>a, NextCases, ThreadFrame DEF fork, Move, Exit, vars
<1> QED BY <1>1, <1>2, <1>3, <1>4, <1>5

\* Until the channel exists no action of a process or a thread is possible.
LEMMA NothingBefore ==
    ASSUME LifeInv, [Next]_vars, start # "done"
    PROVE  Allocate \/ AllocateFails \/ UNCHANGED vars
<1>1. /\ \A p \in Process : handles[p] = 0
      /\ \A p \in Process, w \in Worker : pc[<<p, w>>] = "idle"
  BY DEF LifeInv, BeforeInv, Thread
<1>2. \A p \in Process : ~(Spare(p) > 0)
  BY <1>1 DEF Spare, Cloning
<1>3. ASSUME NEW p \in Process, NEW q \in Process
      PROVE  ~fork(p, q) /\ ~Move(p, q) /\ ~Exit(p)
  BY <1>1, <1>2 DEF fork, Move, Exit
<1>4. ASSUME NEW p \in Process, NEW w \in Worker
      PROVE  /\ ~clone(<<p, w>>) /\ ~Load(<<p, w>>) /\ ~Swap(<<p, w>>)
             /\ ~Add(<<p, w>>) /\ ~Reset(<<p, w>>) /\ ~drop(<<p, w>>)
             /\ ~destroy(<<p, w>>) /\ ~DropSwap(<<p, w>>)
             /\ ~DropSub(<<p, w>>) /\ ~Close(<<p, w>>)
             /\ ~UseAfterFree(<<p, w>>)
  BY <1>1, <1>2 DEF clone, Load, Swap, Add, Reset, drop, destroy, DropSwap,
                    DropSub, Close, UseAfterFree, At, Cloning
<1> QED BY <1>3, <1>4, NextCases DEF ThreadStep

LEMMA BeforeStep ==
    ASSUME LifeInv, [Next]_vars PROVE BeforeInv'
<1>1. CASE start = "done"
  <2>1. start' = "done"
    BY <1>1, NextCases, ThreadFrame
       DEF fork, Move, Exit, vars, Allocate, AllocateFails, Allocations, LifeInv
  <2> QED BY <2>1 DEF BeforeInv
<1>2. CASE start # "done"
  <2>1. BeforeInv
    BY DEF LifeInv
  <2>2. CASE Allocate
    BY <1>2, <2>1, <2>2 DEF Allocate, BeforeInv, alive
  <2>3. CASE AllocateFails
    BY <1>2, <2>1, <2>3 DEF AllocateFails, BeforeInv, alive, heap, history
  <2>4. CASE UNCHANGED vars
    BY <1>2, <2>1, <2>4 DEF vars, BeforeInv, alive, heap, history
  <2> QED BY <1>2, <2>2, <2>3, <2>4, NothingBefore
<1> QED BY <1>1, <1>2

LEMMA BornStep ==
    ASSUME LifeInv, [Next]_vars PROVE BornInv'
<1> USE DEF BornInv, alive, heap, history
<1>a. TypeOK /\ BornInv
  BY DEF LifeInv
<1>b. Creator \in Process
  BY DEF Process
<1>1. CASE start # "done"
  <2>1. BeforeInv
    BY DEF LifeInv
  <2>2. UNCHANGED <<status, pid, dangling, pc>>
    BY <1>1, NothingBefore DEF Allocate, AllocateFails, vars
  <2>3. \A q \in Process : handles'[q] > 0 => q \in alive
    BY <1>1, <1>a, <2>1, NothingBefore
       DEF Allocate, AllocateFails, vars, BeforeInv, TypeOK
  <2> QED BY <1>a, <2>2, <2>3
<1>2. ASSUME NEW p \in Process, NEW q \in Process, fork(p, q) PROVE BornInv'
  BY <1>2, <1>a, <1>b DEF fork, TypeOK
<1>3. ASSUME NEW p \in Process, NEW q \in Process, Move(p, q) PROVE BornInv'
  BY <1>3, <1>a, <1>b, SpareFacts DEF Move, TypeOK
<1>4. ASSUME NEW p \in Process, Exit(p) PROVE BornInv'
  BY <1>4, <1>a, <1>b DEF Exit, TypeOK
<1>6. ASSUME NEW p \in Process, NEW w \in Worker, ThreadStep(p, w)
      PROVE  BornInv'
  <2>1. /\ p \in alive /\ UNCHANGED status
        /\ \A q \in Process, v \in Worker :
              q # p \/ v # w => pc'[<<q, v>>] = pc[<<q, v>>]
        /\ \A q \in Process : q # p => handles'[q] = handles[q]
        /\ \A q \in Process : q # p => pid'[q] = pid[q]
        /\ pid'[p] \in {pid[p], p}
        /\ dangling' \in {dangling, dangling \cup {p}}
    <3> HIDE DEF BornInv, alive, heap, history
    <3> QED BY <1>6, <1>a, ThreadFrame
  <2> QED BY <2>1, <1>a, <1>b DEF TypeOK
<1>7. CASE UNCHANGED vars
  BY <1>7, <1>a DEF vars
<1>8. CASE start = "done"
  <2>1. ~Allocate /\ ~AllocateFails
    BY <1>8 DEF Allocate, AllocateFails, Allocations
  <2> QED BY <2>1, <1>2, <1>3, <1>4, <1>6, <1>7, NextCases
<1> QED BY <1>1, <1>8

LEMMA StillQuiet ==
    ASSUME LifeInv, [Next]_vars, start # "done"
    PROVE  /\ UNCHANGED <<status, pid, dangling, pc, count, exported, imported,
                          destroyed>>
           /\ \A p \in Process, w \in Worker : pc'[<<p, w>>] = "idle"
           /\ \A p \in Process : CloneSet(p)' = {} /\ p \in Forked =>
                 handles'[p] = 0 /\ made'[p] = 0 /\ counter'[p] = counter[p]
           /\ \A p \in Process : made'[p] <= MaxMade
           /\ BeforeInv /\ Creator \in alive'
<1>1. BeforeInv /\ TypeOK
  BY DEF LifeInv
<1>2. UNCHANGED <<status, pid, dangling, pc, count, exported, imported, destroyed>>
  BY NothingBefore DEF Allocate, AllocateFails, vars, heap, history
<1>3. \A p \in Process, w \in Worker : pc'[<<p, w>>] = "idle"
  BY <1>1, <1>2 DEF BeforeInv, Thread
<1>4. \A p \in Forked :
         handles'[p] = 0 /\ made'[p] = 0 /\ counter'[p] = counter[p]
  <2>1. \A p \in Forked : p \in Process /\ p # Creator
    BY LifetimeAssumption DEF Process
  <2>2. \A p \in Forked : /\ handles'[p] = handles[p] /\ made'[p] = made[p]
                          /\ counter'[p] = counter[p]
    BY <1>1, <2>1, NothingBefore
       DEF Allocate, AllocateFails, vars, heap, history, TypeOK
  <2> QED BY <1>1, <2>1, <2>2 DEF BeforeInv
<1>5. \A p \in Process : made'[p] <= MaxMade
  BY <1>1, NothingBefore, WordPositive
     DEF Allocate, AllocateFails, vars, heap, history, TypeOK
<1>6. Creator \in alive'
  BY <1>1, <1>2 DEF BeforeInv, alive
<1> QED BY <1>1, <1>2, <1>3, <1>4, <1>5, <1>6

LEMMA DoneCases ==
    ASSUME LifeInv, [Next]_vars, start = "done"
    PROVE  \/ UNCHANGED vars
           \/ \E p, q \in Process : fork(p, q) \/ Move(p, q)
           \/ \E p \in Process : Exit(p)
           \/ \E p \in Process, w \in Worker : ThreadStep(p, w)
<1>1. ~Allocate /\ ~AllocateFails
  BY DEF Allocate, AllocateFails, Allocations
<1> QED BY <1>1, NextCases

LEMMA MadeStep ==
    ASSUME LifeInv, [Next]_vars PROVE MadeInv'
<1>a. TypeOK /\ MadeInv /\ BornInv /\ MaxMade \in Nat
  BY WordPositive DEF LifeInv
<1>b. \A q \in Process : /\ made[q] \in Nat
                         /\ Cardinality(CloneSet(q)) \in Nat
  BY <1>a, CloneSetFinite DEF TypeOK
<1>1. CASE start # "done"
  <2>1. \A q \in Process : CloneSet(q)' = {} /\ made'[q] <= MaxMade
                           /\ made'[q] \in Nat
    <3>1. \A q \in Process, w \in Worker : pc'[<<q, w>>] = "idle"
      BY <1>1, StillQuiet
    <3>2. \A q \in Process : CloneSet(q)' = {}
      BY <3>1 DEF CloneSet, Cloning
    <3>3. \A q \in Process : made'[q] \in Nat
      BY TypeStep DEF TypeOK
    <3> QED BY <1>1, <3>2, <3>3, StillQuiet
  <2>2. Cardinality({}) = 0
    BY FS_EmptySet
  <2> QED BY <1>a, <2>1, <2>2 DEF MadeInv
<1>2. CASE UNCHANGED <<pc, made>>
  <2>1. \A q \in Process : CloneSet(q)' = CloneSet(q)
    BY <1>2 DEF CloneSet
  <2> QED BY <1>a, <1>2, <2>1 DEF MadeInv
<1>3. ASSUME NEW p \in Process, NEW q \in Process, fork(p, q) PROVE MadeInv'
  <2>1. /\ UNCHANGED pc /\ made'[q] = 0
        /\ \A r \in Process : r # q => made'[r] = made[r]
    BY <1>3, <1>a DEF fork, TypeOK
  <2>2. \A r \in Process : CloneSet(r)' = CloneSet(r)
    BY <2>1 DEF CloneSet
  <2>3. \A r \in Process : made'[r] <= made[r]
    BY <2>1, <1>b
  <2>4. \A r \in Process : made'[r] \in Nat
    BY <2>1, <1>b
  <2> QED BY <1>a, <1>b, <2>2, <2>3, <2>4 DEF MadeInv
<1>4. ASSUME NEW p \in Process, NEW w \in Worker, ThreadStep(p, w) PROVE MadeInv'
  <2>1. /\ \A q \in Process, v \in Worker :
              q # p \/ v # w => pc'[<<q, v>>] = pc[<<q, v>>]
        /\ \A q \in Process : q # p => made'[q] = made[q]
    BY <1>4, <1>a, ThreadFrame
  <2>2. \A q \in Process : q # p => CloneSet(q)' = CloneSet(q)
    BY <2>1, CloneSetSteps
  <2>3. pc \in [Thread -> PC]
    BY <1>a DEF TypeOK
  <2>4. CASE clone(<<p, w>>)
    <3>1. /\ pc[<<p, w>>] = "idle" /\ pc'[<<p, w>>] = "load"
          /\ made' = made
      BY <2>4, <1>a, <2>3, Walk, GotoFacts DEF clone, history, PC, Cloning
    <3>2. Cardinality(CloneSet(p)') = Cardinality(CloneSet(p)) + 1
      BY <2>1, <3>1, CloneSetSteps DEF Cloning
    <3>3. made[p] + Cardinality(CloneSet(p)) < MaxMade
      BY <2>4 DEF clone, CloneSet
    <3>4. made'[p] + Cardinality(CloneSet(p)') <= MaxMade
      BY <3>1, <3>2, <3>3, <1>a, <1>b
    <3> QED BY <1>a, <2>1, <2>2, <3>4 DEF MadeInv
  <2>5. CASE Add(<<p, w>>) \/ Reset(<<p, w>>)
    <3>1. /\ pc[<<p, w>>] \in {"add", "reset"} /\ pc'[<<p, w>>] = "idle"
          /\ made'[p] = made[p] + 1
      <4>1. made'[p] = made[p] + 1
        BY <2>5, <1>a DEF Add, Reset, Made, TypeOK
      <4> QED BY <2>5, <1>a, <2>3, <4>1, Walk, GotoFacts DEF PC
    <3>2. Cardinality(CloneSet(p)') = Cardinality(CloneSet(p)) - 1
      BY <2>1, <3>1, CloneSetSteps DEF Cloning
    <3>3. made[p] + Cardinality(CloneSet(p)) <= MaxMade
      BY <1>a DEF MadeInv
    <3>4. made'[p] + Cardinality(CloneSet(p)') <= MaxMade
      BY <3>1, <3>2, <3>3, <1>a, <1>b
    <3> QED BY <1>a, <2>1, <2>2, <3>4 DEF MadeInv
  <2>6. CASE ~clone(<<p, w>>) /\ ~Add(<<p, w>>) /\ ~Reset(<<p, w>>)
    <3>1. made' = made
      BY <1>4, <2>6 DEF ThreadStep, Load, Swap, drop, destroy, DropSwap,
                        DropSub, Close, UseAfterFree, history
    <3>2. pc'[<<p, w>>] \in Cloning => pc[<<p, w>>] \in Cloning
      <4>1. CASE Load(<<p, w>>) \/ Swap(<<p, w>>)
        BY <4>1, <1>a, Walk DEF Cloning
      <4>2. CASE drop(<<p, w>>) \/ destroy(<<p, w>>) \/ DropSwap(<<p, w>>)
                 \/ DropSub(<<p, w>>) \/ Close(<<p, w>>) \/ UseAfterFree(<<p, w>>)
        BY <4>2, <1>a, DropEffect, DestroyEffect, DropSwapEffect, DropSubEffect,
           CloseEffect, UseAfterFreeEffect DEF Cloning
      <4> QED BY <1>4, <2>6, <4>1, <4>2 DEF ThreadStep
    <3>3. Cardinality(CloneSet(p)') <= Cardinality(CloneSet(p))
      BY <2>1, <3>2, <1>b, CloneSetSteps
    <3>4. Cardinality(CloneSet(p)') \in Nat
      <4>1. CASE pc'[<<p, w>>] \in Cloning
        BY <4>1, <2>1, <3>2, <1>b, CloneSetSteps
      <4>2. CASE pc'[<<p, w>>] \notin Cloning
        <5>1. CloneSet(p)' = CloneSet(p) \ {w}
          BY <2>1, <4>2, CloneSetSteps
        <5>2. IsFiniteSet(CloneSet(p) \ {w})
          BY CloneSetFinite, FS_RemoveElement
        <5> QED BY <5>1, <5>2, FS_CardinalityType
      <4> QED BY <4>1, <4>2
    <3>5. made'[p] + Cardinality(CloneSet(p)') <= MaxMade
      BY <1>a, <1>b, <3>1, <3>3, <3>4 DEF MadeInv
    <3> QED BY <1>a, <2>1, <2>2, <3>5 DEF MadeInv
  <2> QED BY <2>4, <2>5, <2>6
<1>5. CASE start = "done"
  <2>1. ASSUME NEW p \in Process, NEW q \in Process, Move(p, q) PROVE MadeInv'
    BY <2>1, <1>2 DEF Move
  <2>2. ASSUME NEW p \in Process, Exit(p) PROVE MadeInv'
    BY <2>2, <1>2 DEF Exit, history
  <2>3. CASE UNCHANGED vars
    BY <2>3, <1>2 DEF vars, history
  <2> QED BY <1>3, <1>4, <1>5, <2>1, <2>2, <2>3, DoneCases
<1> QED BY <1>1, <1>5

-----------------------------------------------------------------------------
(***************************************************************************)
(* What the steps of processes do, point by point.                         *)
(***************************************************************************)
LEMMA ForkEffect ==
    ASSUME LifeInv, NEW p \in Process, NEW q \in Process, fork(p, q)
    PROVE  /\ p \in alive /\ handles[p] > 0 /\ q # Creator /\ q # p
           /\ q \in Forked /\ q \in alive' /\ q \notin alive
           /\ \A r \in Process : r # q =>
                 /\ status'[r] = status[r] /\ (r \in alive' <=> r \in alive)
                 /\ counter'[r] = counter[r] /\ pid'[r] = pid[r]
                 /\ handles'[r] = handles[r] /\ made'[r] = made[r]
                 /\ (r \in dangling' <=> r \in dangling)
           /\ (q \in dangling' <=> p \in dangling)
           /\ status[q] = "unborn" /\ status'[q] = "running"
           /\ counter'[q] = counter[p] /\ pid'[q] = pid[p] /\ pid[p] # q
           /\ handles'[q] = handles[p] /\ made'[q] = 0
           /\ \A w \in Worker : pc[<<q, w>>] = "idle"
           /\ UNCHANGED <<start, mapped, pc, count, exported, imported, destroyed>>
           /\ start = "done" /\ ~destroyed
<1>1. TypeOK /\ BornInv /\ BeforeInv /\ DestroyInv
  BY DEF LifeInv
<1>2. /\ p \in alive /\ handles[p] > 0 /\ status[q] = "unborn"
      /\ UNCHANGED <<start, mapped, pc, count, exported, imported, destroyed>>
  BY DEF fork
<1>3. /\ q # Creator /\ q # p /\ q \notin alive /\ pid[p] # q
      /\ q \notin dangling /\ \A w \in Worker : pc[<<q, w>>] = "idle"
  BY <1>1, <1>2 DEF BornInv, alive
<1>4. q \in Forked
  BY <1>3 DEF Process
<1>5. start = "done" /\ ~destroyed
  BY <1>1, <1>2 DEF BeforeInv, DestroyInv
<1>6. /\ status'[q] = "running" /\ counter'[q] = counter[p] /\ pid'[q] = pid[p]
      /\ handles'[q] = handles[p] /\ made'[q] = 0
  BY <1>1 DEF fork, TypeOK
<1>7. \A r \in Process : r # q =>
         /\ status'[r] = status[r] /\ counter'[r] = counter[r]
         /\ pid'[r] = pid[r] /\ handles'[r] = handles[r] /\ made'[r] = made[r]
  BY <1>1 DEF fork, TypeOK
<1>8. /\ \A r \in Process : r # q => (r \in dangling' <=> r \in dangling)
      /\ q \in dangling' <=> p \in dangling
  BY <1>3 DEF fork
<1>9. /\ \A r \in Process : r # q => (r \in alive' <=> r \in alive)
      /\ q \in alive'
  BY <1>6, <1>7 DEF alive
<1> QED BY <1>2, <1>3, <1>4, <1>5, <1>6, <1>7, <1>8, <1>9

LEMMA MoveEffect ==
    ASSUME LifeInv, NEW p \in Process, NEW q \in Process, Move(p, q)
    PROVE  /\ p \in alive /\ q \in alive /\ p # q /\ Creator \in {p, q}
           /\ handles[p] \in Nat /\ handles[p] > 0
           /\ CloneSet(p) # {} => handles[p] > 1
           /\ handles'[p] = handles[p] - 1 /\ handles'[q] = handles[q] + 1
           /\ \A r \in Process : r # p /\ r # q => handles'[r] = handles[r]
           /\ exported' = IF p = Creator THEN exported + 1 ELSE exported
           /\ imported' = IF q = Creator THEN imported + 1 ELSE imported
           /\ UNCHANGED <<start, mapped, status, counter, pid, dangling, pc,
                          count, made, destroyed>>
           /\ start = "done" /\ ~destroyed
<1>1. TypeOK /\ BeforeInv /\ DestroyInv
  BY DEF LifeInv
<1>2. /\ p \in alive /\ q \in alive /\ p # q /\ Creator \in {p, q}
      /\ Spare(p) > 0
      /\ exported' = IF p = Creator THEN exported + 1 ELSE exported
      /\ imported' = IF q = Creator THEN imported + 1 ELSE imported
      /\ UNCHANGED <<start, mapped, status, counter, pid, dangling, pc,
                     count, made, destroyed>>
  BY DEF Move, heap
<1>3. /\ handles[p] \in Nat /\ handles[p] > 0
      /\ CloneSet(p) # {} => handles[p] > 1
  BY <1>1, <1>2, SpareFacts
<1>4. /\ handles'[p] = handles[p] - 1 /\ handles'[q] = handles[q] + 1
      /\ \A r \in Process : r # p /\ r # q => handles'[r] = handles[r]
  BY <1>1, <1>2 DEF Move, TypeOK
<1>5. start = "done" /\ ~destroyed
  BY <1>1, <1>3 DEF BeforeInv, DestroyInv
<1> QED BY <1>2, <1>3, <1>4, <1>5

LEMMA ExitEffect ==
    ASSUME LifeInv, NEW p \in Process, Exit(p)
    PROVE  /\ p \notin alive' /\ p \in alive /\ handles'[p] = 0
           /\ \A r \in Process : r # p =>
                 /\ handles'[r] = handles[r]
                 /\ r \in alive' <=> r \in alive
           /\ \A r \in Process : status'[r] = "unborn" <=> status[r] = "unborn"
           /\ UNCHANGED <<start, mapped, counter, pid, dangling, pc, count,
                          made, exported, imported, destroyed>>
<1>1. TypeOK
  BY DEF LifeInv
<1>2. /\ status'[p] \in {"gone", "killed"} /\ handles'[p] = 0 /\ status[p] = "running"
      /\ \A r \in Process : r # p => /\ status'[r] = status[r]
                                     /\ handles'[r] = handles[r]
  BY <1>1 DEF Exit, TypeOK, alive
<1>3. UNCHANGED <<start, mapped, counter, pid, dangling, pc, count,
                  made, exported, imported, destroyed>>
  BY DEF Exit, heap, history
<1> QED BY <1>2, <1>3 DEF alive

-----------------------------------------------------------------------------
(***************************************************************************)
(* The parts of the invariant that need only the parts above.              *)
(***************************************************************************)
LEMMA BorrowStep ==
    ASSUME LifeInv, [Next]_vars PROVE BorrowInv'
<1>a. TypeOK /\ BorrowInv
  BY DEF LifeInv
<1>b. \A q \in Process : handles[q] \in Nat
  BY <1>a DEF TypeOK
<1>c. alive \subseteq Process /\ alive' \subseteq Process
  BY DEF alive
<1>1. CASE start # "done"
  <2>1. \A q \in Process, w \in Worker : pc'[<<q, w>>] = "idle"
    BY <1>1, StillQuiet
  <2>2. \A q \in Process : CloneSet(q)' = {}
    BY <2>1 DEF CloneSet, Cloning
  <2> QED BY <2>2, <1>c DEF BorrowInv
<1>2. ASSUME NEW p \in Process, NEW q \in Process, fork(p, q) PROVE BorrowInv'
  <2>1. /\ \A r \in Process : CloneSet(r)' = CloneSet(r)
        /\ CloneSet(q) = {}
    BY <1>2, ForkEffect DEF CloneSet, Cloning
  <2>2. \A r \in Process : r # q => /\ r \in alive' <=> r \in alive
                                    /\ handles'[r] = handles[r]
    BY <1>2, ForkEffect
  <2> QED BY <2>1, <2>2, <1>a, <1>c DEF BorrowInv
<1>3. ASSUME NEW p \in Process, NEW q \in Process, Move(p, q) PROVE BorrowInv'
  <2>1. /\ \A r \in Process : CloneSet(r)' = CloneSet(r)
        /\ alive' = alive
    BY <1>3, MoveEffect DEF CloneSet, alive
  <2>2. /\ CloneSet(p) # {} => handles'[p] > 0
        /\ handles'[q] > 0
        /\ \A r \in Process : r # p /\ r # q => handles'[r] = handles[r]
    BY <1>3, <1>b, MoveEffect
  <2> QED BY <2>1, <2>2, <1>a, <1>c DEF BorrowInv
<1>4. ASSUME NEW p \in Process, Exit(p) PROVE BorrowInv'
  <2>1. \A r \in Process : CloneSet(r)' = CloneSet(r)
    BY <1>4, ExitEffect DEF CloneSet
  <2>2. /\ p \notin alive'
        /\ \A r \in Process : r # p =>
              handles'[r] = handles[r] /\ (r \in alive' <=> r \in alive)
    BY <1>4, ExitEffect
  <2> QED BY <2>1, <2>2, <1>a, <1>c DEF BorrowInv
<1>5. ASSUME NEW p \in Process, NEW w \in Worker, ThreadStep(p, w)
      PROVE  BorrowInv'
  <2>1. /\ \A q \in Process, v \in Worker :
              q # p \/ v # w => pc'[<<q, v>>] = pc[<<q, v>>]
        /\ \A q \in Process : q # p => handles'[q] = handles[q]
        /\ UNCHANGED status /\ p \in alive
    BY <1>5, <1>a, ThreadFrame
  <2>2. alive' = alive
    BY <2>1 DEF alive
  <2>3. \A q \in Process : q # p => CloneSet(q)' = CloneSet(q)
    BY <2>1, CloneSetSteps
  <2>4. CloneSet(p) # {} => handles[p] > 0
    BY <2>1, <1>a DEF BorrowInv
  <2>5. ASSUME handles'[p] = handles[p],
               pc'[<<p, w>>] \in Cloning => pc[<<p, w>>] \in Cloning
        PROVE  CloneSet(p)' # {} => handles'[p] > 0
    <3>1. CloneSet(p)' \subseteq CloneSet(p)
      BY <2>1, <2>5 DEF CloneSet
    <3> QED BY <3>1, <2>4, <2>5
  <2>6. CloneSet(p)' # {} => handles'[p] > 0
    <3>1. CASE clone(<<p, w>>)
      BY <3>1, <1>a, CloneEffect
    <3>2. CASE Load(<<p, w>>)
      BY <3>2, <1>a, <2>5, LoadEffect DEF Cloning
    <3>3. CASE Swap(<<p, w>>)
      BY <3>3, <1>a, <2>5, SwapEffect DEF Cloning
    <3>4. CASE Add(<<p, w>>) \/ Reset(<<p, w>>)
      BY <3>4, <1>a, <1>b, AddEffect, ResetEffect
    <3>5. CASE drop(<<p, w>>)
      <4>1. /\ pc[<<p, w>>] \notin Cloning /\ pc'[<<p, w>>] \notin Cloning
            /\ handles'[p] = handles[p] - 1 /\ Spare(p) > 0
        BY <3>5, <1>a, DropEffect DEF Cloning
      <4>2. CloneSet(p)' = CloneSet(p)
        BY <2>1, <4>1, CloneSetSteps
      <4>3. CloneSet(p) # {} => handles[p] > 1
        BY <1>a, <4>1, SpareFacts
      <4> QED BY <4>1, <4>2, <4>3, <1>b
    <3>6. CASE destroy(<<p, w>>)
      <4>1. /\ pc'[<<p, w>>] \notin Cloning
            /\ \A v \in Worker : pc[<<p, v>>] \notin Cloning
        BY <3>6, <1>a, DestroyEffect DEF Cloning
      <4> QED BY <4>1, <2>1 DEF CloneSet
    <3>7. CASE DropSwap(<<p, w>>)
      BY <3>7, <1>a, <2>5, DropSwapEffect DEF Cloning
    <3>8. CASE DropSub(<<p, w>>)
      BY <3>8, <1>a, <2>5, DropSubEffect DEF Cloning
    <3>9. CASE Close(<<p, w>>)
      BY <3>9, <1>a, <2>5, CloseEffect DEF Cloning
    <3>10. CASE UseAfterFree(<<p, w>>)
      BY <3>10, <1>a, <2>5, UseAfterFreeEffect DEF Cloning
    <3> QED BY <1>5, <3>1, <3>2, <3>3, <3>4, <3>5, <3>6, <3>7, <3>8, <3>9, <3>10
            DEF ThreadStep
  <2> QED BY <1>a, <1>c, <2>1, <2>2, <2>3, <2>6 DEF BorrowInv
<1>6. CASE UNCHANGED vars
  BY <1>6, <1>a DEF vars, BorrowInv, alive, CloneSet
<1> QED BY <1>1, <1>2, <1>3, <1>4, <1>5, <1>6, DoneCases

LEMMA DestroyStep ==
    ASSUME LifeInv, [Next]_vars PROVE DestroyInv'
<1>a. TypeOK /\ BorrowInv /\ DestroyInv /\ BeforeInv
  BY DEF LifeInv
<1>b. /\ \A q \in Process : handles[q] \in Nat
      /\ \A q \in Forked : q \in Process /\ q # Creator
  BY <1>a, LifetimeAssumption DEF TypeOK, Process
<1>1. CASE start # "done"
  <2>1. ~destroyed' /\ \A q \in Process, w \in Worker : pc'[<<q, w>>] = "idle"
    BY <1>1, StillQuiet DEF BeforeInv
  <2> QED BY <2>1, <1>b DEF DestroyInv, Dropping
<1>2. ASSUME NEW p \in Process, NEW q \in Process, fork(p, q) \/ Move(p, q)
      PROVE  DestroyInv'
  <2>1. UNCHANGED <<pc, destroyed>> /\ ~destroyed
    BY <1>2, ForkEffect, MoveEffect
  <2> QED BY <2>1, <1>a DEF DestroyInv
<1>3. ASSUME NEW p \in Process, Exit(p) PROVE DestroyInv'
  <2>1. /\ UNCHANGED <<pc, destroyed>> /\ handles'[p] = 0
        /\ \A r \in Process : r # p => handles'[r] = handles[r]
    BY <1>3, ExitEffect
  <2> QED BY <2>1, <1>a DEF DestroyInv
<1>4. ASSUME NEW p \in Process, NEW w \in Worker, ThreadStep(p, w)
      PROVE  DestroyInv'
  <2>1. /\ \A q \in Process, v \in Worker :
              q # p \/ v # w => pc'[<<q, v>>] = pc[<<q, v>>]
        /\ \A q \in Process : q # p => handles'[q] = handles[q]
        /\ p \in alive
    BY <1>4, <1>a, ThreadFrame
  <2>2. ASSUME destroyed' = destroyed, destroyed => handles'[p] = 0,
               p = Creator \/ destroyed \/ pc'[<<p, w>>] \notin Dropping
        PROVE  DestroyInv'
    <3>1. destroyed' => \A q \in Process : handles'[q] = 0
      BY <2>1, <2>2, <1>a DEF DestroyInv
    <3>2. ASSUME NEW q \in Forked, NEW v \in Worker, pc'[<<q, v>>] \in Dropping
          PROVE  destroyed
      <4>1. CASE q = p /\ v = w
        BY <4>1, <2>2, <3>2, <1>b
      <4>2. CASE q # p \/ v # w
        BY <4>2, <2>1, <3>2, <1>a, <1>b DEF DestroyInv
      <4> QED BY <4>1, <4>2
    <3> QED BY <3>1, <3>2, <2>2 DEF DestroyInv
  <2>3. destroyed => handles[p] = 0 /\ pc[<<p, w>>] \notin Cloning
    BY <1>a, <2>1 DEF DestroyInv, BorrowInv, CloneSet
  <2>4. p # Creator /\ pc[<<p, w>>] \in Dropping => destroyed
    BY <1>a DEF DestroyInv, Process
  <2>5. CASE clone(<<p, w>>)
    BY <2>5, <1>a, <2>2, <2>3, CloneEffect DEF Dropping
  <2>6. CASE Load(<<p, w>>)
    BY <2>6, <1>a, <2>2, <2>3, LoadEffect DEF Dropping
  <2>7. CASE Swap(<<p, w>>)
    BY <2>7, <1>a, <2>2, <2>3, SwapEffect DEF Dropping
  <2>8. CASE Add(<<p, w>>) \/ Reset(<<p, w>>)
    BY <2>8, <1>a, <2>2, <2>3, AddEffect, ResetEffect DEF Dropping, Cloning
  <2>9. CASE drop(<<p, w>>)
    <3>1. handles[p] > 0
      BY <2>9, <1>a, DropEffect, SpareFacts
    <3> QED BY <2>9, <3>1, <1>a, <2>2, <2>3, DropEffect DEF Dropping
  <2>10. CASE destroy(<<p, w>>)
    <3>1. /\ destroyed' /\ handles'[p] = 0
          /\ \A q \in Process : q # p => handles[q] = 0
      BY <2>10, <1>a, DestroyEffect
    <3> QED BY <3>1, <2>1 DEF DestroyInv
  <2>11. CASE DropSwap(<<p, w>>)
    BY <2>11, <1>a, <2>2, <2>3, <2>4, DropSwapEffect DEF Dropping
  <2>12. CASE DropSub(<<p, w>>)
    BY <2>12, <1>a, <2>2, <2>3, <2>4, DropSubEffect DEF Dropping
  <2>13. CASE Close(<<p, w>>)
    BY <2>13, <1>a, <2>2, <2>3, <2>4, CloseEffect DEF Dropping
  <2>14. CASE UseAfterFree(<<p, w>>)
    BY <2>14, <1>a, <2>2, <2>3, UseAfterFreeEffect DEF Dropping
  <2> QED BY <1>4, <2>5, <2>6, <2>7, <2>8, <2>9, <2>10, <2>11, <2>12, <2>13,
             <2>14 DEF ThreadStep
<1>5. CASE UNCHANGED vars
  BY <1>5, <1>a DEF vars, history, DestroyInv
<1> QED BY <1>1, <1>2, <1>3, <1>4, <1>5, DoneCases

\* A process that was forked is not forgotten.
LEMMA SharedStays ==
    ASSUME LifeInv, [Next]_vars, Shared PROVE Shared'
<1>a. TypeOK
  BY DEF LifeInv
<1>1. \A p \in Process : status'[p] = "unborn" => status[p] = "unborn"
  <2>1. ASSUME NEW p \in Process, NEW q \in Process, fork(p, q)
        PROVE  \A r \in Process : status'[r] = "unborn" => status[r] = "unborn"
    BY <2>1, <1>a DEF fork, TypeOK
  <2>2. ASSUME NEW p \in Process, Exit(p)
        PROVE  \A r \in Process : status'[r] = "unborn" => status[r] = "unborn"
    BY <2>2, ExitEffect
  <2>3. ASSUME UNCHANGED status
        PROVE  \A r \in Process : status'[r] = "unborn" => status[r] = "unborn"
    BY <2>3
  <2>4. \/ UNCHANGED status
        \/ \E p, q \in Process : fork(p, q)
        \/ \E p \in Process : Exit(p)
    BY <1>a, NextCases, ThreadFrame DEF Allocate, AllocateFails, Move, vars
  <2> QED BY <2>1, <2>2, <2>3, <2>4
<1> QED BY <1>1 DEF Shared, Process

\* What can keep the creating process from destroying the mutex is a process
\* that was forked: it has no handle of its own any more, or one that came in.
LEMMA UserIsForked ==
    ASSUME LifeInv, NEW w \in Worker, Close(<<Creator, w>>), MutexInUse
    PROVE  Shared
<1>a. /\ TypeOK /\ BeforeInv /\ BornInv /\ ClosedInv /\ MappedInv
      /\ Creator \in Process /\ imported \in Nat
      /\ handles[Creator] \in Nat
  BY LifetimeAssumption DEF LifeInv, Process, TypeOK
<1>1. /\ pc[<<Creator, w>>] = "close" /\ Creator \in alive
      /\ <<Creator, w>> \in Thread
  BY <1>a DEF Close, At, Running, Thread
<1>2. start = "done" /\ ~Counting
  BY <1>1, <1>a DEF BeforeInv, Counting
<1>3. imported = 0 => handles[Creator] = 0
  BY <1>1, <1>2, <1>a DEF ClosedInv
<1>4. CASE imported > 0
  BY <1>4, <1>a DEF MappedInv
<1>5. CASE imported = 0
  <2>1. PICK p \in Process : handles[p] > 0 \/ status[p] = "killed"
    BY DEF MutexInUse
  <2>2. p # Creator
    BY <1>1, <1>3, <1>5, <2>1 DEF alive
  <2>3. status[p] # "unborn"
    BY <2>1, <1>a DEF BornInv, alive
  <2> QED BY <2>2, <2>3 DEF Shared, Process
<1> QED BY <1>4, <1>5, <1>a

LEMMA MappedStep ==
    ASSUME LifeInv, [Next]_vars PROVE MappedInv'
<1>a. TypeOK /\ MappedInv /\ DestroyInv /\ StartInv
  BY DEF LifeInv
<1>b. Creator \in Process
  BY DEF Process
<1>c. Shared => Shared'
  BY SharedStays
<1>1. CASE start # "done"
  <2>1. Creator \notin dangling'
    BY <1>1, StillQuiet DEF BeforeInv
  <2>2. start' = "done" => "inner" \in mapped'
    <3>1. CASE Allocate
      BY <3>1 DEF Allocate, Following, Allocations
    <3>2. CASE AllocateFails
      BY <3>2 DEF AllocateFails
    <3>3. CASE UNCHANGED vars
      BY <3>3, <1>1 DEF vars
    <3> QED BY <1>1, <3>1, <3>2, <3>3, NothingBefore
  <2>3. imported' = 0
    BY <1>1, StillQuiet DEF BeforeInv
  <2> QED BY <2>1, <2>2, <2>3 DEF MappedInv
<1>2. CASE /\ UNCHANGED <<start, mapped, imported>> /\ (destroyed => destroyed')
           /\ (Creator \in dangling' <=> Creator \in dangling)
  BY <1>2, <1>a, <1>c DEF MappedInv
<1>3. ASSUME NEW p \in Process, NEW q \in Process, fork(p, q) PROVE MappedInv'
  BY <1>3, <1>2, <1>b, ForkEffect
<1>7. ASSUME NEW p \in Process, NEW q \in Process, Move(p, q) PROVE MappedInv'
  <2>1. UNCHANGED <<start, mapped, status, dangling, destroyed>>
    BY <1>7 DEF Move, heap, history
  <2>2. Shared'
    BY <1>7, <2>1 DEF Move, alive, Shared, Process
  <2> QED BY <2>1, <2>2, <1>a DEF MappedInv
<1>4. ASSUME NEW p \in Process, Exit(p) PROVE MappedInv'
  BY <1>4, <1>2, ExitEffect
<1>5. ASSUME NEW p \in Process, NEW w \in Worker, ThreadStep(p, w)
      PROVE  MappedInv'
  <2>1. start' = start
    BY <1>5, <1>a, ThreadFrame
  <2>2. CASE Close(<<p, w>>)
    <3>1. /\ dangling' = dangling \cup {p} /\ destroyed' = destroyed
          /\ pc[<<p, w>>] = "close"
          /\ \/ p = Creator /\ mapped' = mapped \ {"inner", "queue"}
             \/ (p # Creator \/ MutexInUse) /\ mapped' = mapped \ {"inner"}
      BY <2>2, <1>a, CloseEffect
    <3>2. p # Creator => destroyed
      BY <3>1, <1>a DEF DestroyInv, Process, Dropping
    <3>3. p = Creator => Shared \/ mapped' = mapped \ {"inner", "queue"}
      BY <3>1, <2>2, UserIsForked
    <3>4. UNCHANGED imported
      BY <1>5, <1>a, ThreadFrame
    <3> QED BY <3>1, <3>2, <3>3, <3>4, <1>a, <1>c DEF MappedInv
  <2>3. CASE ~Close(<<p, w>>)
    <3>1. UNCHANGED <<mapped, dangling>>
      BY <2>3, <1>5, <1>a, ThreadFrame
    <3>2. destroyed => destroyed'
      BY <1>5, <1>a, ThreadFrame, DestroyEffect
    <3>3. UNCHANGED imported
      BY <1>5, <1>a, ThreadFrame
    <3> QED BY <2>1, <3>1, <3>2, <3>3, <1>2
  <2> QED BY <2>2, <2>3
<1>6. CASE UNCHANGED vars
  BY <1>6, <1>2 DEF vars, heap, history
<1> QED BY <1>1, <1>3, <1>4, <1>5, <1>6, <1>7, DoneCases

-----------------------------------------------------------------------------
(***************************************************************************)
(* The creating process.                                                   *)
(***************************************************************************)
LEMMA DropSetSteps ==
    ASSUME NEW w \in Worker,
           \A v \in Worker : v # w => pc'[<<Creator, v>>] = pc[<<Creator, v>>]
    PROVE  LET D == {"drop_swap", "drop_sub"}
           IN  /\ (pc'[<<Creator, w>>] \in D <=> pc[<<Creator, w>>] \in D)
                     => DropSet' = DropSet
               /\ pc'[<<Creator, w>>] \in D /\ pc[<<Creator, w>>] \notin D
                     => Cardinality(DropSet') = Cardinality(DropSet) + 1
               /\ pc'[<<Creator, w>>] \notin D /\ pc[<<Creator, w>>] \in D
                     => Cardinality(DropSet') = Cardinality(DropSet) - 1
<1> DEFINE D == {"drop_swap", "drop_sub"}
<1>1. (pc'[<<Creator, w>>] \in D <=> pc[<<Creator, w>>] \in D)
         => DropSet' = DropSet
  BY DEF DropSet
<1>2. pc'[<<Creator, w>>] \in D /\ pc[<<Creator, w>>] \notin D
         => DropSet' = DropSet \cup {w} /\ w \notin DropSet
  BY DEF DropSet
<1>3. pc'[<<Creator, w>>] \notin D /\ pc[<<Creator, w>>] \in D
         => DropSet' = DropSet \ {w} /\ w \in DropSet
  BY DEF DropSet
<1>4. IsFiniteSet(DropSet)
  BY CloneSetFinite DEF Process
<1>5. pc'[<<Creator, w>>] \in D /\ pc[<<Creator, w>>] \notin D
         => Cardinality(DropSet') = Cardinality(DropSet) + 1
  BY <1>2, <1>4, FS_AddElement
<1>6. pc'[<<Creator, w>>] \notin D /\ pc[<<Creator, w>>] \in D
         => Cardinality(DropSet') = Cardinality(DropSet) - 1
  BY <1>3, <1>4, FS_RemoveElement
<1> QED BY <1>1, <1>5, <1>6

\* What the creating process counts, when no step of its own intervenes.
LEMMA CreatorFrame ==
    ASSUME LifeInv, NEW p \in Process, NEW w \in Worker, ThreadStep(p, w),
           p # Creator
    PROVE  /\ UNCHANGED <<start, status, exported, imported>>
           /\ \A v \in Worker : pc'[<<Creator, v>>] = pc[<<Creator, v>>]
           /\ handles'[Creator] = handles[Creator]
           /\ counter'[Creator] = counter[Creator]
           /\ made'[Creator] = made[Creator]
           /\ Creator \in alive' <=> Creator \in alive
           /\ Creator \in dangling' <=> Creator \in dangling
           /\ DropSet' = DropSet /\ (Counting' <=> Counting)
<1>1. TypeOK /\ Creator \in Process
  BY DEF LifeInv, Process
<1>2. /\ UNCHANGED <<start, status, exported, imported>>
      /\ \A v \in Worker : pc'[<<Creator, v>>] = pc[<<Creator, v>>]
      /\ handles'[Creator] = handles[Creator]
      /\ counter'[Creator] = counter[Creator]
      /\ made'[Creator] = made[Creator]
      /\ dangling' \in {dangling, dangling \cup {p}}
  BY <1>1, ThreadFrame
<1>3. /\ Creator \in alive' <=> Creator \in alive
      /\ Creator \in dangling' <=> Creator \in dangling
      /\ DropSet' = DropSet
  BY <1>2 DEF alive, DropSet
<1> QED BY <1>2, <1>3 DEF Counting

\* A process step leaves the threads of the creating process where they are.
LEMMA CountingFrame ==
    ASSUME LifeInv, NEW p \in Process, NEW q \in Process,
           fork(p, q) \/ Move(p, q) \/ (p # Creator /\ Exit(p))
    PROVE  /\ (Counting' <=> Counting) /\ DropSet' = DropSet
           /\ Creator \in alive' <=> Creator \in alive
           /\ UNCHANGED pc /\ start' = start /\ counter'[Creator] = counter[Creator]
           /\ made'[Creator] = made[Creator]
<1>1. Creator \in Process
  BY DEF Process
<1>2. /\ start' = start /\ UNCHANGED pc /\ counter'[Creator] = counter[Creator]
      /\ Creator \in dangling' <=> Creator \in dangling
      /\ made'[Creator] = made[Creator]
  <2>1. CASE fork(p, q)
    BY <2>1, <1>1, ForkEffect
  <2>2. CASE Move(p, q)
    BY <2>2, <1>1, MoveEffect
  <2>3. CASE p # Creator /\ Exit(p)
    BY <2>3, <1>1, ExitEffect
  <2> QED BY <2>1, <2>2, <2>3
<1>3. Creator \in alive' <=> Creator \in alive
  <2>1. CASE fork(p, q)
    BY <2>1, <1>1, ForkEffect
  <2>2. CASE Move(p, q)
    BY <2>2, MoveEffect DEF alive
  <2>3. CASE p # Creator /\ Exit(p)
    BY <2>3, <1>1, ExitEffect
  <2> QED BY <2>1, <2>2, <2>3
<1>4. DropSet' = DropSet
  BY <1>2 DEF DropSet
<1> QED BY <1>2, <1>3, <1>4 DEF Counting

\* The counter of the creating process, when it is used.
CreatorCount ==
    /\ counter[Creator]
          = handles[Creator] + exported - imported + Cardinality(DropSet)
    /\ counter[Creator] >= 1 /\ counter[Creator] <= made[Creator]

LEMMA CreatorThread ==
    ASSUME LifeInv, NEW w \in Worker, ThreadStep(Creator, w), Counting'
    PROVE  /\ Counting /\ CreatorCount'
<1>a. TypeOK /\ CreatorInv /\ BornInv /\ Creator \in Process
  BY DEF LifeInv, Process
<1>b. /\ counter[Creator] \in 0..(Word - 1) /\ handles[Creator] \in Nat
      /\ exported \in Nat /\ imported \in Nat /\ Cardinality(DropSet) \in Nat
      /\ made[Creator] \in Nat /\ made[Creator] <= MaxMade
      /\ MaxMade \in Nat /\ Word \in Nat /\ Word > MaxMade
  BY <1>a, CloneSetFinite, WordPositive, LifetimeAssumption DEF TypeOK
<1>1. /\ UNCHANGED <<start, status, exported, imported>> /\ Creator \in alive
      /\ \A v \in Worker : v # w => pc'[<<Creator, v>>] = pc[<<Creator, v>>]
      /\ pid[Creator] = Creator
  <2>1. pid[Creator] = Creator
    BY <1>a DEF BornInv
  <2>2. /\ UNCHANGED <<start, status, exported, imported>> /\ Creator \in alive
        /\ \A q \in Process, v \in Worker : q # Creator \/ v # w =>
              pc'[<<q, v>>] = pc[<<q, v>>]
    BY <1>a, ThreadFrame
  <2> QED BY <1>a, <2>1, <2>2
<1>2. Creator \notin dangling' /\ pc'[<<Creator, w>>] # "close"
  BY DEF Counting
<1>3. Creator \notin dangling /\ ~Close(<<Creator, w>>)
      /\ ~UseAfterFree(<<Creator, w>>)
  <2>1. ~Close(<<Creator, w>>)
    BY <1>a, <1>2, CloseEffect
  <2>2. dangling' = dangling
    BY <2>1, <1>a, ThreadFrame
  <2> QED BY <1>a, <1>2, <2>1, <2>2, UseAfterFreeEffect
<1>4. Counting
  <2>1. pc[<<Creator, w>>] # "close"
    BY <1>3, <1>a, CloneEffect, LoadEffect, SwapEffect, AddEffect, ResetEffect,
       DropEffect, DestroyEffect, DropSwapEffect, DropSubEffect DEF ThreadStep
  <2> QED BY <1>1, <1>3, <2>1 DEF Counting
<1>5. /\ counter[Creator]
            = handles[Creator] + exported - imported + Cardinality(DropSet)
      /\ counter[Creator] >= 1 /\ counter[Creator] <= made[Creator]
  BY <1>4, <1>a DEF CreatorInv
<1>6. exported' = exported /\ imported' = imported
  BY <1>1
<1>7. ASSUME handles'[Creator] = handles[Creator], made'[Creator] = made[Creator],
             counter'[Creator] = counter[Creator], DropSet' = DropSet
      PROVE  CreatorCount'
  BY <1>5, <1>6, <1>7 DEF CreatorCount
<1>8. CASE clone(<<Creator, w>>)
  <2>1. DropSet' = DropSet
    BY <1>8, <1>a, <1>1, DropSetSteps, CloneEffect
  <2> QED BY <2>1, <1>4, <1>7, <1>8, <1>a, CloneEffect
<1>9. CASE Load(<<Creator, w>>)
  <2>1. DropSet' = DropSet
    BY <1>9, <1>a, <1>1, DropSetSteps, LoadEffect
  <2> QED BY <2>1, <1>4, <1>7, <1>9, <1>a, LoadEffect
<1>10. CASE Swap(<<Creator, w>>)
  <2>1. DropSet' = DropSet
    BY <1>10, <1>a, <1>1, DropSetSteps, SwapEffect
  <2> QED BY <2>1, <1>4, <1>7, <1>10, <1>a, SwapEffect
<1>11. CASE Add(<<Creator, w>>)
  <2>1. /\ DropSet' = DropSet
        /\ counter'[Creator] = fetch_add(counter[Creator], 1)
        /\ handles'[Creator] = handles[Creator] + 1
        /\ made'[Creator] = made[Creator] + 1
    BY <1>11, <1>a, <1>1, DropSetSteps, AddEffect
  <2>2. made[Creator] + 1 <= MaxMade
    <3>1. w \in CloneSet(Creator)
      BY <1>11, <1>a, AddEffect DEF CloneSet, Cloning
    <3>2. /\ Cardinality(CloneSet(Creator)) \in Nat
          /\ Cardinality(CloneSet(Creator)) >= 1
      BY <3>1, <1>a, CloneSetFinite
    <3>3. made[Creator] + Cardinality(CloneSet(Creator)) <= MaxMade
      BY <1>a DEF LifeInv, MadeInv
    <3> QED BY <1>b, <3>2, <3>3
  <2>3. fetch_add(counter[Creator], 1) = counter[Creator] + 1
    BY <1>b, <1>5, <2>2, AddFacts
  <2> QED BY <1>4, <1>b, <1>5, <1>6, <2>1, <2>3 DEF CreatorCount
<1>12. CASE Reset(<<Creator, w>>)
  BY <1>12, <1>a, ResetEffect DEF CreatorInv
<1>13. CASE drop(<<Creator, w>>)
  <2>1. /\ Cardinality(DropSet') = Cardinality(DropSet) + 1
        /\ handles'[Creator] = handles[Creator] - 1
        /\ counter'[Creator] = counter[Creator] /\ made'[Creator] = made[Creator]
    BY <1>13, <1>a, <1>1, DropSetSteps, DropEffect
  <2> QED BY <1>4, <1>b, <1>5, <1>6, <2>1 DEF CreatorCount
<1>14. CASE destroy(<<Creator, w>>)
  <2>1. /\ Cardinality(DropSet') = Cardinality(DropSet) + 1
        /\ handles[Creator] = 1 /\ handles'[Creator] = 0
        /\ counter'[Creator] = counter[Creator] /\ made'[Creator] = made[Creator]
    BY <1>14, <1>a, <1>1, DropSetSteps, DestroyEffect
  <2> QED BY <1>4, <1>b, <1>5, <1>6, <2>1 DEF CreatorCount
<1>15. CASE DropSwap(<<Creator, w>>)
  <2>1. DropSet' = DropSet
    BY <1>15, <1>a, <1>1, DropSetSteps, DropSwapEffect
  <2> QED BY <2>1, <1>4, <1>7, <1>15, <1>a, DropSwapEffect
<1>16. CASE DropSub(<<Creator, w>>)
  <2>1. /\ pc[<<Creator, w>>] = "drop_sub" /\ counter[Creator] # 1
        /\ pc'[<<Creator, w>>] = "idle"
    BY <1>16, <1>2, <1>a, DropSubEffect
  <2>2. /\ Cardinality(DropSet') = Cardinality(DropSet) - 1
        /\ handles'[Creator] = handles[Creator]
        /\ counter'[Creator] = fetch_sub(counter[Creator], 1)
        /\ made'[Creator] = made[Creator]
    BY <1>16, <2>1, <1>a, <1>1, DropSetSteps, DropSubEffect
  <2>3. fetch_sub(counter[Creator], 1) = counter[Creator] - 1
    <3>1. counter[Creator] - 1 \in 0..(Word - 1)
      BY <1>b, <1>5
    <3> QED BY <1>b, <3>1, ModWord DEF fetch_sub
  <2> QED BY <1>4, <1>b, <1>5, <1>6, <2>1, <2>2, <2>3 DEF CreatorCount
<1> QED BY <1>3, <1>4, <1>8, <1>9, <1>10, <1>11, <1>12, <1>13, <1>14, <1>15,
           <1>16 DEF ThreadStep

LEMMA CreatorStep ==
    ASSUME LifeInv, [Next]_vars PROVE CreatorInv'
<1>a. TypeOK /\ CreatorInv /\ BornInv /\ BeforeInv /\ Creator \in Process
  BY DEF LifeInv, Process
<1>b. /\ handles[Creator] \in Nat /\ exported \in Nat /\ imported \in Nat
      /\ Cardinality(DropSet) \in Nat
  BY <1>a, CloneSetFinite, LifetimeAssumption DEF TypeOK
<1>c. Counting => CreatorCount
  BY <1>a DEF CreatorInv, CreatorCount
<1>d. ASSUME \A w \in Worker : pc'[<<Creator, w>>] \notin {"reset", "panic"},
             Counting' => CreatorCount'
      PROVE  CreatorInv'
  BY <1>d DEF CreatorInv, CreatorCount
<1>1. CASE start # "done"
  <2>1. \A w \in Worker : pc'[<<Creator, w>>] = "idle"
    BY <1>1, <1>a, StillQuiet
  <2>2. DropSet' = {} /\ Cardinality({}) = 0
    BY <2>1, FS_EmptySet DEF DropSet
  <2>3. exported' = 0 /\ imported' = 0
    BY <1>1, <1>a, StillQuiet DEF BeforeInv
  <2>4. start' = "done" => /\ counter'[Creator] = 1 /\ handles'[Creator] = 1
                           /\ made'[Creator] = 1
    <3>1. CASE Allocate
      BY <3>1, <1>a DEF Allocate, TypeOK, new
    <3>2. CASE AllocateFails
      BY <3>2 DEF AllocateFails
    <3>3. CASE UNCHANGED vars
      BY <3>3, <1>1 DEF vars
    <3> QED BY <1>1, <3>1, <3>2, <3>3, NothingBefore
  <2>5. Counting' => CreatorCount'
    BY <2>2, <2>3, <2>4 DEF Counting, CreatorCount
  <2> QED BY <2>1, <2>5, <1>d
<1>2. ASSUME NEW p \in Process, NEW q \in Process, fork(p, q) PROVE CreatorInv'
  <2>1. /\ (Counting' <=> Counting) /\ DropSet' = DropSet
        /\ UNCHANGED pc /\ counter'[Creator] = counter[Creator]
        /\ made'[Creator] = made[Creator]
    BY <1>2, CountingFrame
  <2>2. /\ handles'[Creator] = handles[Creator] /\ exported' = exported
        /\ imported' = imported
    BY <1>2, <1>a, ForkEffect
  <2>3. Counting' => CreatorCount'
    BY <2>1, <2>2, <1>c DEF CreatorCount
  <2> QED BY <2>1, <2>3, <1>a, <1>d DEF CreatorInv
<1>3. ASSUME NEW p \in Process, NEW q \in Process, Move(p, q) PROVE CreatorInv'
  <2>1. /\ (Counting' <=> Counting) /\ DropSet' = DropSet
        /\ UNCHANGED pc /\ counter'[Creator] = counter[Creator]
        /\ made'[Creator] = made[Creator]
    BY <1>3, CountingFrame
  <2>2. handles'[Creator] + exported' - imported'
           = handles[Creator] + exported - imported
    <3>1. CASE p = Creator
      <4>1. /\ handles'[Creator] = handles[Creator] - 1
            /\ exported' = exported + 1 /\ imported' = imported
        BY <1>3, <3>1, MoveEffect
      <4> QED BY <4>1, <1>b
    <3>2. CASE q = Creator
      <4>1. /\ handles'[Creator] = handles[Creator] + 1
            /\ exported' = exported /\ imported' = imported + 1
        BY <1>3, <3>2, MoveEffect
      <4> QED BY <4>1, <1>b
    <3> QED BY <1>3, <3>1, <3>2, MoveEffect
  <2>3. Counting' => CreatorCount'
    BY <2>1, <2>2, <1>c DEF CreatorCount
  <2> QED BY <2>1, <2>3, <1>a, <1>d DEF CreatorInv
<1>4. ASSUME NEW p \in Process, Exit(p) PROVE CreatorInv'
  <2>1. UNCHANGED pc
    BY <1>4, ExitEffect
  <2>2. CASE p = Creator
    <3>1. ~Counting'
      BY <1>4, <2>2, ExitEffect DEF Counting
    <3> QED BY <2>1, <3>1, <1>a, <1>d DEF CreatorInv
  <2>3. CASE p # Creator
    <3>1. /\ (Counting' <=> Counting) /\ DropSet' = DropSet
          /\ counter'[Creator] = counter[Creator]
          /\ made'[Creator] = made[Creator]
      BY <1>4, <2>3, CountingFrame
    <3>2. /\ handles'[Creator] = handles[Creator] /\ exported' = exported
          /\ imported' = imported
      BY <1>4, <2>3, <1>a, ExitEffect
    <3>3. Counting' => CreatorCount'
      BY <3>1, <3>2, <1>c DEF CreatorCount
    <3> QED BY <2>1, <3>3, <1>a, <1>d DEF CreatorInv
  <2> QED BY <2>2, <2>3
<1>5. ASSUME NEW p \in Process, NEW w \in Worker, ThreadStep(p, w), p # Creator
      PROVE  CreatorInv'
  <2>1. /\ (Counting' <=> Counting) /\ DropSet' = DropSet
        /\ counter'[Creator] = counter[Creator]
        /\ made'[Creator] = made[Creator]
        /\ handles'[Creator] = handles[Creator] /\ exported' = exported
        /\ imported' = imported
        /\ \A v \in Worker : pc'[<<Creator, v>>] = pc[<<Creator, v>>]
    BY <1>5, CreatorFrame
  <2>2. Counting' => CreatorCount'
    BY <2>1, <1>c DEF CreatorCount
  <2> QED BY <2>1, <2>2, <1>a, <1>d DEF CreatorInv
<1>6. ASSUME NEW w \in Worker, ThreadStep(Creator, w) PROVE CreatorInv'
  <2>1. \A v \in Worker : v # w => pc'[<<Creator, v>>] = pc[<<Creator, v>>]
    <3>1. \A q \in Process, v \in Worker : q # Creator \/ v # w =>
             pc'[<<q, v>>] = pc[<<q, v>>]
      BY <1>6, <1>a, ThreadFrame
    <3> QED BY <1>a, <3>1
  <2>2. pc'[<<Creator, w>>] \notin {"reset", "panic"}
    BY <1>6, <1>a, CloneEffect, LoadEffect, SwapEffect, AddEffect, ResetEffect,
       DropEffect, DestroyEffect, DropSwapEffect, DropSubEffect, CloseEffect,
       UseAfterFreeEffect DEF ThreadStep, BornInv
  <2>3. \A v \in Worker : pc'[<<Creator, v>>] \notin {"reset", "panic"}
    BY <2>1, <2>2, <1>a DEF CreatorInv
  <2> QED BY <2>3, <1>6, <1>d, CreatorThread
<1>7. CASE UNCHANGED vars
  <2>1. /\ UNCHANGED <<start, status, counter, dangling, handles, pc, made,
                       exported, imported>>
    BY <1>7 DEF vars, heap, history
  <2>2. (Counting' <=> Counting) /\ DropSet' = DropSet
    BY <2>1 DEF Counting, DropSet, alive
  <2>3. Counting' => CreatorCount'
    BY <2>1, <2>2, <1>c DEF CreatorCount
  <2> QED BY <2>1, <2>3, <1>a, <1>d DEF CreatorInv
<1> QED BY <1>1, <1>2, <1>3, <1>4, <1>5, <1>6, <1>7, DoneCases

\* The last handle that is counted goes: no other thread is inside.
LEMMA LastCounted ==
    ASSUME LifeInv, NEW w \in Worker, Counting, imported = 0,
           pc[<<Creator, w>>] = "drop_sub", counter[Creator] = 1
    PROVE  /\ handles[Creator] = 0
           /\ \A v \in Worker : v # w =>
                 pc[<<Creator, v>>] \notin Cloning \cup {"drop_swap", "drop_sub"}
<1>a. TypeOK /\ CreatorInv /\ BorrowInv /\ Creator \in Process
  BY DEF LifeInv, Process
<1>b. /\ handles[Creator] \in Nat /\ exported \in Nat
      /\ IsFiniteSet(DropSet) /\ Cardinality(DropSet) \in Nat
  BY <1>a, CloneSetFinite, LifetimeAssumption DEF TypeOK
<1>1. w \in DropSet
  BY DEF DropSet
<1>2. Cardinality(DropSet) >= 1
  BY <1>1, <1>a, CloneSetFinite
<1>3. handles[Creator] = 0 /\ Cardinality(DropSet) = 1
  BY <1>a, <1>b, <1>2 DEF CreatorInv
<1>4. DropSet \ {w} = {}
  <2>1. IsFiniteSet(DropSet \ {w}) /\ Cardinality(DropSet \ {w}) = 0
    BY <1>1, <1>3, <1>b, FS_RemoveElement
  <2> QED BY <2>1, FS_EmptySet
<1>5. \A v \in Worker : v # w =>
         pc[<<Creator, v>>] \notin {"drop_swap", "drop_sub"}
  BY <1>4 DEF DropSet
<1>6. CloneSet(Creator) = {}
  BY <1>3, <1>a DEF BorrowInv, Counting
<1> QED BY <1>3, <1>5, <1>6 DEF CloneSet

ClosedCreator ==
    start = "done" /\ Creator \in alive /\ ~Counting =>
        /\ handles[Creator] = 0
        /\ \A w \in Worker :
              pc[<<Creator, w>>] \notin Cloning \cup {"drop_swap", "drop_sub"}

LEMMA ClosedThread ==
    ASSUME LifeInv, NEW w \in Worker, ThreadStep(Creator, w), imported = 0
    PROVE  ClosedCreator' /\ ~UseAfterFree(<<Creator, w>>)
<1>a. /\ TypeOK /\ ClosedInv /\ CreatorInv /\ BeforeInv /\ BornInv
      /\ Creator \in Process
  BY DEF LifeInv, Process
<1>1. /\ start' = start /\ status' = status /\ Creator \in alive
      /\ \A v \in Worker : v # w => pc'[<<Creator, v>>] = pc[<<Creator, v>>]
  <2>1. /\ UNCHANGED <<start, status>> /\ Creator \in alive
        /\ \A q \in Process, v \in Worker : q # Creator \/ v # w =>
              pc'[<<q, v>>] = pc[<<q, v>>]
    BY <1>a, ThreadFrame
  <2> QED BY <1>a, <2>1
<1>2. CASE Counting
  <2>1. ~Close(<<Creator, w>>) /\ ~UseAfterFree(<<Creator, w>>)
    BY <1>2, <1>a, CloseEffect, UseAfterFreeEffect DEF Counting
  <2>2. dangling' = dangling
    BY <2>1, <1>a, ThreadFrame
  <2>3. CASE pc'[<<Creator, w>>] # "close"
    <3>1. Counting'
      BY <1>1, <1>2, <2>2, <2>3 DEF Counting, alive
    <3> QED BY <3>1, <2>1 DEF ClosedCreator
  <2>4. CASE pc'[<<Creator, w>>] = "close"
    <3>1. DropSub(<<Creator, w>>)
      BY <2>1, <2>4, <1>a, CloneEffect, LoadEffect, SwapEffect, AddEffect,
         ResetEffect, DropEffect, DestroyEffect, DropSwapEffect
         DEF ThreadStep, BornInv
    <3>2. /\ pc[<<Creator, w>>] = "drop_sub" /\ counter[Creator] = 1
          /\ handles'[Creator] = handles[Creator]
      BY <3>1, <2>4, <1>a, DropSubEffect
    <3>3. /\ handles[Creator] = 0
          /\ \A v \in Worker : v # w =>
                pc[<<Creator, v>>] \notin Cloning \cup {"drop_swap", "drop_sub"}
      BY <1>2, <3>2, LastCounted
    <3>4. "close" \notin Cloning \cup {"drop_swap", "drop_sub"}
      BY DEF Cloning
    <3> QED BY <1>1, <2>1, <2>4, <3>2, <3>3, <3>4 DEF ClosedCreator
  <2> QED BY <2>3, <2>4
<1>3. CASE ~Counting
  <2>1. start = "done"
    <3>1. CASE start # "done"
      <4>1. /\ \A v \in Worker : pc[<<Creator, v>>] = "idle"
            /\ handles[Creator] = 0
        BY <3>1, <1>a DEF BeforeInv, Thread
      <4>2. ~(Spare(Creator) > 0)
        BY <4>1 DEF Spare, Cloning
      <4> QED BY <4>1, <4>2, <1>a, CloneEffect, LoadEffect, SwapEffect,
                 AddEffect, ResetEffect, DropEffect, DestroyEffect,
                 DropSwapEffect, DropSubEffect, CloseEffect, UseAfterFreeEffect
                 DEF ThreadStep, Cloning
    <3> QED BY <3>1
  <2>2. /\ handles[Creator] = 0
        /\ \A v \in Worker :
              pc[<<Creator, v>>] \notin Cloning \cup {"drop_swap", "drop_sub"}
    BY <2>1, <1>1, <1>3, <1>a DEF ClosedInv
  <2>3. ~(Spare(Creator) > 0)
    BY <2>2, <1>a, SpareFacts
  <2>4. Close(<<Creator, w>>)
    BY <2>2, <2>3, <1>a, CloneEffect, LoadEffect, SwapEffect, AddEffect,
       ResetEffect, DropEffect, DestroyEffect, DropSwapEffect, DropSubEffect,
       UseAfterFreeEffect DEF ThreadStep, Cloning
  <2>5. ~UseAfterFree(<<Creator, w>>)
    BY <2>2, <1>a, UseAfterFreeEffect
  <2>6. pc'[<<Creator, w>>] = "idle" /\ handles'[Creator] = handles[Creator]
    BY <2>4, <1>a, CloseEffect
  <2>7. "idle" \notin Cloning \cup {"drop_swap", "drop_sub"}
    BY DEF Cloning
  <2> QED BY <1>1, <2>2, <2>5, <2>6, <2>7 DEF ClosedCreator
<1> QED BY <1>2, <1>3

LEMMA ClosedStep ==
    ASSUME LifeInv, [Next]_vars PROVE ClosedInv'
<1>a. /\ TypeOK /\ ClosedInv /\ BeforeInv /\ BornInv /\ DestroyInv
      /\ Creator \in Process /\ imported \in Nat
      /\ \A p \in Forked : p \in Process /\ p # Creator
  BY LifetimeAssumption DEF LifeInv, Process, TypeOK
<1>b. imported = 0 =>
         /\ ClosedCreator
         /\ \A w \in Worker : pc[<<Creator, w>>] # "ub"
         /\ \A p \in Forked : p \in dangling => destroyed
  BY <1>a DEF ClosedInv, ClosedCreator
<1>c. ASSUME imported' = 0 =>
                /\ ClosedCreator'
                /\ \A w \in Worker : pc'[<<Creator, w>>] # "ub"
                /\ \A p \in Forked : p \in dangling' => destroyed'
      PROVE  ClosedInv'
  BY <1>c DEF ClosedInv, ClosedCreator
<1>1. CASE start # "done"
  <2>1. /\ \A w \in Worker : pc'[<<Creator, w>>] = "idle"
        /\ dangling' = dangling /\ destroyed' = destroyed /\ imported' = imported
        /\ Creator \notin dangling /\ Creator \in alive'
    BY <1>1, <1>a, StillQuiet DEF BeforeInv
  <2>2. start' = "done" => Counting'
    BY <2>1 DEF Counting
  <2>3. ClosedCreator'
    BY <2>2 DEF ClosedCreator
  <2> QED BY <2>1, <2>3, <1>b, <1>c
<1>2. ASSUME NEW p \in Process, NEW q \in Process, fork(p, q) PROVE ClosedInv'
  <2>1. /\ (Counting' <=> Counting) /\ (Creator \in alive' <=> Creator \in alive)
        /\ UNCHANGED pc /\ start' = start
    BY <1>2, CountingFrame
  <2>2. /\ handles'[Creator] = handles[Creator] /\ imported' = imported
        /\ p \in alive /\ handles[p] > 0 /\ start = "done"
        /\ destroyed' = destroyed
        /\ \A r \in Process : r # q => (r \in dangling' <=> r \in dangling)
        /\ (q \in dangling' <=> p \in dangling)
    BY <1>2, <1>a, ForkEffect
  <2>3. ClosedCreator => ClosedCreator'
    BY <2>1, <2>2 DEF ClosedCreator
  <2>4. ASSUME imported = 0 PROVE \A r \in Forked : r \in dangling' => destroyed
    <3>1. p \in dangling => destroyed
      <4>1. CASE p = Creator
        <5>1. p \notin dangling
          BY <4>1, <2>2, <2>4, <1>b DEF ClosedCreator, Counting
        <5> QED BY <5>1
      <4>2. CASE p # Creator
        BY <4>2, <2>4, <1>b DEF Process
      <4> QED BY <4>1, <4>2
    <3> QED BY <3>1, <2>2, <2>4, <1>a, <1>b
  <2> QED BY <2>1, <2>2, <2>3, <2>4, <1>b, <1>c
<1>3. ASSUME NEW p \in Process, NEW q \in Process, Move(p, q) PROVE ClosedInv'
  <2>1. /\ (Counting' <=> Counting) /\ (Creator \in alive' <=> Creator \in alive)
        /\ UNCHANGED pc /\ start' = start
    BY <1>3, CountingFrame
  <2>2. /\ dangling' = dangling /\ destroyed' = destroyed /\ start = "done"
        /\ q = Creator => imported' = imported + 1
        /\ q # Creator => imported' = imported /\ p = Creator
        /\ p \in alive /\ handles[p] > 0
    BY <1>3, MoveEffect
  <2>3. ASSUME imported' = 0 PROVE ClosedCreator' /\ imported = 0
    <3>1. imported = 0 /\ p = Creator
      BY <2>2, <2>3, <1>a
    <3>2. Counting
      BY <3>1, <2>2, <1>b DEF ClosedCreator
    <3> QED BY <3>1, <3>2, <2>1 DEF ClosedCreator
  <2> QED BY <2>1, <2>2, <2>3, <1>b, <1>c
<1>4. ASSUME NEW p \in Process, Exit(p) PROVE ClosedInv'
  <2>1. UNCHANGED <<pc, dangling, destroyed, imported, start>>
    BY <1>4, ExitEffect
  <2>2. CASE p = Creator
    <3>1. ClosedCreator'
      BY <1>4, <2>2, ExitEffect DEF ClosedCreator
    <3> QED BY <2>1, <3>1, <1>b, <1>c
  <2>3. CASE p # Creator
    <3>1. /\ (Counting' <=> Counting) /\ (Creator \in alive' <=> Creator \in alive)
      BY <1>4, <2>3, CountingFrame
    <3>2. handles'[Creator] = handles[Creator]
      BY <1>4, <2>3, <1>a, ExitEffect
    <3>3. ClosedCreator => ClosedCreator'
      BY <2>1, <3>1, <3>2 DEF ClosedCreator
    <3> QED BY <2>1, <3>3, <1>b, <1>c
  <2> QED BY <2>2, <2>3
<1>5. ASSUME NEW p \in Process, NEW w \in Worker, ThreadStep(p, w)
      PROVE  ClosedInv'
  <2>1. /\ imported' = imported /\ (destroyed => destroyed')
        /\ \A v \in Worker : p # Creator \/ v # w =>
              pc'[<<Creator, v>>] = pc[<<Creator, v>>]
    <3>1. destroyed => destroyed'
      <4>1. CASE destroy(<<p, w>>)
        BY <4>1, <1>a, DestroyEffect
      <4>2. CASE ~destroy(<<p, w>>)
        BY <4>2, <1>5, <1>a, ThreadFrame
      <4> QED BY <4>1, <4>2
    <3>2. /\ imported' = imported
          /\ \A q \in Process, v \in Worker : q # p \/ v # w =>
                pc'[<<q, v>>] = pc[<<q, v>>]
      <4>1. TypeOK
        BY <1>a
      <4> QED BY <4>1, <1>5, ThreadFrame
    <3> QED BY <1>a, <3>1, <3>2
  <2>2. imported = 0 => \A r \in Forked : r \in dangling' => destroyed'
    <3>1. CASE Close(<<p, w>>)
      <4>1. dangling' = dangling \cup {p} /\ pc[<<p, w>>] = "close"
        BY <3>1, <1>a, CloseEffect
      <4>2. p # Creator => destroyed
        BY <4>1, <1>a DEF DestroyInv, Dropping, Process
      <4> QED BY <4>1, <4>2, <2>1, <1>a, <1>b
    <3>2. CASE ~Close(<<p, w>>)
      <4>1. dangling' = dangling
        BY <3>2, <1>5, <1>a, ThreadFrame
      <4> QED BY <4>1, <2>1, <1>b
    <3> QED BY <3>1, <3>2
  <2>3. CASE p = Creator
    <3>1. imported = 0 => ClosedCreator' /\ ~UseAfterFree(<<p, w>>)
      BY <1>5, <2>3, ClosedThread
    <3>2. imported = 0 => pc'[<<p, w>>] # "ub"
      BY <3>1, <1>5, <1>a, CloneEffect, LoadEffect, SwapEffect, AddEffect,
         ResetEffect, DropEffect, DestroyEffect, DropSwapEffect, DropSubEffect,
         CloseEffect DEF ThreadStep
    <3> QED BY <2>1, <2>2, <2>3, <3>1, <3>2, <1>b, <1>c
  <2>4. CASE p # Creator
    <3>1. /\ (Counting' <=> Counting) /\ (Creator \in alive' <=> Creator \in alive)
          /\ handles'[Creator] = handles[Creator] /\ start' = start
      BY <1>5, <2>4, CreatorFrame
    <3>2. ClosedCreator => ClosedCreator'
      BY <2>1, <2>4, <3>1 DEF ClosedCreator
    <3> QED BY <2>1, <2>2, <2>4, <3>2, <1>b, <1>c
  <2> QED BY <2>3, <2>4
<1>6. CASE UNCHANGED vars
  <2>1. UNCHANGED <<start, status, dangling, handles, pc, imported, destroyed>>
    BY <1>6 DEF vars, heap, history
  <2>2. ClosedCreator' <=> ClosedCreator
    BY <2>1 DEF Counting, ClosedCreator, alive
  <2> QED BY <2>1, <2>2, <1>b, <1>c
<1> QED BY <1>1, <1>2, <1>3, <1>4, <1>5, <1>6, DoneCases

-----------------------------------------------------------------------------
(***************************************************************************)
(* A forked process.                                                       *)
(***************************************************************************)
\* The bounds that the arithmetic below rests on.
LEMMA ForkedTypes ==
    ASSUME TypeOK, NEW p \in Process, NEW w \in Worker
    PROVE  /\ counter[p] \in 0..(Word - 1) /\ made[p] \in 0..MaxMade
           /\ count[<<p, w>>] \in Nat /\ pid[p] \in Process
           /\ Word \in Nat /\ MaxMade \in Nat /\ Word > MaxMade /\ MaxMade >= 1
BY WordPositive DEF TypeOK, Thread

\* A step that none of the threads about to subtract can notice.
LEMMA CopyFrame ==
    ASSUME NEW p \in Process, NEW w \in Worker,
           \A v \in Worker : v # w => /\ pc'[<<p, v>>] = pc[<<p, v>>]
                                      /\ count'[<<p, v>>] = count[<<p, v>>],
           counter'[p] = counter[p], made'[p] = made[p],
           pc'[<<p, w>>] # "reset", pc[<<p, w>>] # "reset"
    PROVE  /\ NoReset(p)' <=> NoReset(p)
           /\ Used(p) => Used(p)'
           /\ /\ Unused(p) /\ pc'[<<p, w>>] # "add"
              /\ pc'[<<p, w>>] = "swap" => count'[<<p, w>>] = counter[p]
              => Unused(p)'
<1>1. NoReset(p)' <=> NoReset(p)
  BY DEF NoReset
<1>2. ASSUME Used(p) PROVE Used(p)'
  <2>1. \A v \in Worker : pc'[<<p, v>>] = "reset" =>
           v # w /\ pc[<<p, v>>] = "reset" /\ count'[<<p, v>>] = count[<<p, v>>]
    OBVIOUS
  <2> QED BY <1>1, <1>2, <2>1 DEF Used
<1>3. ASSUME Unused(p), pc'[<<p, w>>] # "add",
             pc'[<<p, w>>] = "swap" => count'[<<p, w>>] = counter[p]
      PROVE  Unused(p)'
  BY <1>3 DEF Unused
<1> QED BY <1>1, <1>2, <1>3

LEMMA AddCounts ==
    ASSUME LifeInv, NEW p \in Forked, NEW w \in Worker, Add(<<p, w>>),
           ThreadStep(p, w), Used(p)
    PROVE  Used(p)'
<1>a. TypeOK /\ p \in Process /\ TypeOK'
  <2>1. [Next]_vars
    BY DEF Next, Thread, Process
  <2> QED BY <2>1, TypeStep DEF LifeInv, Process
<1>1. /\ pc[<<p, w>>] = "add" /\ pc'[<<p, w>>] = "idle"
      /\ counter'[p] = fetch_add(counter[p], 1) /\ made'[p] = made[p] + 1
  BY <1>a, AddEffect
<1>2. \A v \in Worker : v # w => /\ pc'[<<p, v>>] = pc[<<p, v>>]
                                 /\ count'[<<p, v>>] = count[<<p, v>>]
  BY <1>a, ThreadFrame
<1>3. \A v \in Worker : pc'[<<p, v>>] = "reset" <=> pc[<<p, v>>] = "reset"
  BY <1>1, <1>2
<1>4. /\ counter[p] \in 0..(Word - 1) /\ counter'[p] \in 0..(Word - 1)
      /\ made[p] \in Nat /\ made[p] + 1 <= MaxMade
      /\ Word \in Nat /\ MaxMade \in Nat /\ Word > MaxMade
  <2>1. made'[p] \in 0..MaxMade /\ counter'[p] \in 0..(Word - 1)
    BY <1>a DEF TypeOK
  <2> QED BY <1>a, <1>1, <2>1, ForkedTypes
<1>5. ASSUME NEW v \in Worker, pc'[<<p, v>>] = "reset"
      PROVE  /\ count'[<<p, v>>] \in 1..(Word - 1)
             /\ \/ counter'[p] = count'[<<p, v>>] + made'[p]
                \/ counter'[p] = count'[<<p, v>>] + made'[p] - Word
  <2>1. pc[<<p, v>>] = "reset" /\ count'[<<p, v>>] = count[<<p, v>>]
    BY <1>1, <1>2, <1>5
  <2>2. /\ count[<<p, v>>] \in 1..(Word - 1)
        /\ \/ counter[p] = count[<<p, v>>] + made[p]
           \/ counter[p] = count[<<p, v>>] + made[p] - Word
    BY <2>1 DEF Used
  <2>3. counter'[p] = counter[p] + 1 \/ counter'[p] = counter[p] + 1 - Word
    BY <1>1, <1>4, AddFacts
  <2> QED BY <1>1, <1>4, <2>1, <2>2, <2>3
<1>6. ASSUME NoReset(p)' PROVE counter'[p] = made'[p]
  <2>1. counter[p] = made[p]
    BY <1>3, <1>6 DEF NoReset, Used
  <2>2. fetch_add(counter[p], 1) = counter[p] + 1
    BY <1>4, <2>1, AddFacts
  <2> QED BY <1>1, <2>1, <2>2
<1>7. \A v, u \in Worker :
         pc'[<<p, v>>] = "reset" /\ pc'[<<p, u>>] = "reset" => v = u
  BY <1>3 DEF Used
<1> QED BY <1>5, <1>6, <1>7 DEF Used

LEMMA ResetCounts ==
    ASSUME LifeInv, NEW p \in Forked, NEW w \in Worker, Reset(<<p, w>>),
           ThreadStep(p, w), Used(p)
    PROVE  Used(p)' /\ NoReset(p)'
<1>a. TypeOK /\ p \in Process /\ TypeOK'
  <2>1. [Next]_vars
    BY DEF Next, Thread, Process
  <2> QED BY <2>1, TypeStep DEF LifeInv, Process
<1>1. /\ pc[<<p, w>>] = "reset" /\ pc'[<<p, w>>] = "idle"
      /\ counter'[p] = fetch_sub(counter[p], count[<<p, w>>] - 1)
      /\ made'[p] = made[p] + 1
  BY <1>a, ResetEffect
<1>2. \A v \in Worker : v # w => pc'[<<p, v>>] = pc[<<p, v>>]
  BY <1>a, ThreadFrame
<1>3. NoReset(p)'
  BY <1>1, <1>2 DEF NoReset, Used
<1>4. /\ made[p] \in Nat /\ made[p] + 1 <= MaxMade
      /\ Word \in Nat /\ MaxMade \in Nat /\ Word > MaxMade
  <2>1. made'[p] \in 0..MaxMade
    BY <1>a DEF TypeOK
  <2> QED BY <1>a, <1>1, <2>1, ForkedTypes
<1>5. /\ count[<<p, w>>] \in 1..(Word - 1)
      /\ \/ counter[p] = count[<<p, w>>] + made[p]
         \/ counter[p] = count[<<p, w>>] + made[p] - Word
  BY <1>1 DEF Used
<1>6. counter'[p] = made[p] + 1
  <2> DEFINE x == counter[p] - (count[<<p, w>>] - 1)
  <2>1. x = made[p] + 1 \/ x = made[p] + 1 - Word
    BY <1>4, <1>5
  <2>2. x \in Int /\ (x \in 0..(Word - 1) \/ x \in (-Word)..(-1))
    BY <1>4, <2>1
  <2>3. counter'[p] = x % Word
    BY <1>1 DEF fetch_sub
  <2> HIDE DEF x
  <2>4. CASE x = made[p] + 1
    <3>1. x \in 0..(Word - 1)
      BY <2>4, <1>4
    <3> QED BY <2>2, <2>3, <2>4, <3>1, <1>4, ModWord
  <2>5. CASE x = made[p] + 1 - Word
    <3>1. x \in (-Word)..(-1)
      BY <2>5, <1>4
    <3>2. x % Word = x + Word
      BY <2>2, <3>1, <1>4, ModWord
    <3> QED BY <2>3, <2>5, <3>2, <1>4
  <2> QED BY <2>1, <2>4, <2>5
<1> QED BY <1>1, <1>3, <1>6 DEF Used, NoReset

\* The first use of a copy.
LEMMA SwapCounts ==
    ASSUME LifeInv, NEW p \in Forked, NEW w \in Worker, Swap(<<p, w>>),
           ThreadStep(p, w), pid[p] # p, Unused(p)
    PROVE  Used(p)'
<1>a. TypeOK /\ p \in Process
  BY DEF LifeInv, Process
<1>1. /\ pc[<<p, w>>] = "swap"
      /\ pc'[<<p, w>>] = IF count[<<p, w>>] = 0 THEN "panic" ELSE "reset"
      /\ counter'[p] = counter[p] /\ made'[p] = made[p]
      /\ count'[<<p, w>>] = count[<<p, w>>]
  BY <1>a, SwapEffect
<1>2. \A v \in Worker : v # w => pc'[<<p, v>>] = pc[<<p, v>>]
  BY <1>a, ThreadFrame
<1>3. \A v \in Worker : pc'[<<p, v>>] = "reset" => v = w
  BY <1>2 DEF Unused
<1>4. made[p] = 0 /\ count[<<p, w>>] = counter[p]
  BY <1>1 DEF Unused
<1>5. counter[p] \in 0..(Word - 1) /\ Word \in Nat
  BY <1>a, ForkedTypes
<1>6. ASSUME NEW v \in Worker, pc'[<<p, v>>] = "reset"
      PROVE  /\ count'[<<p, v>>] \in 1..(Word - 1)
             /\ counter'[p] = count'[<<p, v>>] + made'[p]
  <2>1. v = w /\ count[<<p, w>>] # 0
    BY <1>1, <1>3, <1>6
  <2> QED BY <1>1, <1>4, <1>5, <2>1
<1>7. ASSUME NoReset(p)' PROVE counter'[p] = made'[p]
  <2>1. count[<<p, w>>] = 0
    BY <1>1, <1>7 DEF NoReset
  <2> QED BY <1>1, <1>4, <2>1
<1> QED BY <1>3, <1>6, <1>7 DEF Used

LEMMA ForkedThread ==
    ASSUME LifeInv, NEW p \in Forked, NEW w \in Worker, ThreadStep(p, w),
           Copied(p)'
    PROVE  /\ Copied(p)
           /\ pid'[p] # p => Unused(p)'
           /\ pid'[p] = p => Used(p)'
<1>a. TypeOK /\ DestroyInv /\ ForkedInv /\ p \in Process /\ p # Creator
  BY LifetimeAssumption DEF LifeInv, Process
<1>1. /\ p \in alive
      /\ \A v \in Worker : v # w => /\ pc'[<<p, v>>] = pc[<<p, v>>]
                                    /\ count'[<<p, v>>] = count[<<p, v>>]
  BY <1>a, OwnFrame
<1>2. ~Close(<<p, w>>) /\ ~destroy(<<p, w>>)
  BY <1>a, CloseEffect, DestroyEffect DEF Copied
<1>3. dangling' = dangling /\ destroyed' = destroyed
  BY <1>2, <1>a, ThreadFrame
<1>4. Copied(p) /\ p \notin dangling /\ ~destroyed
  BY <1>1, <1>3 DEF Copied
<1>5. /\ pid[p] # p => Unused(p)
      /\ pid[p] = p => Used(p)
  BY <1>4, <1>a DEF ForkedInv
<1>6. pc[<<p, w>>] \notin Dropping
  BY <1>4, <1>a DEF DestroyInv
<1>7. ~DropSwap(<<p, w>>) /\ ~DropSub(<<p, w>>) /\ ~UseAfterFree(<<p, w>>)
  BY <1>4, <1>6, <1>a, DropSwapEffect, DropSubEffect, UseAfterFreeEffect
     DEF Dropping
<1>8. CASE clone(<<p, w>>)
  <2>1. /\ pc[<<p, w>>] = "idle" /\ pc'[<<p, w>>] = "load" /\ pid'[p] = pid[p]
        /\ counter'[p] = counter[p] /\ made'[p] = made[p]
    BY <1>8, <1>a, CloneEffect
  <2> QED BY <2>1, <1>a, <1>1, <1>4, <1>5, CopyFrame
<1>9. CASE Load(<<p, w>>)
  <2>1. /\ pc[<<p, w>>] = "load" /\ pc'[<<p, w>>] = "swap" /\ pid'[p] = pid[p]
        /\ counter'[p] = counter[p] /\ made'[p] = made[p]
        /\ count'[<<p, w>>] = counter[p]
    BY <1>9, <1>a, LoadEffect
  <2> QED BY <2>1, <1>a, <1>1, <1>4, <1>5, CopyFrame
<1>10. CASE Swap(<<p, w>>)
  <2>1. pid'[p] = p
    BY <1>10, <1>a, SwapEffect
  <2>2. CASE pid[p] = p
    <3>1. /\ pc[<<p, w>>] = "swap" /\ pc'[<<p, w>>] = "add"
          /\ counter'[p] = counter[p] /\ made'[p] = made[p]
      BY <1>10, <2>2, <1>a, SwapEffect
    <3> QED BY <2>1, <2>2, <3>1, <1>a, <1>1, <1>4, <1>5, CopyFrame
  <2>3. CASE pid[p] # p
    BY <2>1, <2>3, <1>10, <1>4, <1>5, SwapCounts
  <2> QED BY <2>2, <2>3
<1>11. CASE Add(<<p, w>>)
  <2>1. pc[<<p, w>>] = "add" /\ pid'[p] = pid[p]
    BY <1>11, <1>a, AddEffect
  <2>2. pid[p] = p
    BY <2>1, <1>5 DEF Unused
  <2> QED BY <2>1, <2>2, <1>11, <1>4, <1>5, AddCounts
<1>12. CASE Reset(<<p, w>>)
  <2>1. pc[<<p, w>>] = "reset" /\ pid'[p] = pid[p]
    BY <1>12, <1>a, ResetEffect
  <2>2. pid[p] = p
    BY <2>1, <1>5 DEF Unused
  <2> QED BY <2>1, <2>2, <1>12, <1>4, <1>5, ResetCounts
<1>13. CASE drop(<<p, w>>)
  <2>1. /\ pc[<<p, w>>] = "idle" /\ pc'[<<p, w>>] = "idle" /\ pid'[p] = pid[p]
        /\ counter'[p] = counter[p] /\ made'[p] = made[p]
    BY <1>13, <1>a, DropEffect
  <2> QED BY <2>1, <1>a, <1>1, <1>4, <1>5, CopyFrame
<1> QED BY <1>2, <1>7, <1>8, <1>9, <1>10, <1>11, <1>12, <1>13 DEF ThreadStep

LEMMA ForkedStep ==
    ASSUME LifeInv, [Next]_vars PROVE ForkedInv'
<1>a. TypeOK /\ ForkedInv /\ \A p \in Forked : p \in Process /\ p # Creator
  BY LifetimeAssumption DEF LifeInv, Process
<1>b. ASSUME NEW p \in Forked, Copied(p)', Copied(p),
             pid'[p] = pid[p], counter'[p] = counter[p], made'[p] = made[p],
             \A v \in Worker : /\ pc'[<<p, v>>] = pc[<<p, v>>]
                               /\ count'[<<p, v>>] = count[<<p, v>>]
      PROVE  (pid'[p] # p => Unused(p)') /\ (pid'[p] = p => Used(p)')
  <2>1. (pid[p] # p => Unused(p)) /\ (pid[p] = p => Used(p))
    BY <1>a, <1>b DEF ForkedInv
  <2>2. (Unused(p) => Unused(p)') /\ (Used(p) => Used(p)')
    BY <1>b DEF Unused, Used, NoReset
  <2> QED BY <1>b, <2>1, <2>2
<1>c. SUFFICES ASSUME NEW p \in Forked, Copied(p)'
               PROVE  (pid'[p] # p => Unused(p)') /\ (pid'[p] = p => Used(p)')
  BY DEF ForkedInv
<1>1. CASE start # "done"
  <2>1. /\ UNCHANGED <<status, pid, dangling, pc, count, destroyed>>
        /\ \A r \in Process, w \in Worker : pc'[<<r, w>>] = "idle"
    BY <1>1, StillQuiet
  <2>2. CloneSet(p)' = {}
    BY <2>1, <1>a DEF CloneSet, Cloning
  <2>3. made'[p] = made[p] /\ counter'[p] = counter[p]
    <3>1. made'[p] = 0 /\ counter'[p] = counter[p]
      BY <1>1, <1>a, <2>2, StillQuiet
    <3>2. made[p] = 0
      BY <1>1, <1>a DEF LifeInv, BeforeInv
    <3> QED BY <3>1, <3>2
  <2>4. Copied(p)
    BY <1>c, <2>1 DEF Copied, alive
  <2> QED BY <1>b, <1>c, <2>1, <2>3, <2>4
<1>2. ASSUME NEW r \in Process, NEW q \in Process, fork(r, q)
      PROVE  (pid'[p] # p => Unused(p)') /\ (pid'[p] = p => Used(p)')
  <2>1. UNCHANGED <<pc, count, destroyed>>
    BY <1>2, ForkEffect
  <2>2. CASE p = q
    <3>1. /\ pid'[p] # p /\ made'[p] = 0
          /\ \A w \in Worker : pc[<<p, w>>] = "idle"
      BY <1>2, <2>2, ForkEffect
    <3> QED BY <2>1, <3>1 DEF Unused
  <2>3. CASE p # q
    <3>1. /\ p \in alive' <=> p \in alive
          /\ p \in dangling' <=> p \in dangling
          /\ pid'[p] = pid[p] /\ counter'[p] = counter[p] /\ made'[p] = made[p]
      BY <1>2, <2>3, <1>a, ForkEffect
    <3>2. Copied(p)
      BY <1>c, <2>1, <3>1 DEF Copied
    <3> QED BY <1>b, <1>c, <2>1, <3>1, <3>2
  <2> QED BY <2>2, <2>3
<1>3. ASSUME NEW r \in Process, NEW q \in Process, Move(r, q)
      PROVE  (pid'[p] # p => Unused(p)') /\ (pid'[p] = p => Used(p)')
  <2>1. UNCHANGED <<status, counter, pid, dangling, pc, count, made, destroyed>>
    BY <1>3, MoveEffect
  <2>2. Copied(p)
    BY <1>c, <2>1 DEF Copied, alive
  <2> QED BY <1>b, <1>c, <2>1, <2>2
<1>4. ASSUME NEW r \in Process, Exit(r)
      PROVE  (pid'[p] # p => Unused(p)') /\ (pid'[p] = p => Used(p)')
  <2>1. /\ UNCHANGED <<counter, pid, dangling, pc, count, made, destroyed>>
        /\ p \in alive' => p \in alive
    BY <1>4, <1>a, ExitEffect
  <2>2. Copied(p)
    BY <1>c, <2>1 DEF Copied
  <2> QED BY <1>b, <1>c, <2>1, <2>2
<1>5. ASSUME NEW r \in Process, NEW w \in Worker, ThreadStep(r, w)
      PROVE  (pid'[p] # p => Unused(p)') /\ (pid'[p] = p => Used(p)')
  <2>1. CASE r = p
    BY <1>5, <1>c, <2>1, ForkedThread
  <2>2. CASE r # p
    <3>1. /\ UNCHANGED status /\ dangling' \in {dangling, dangling \cup {r}}
          /\ pid'[p] = pid[p] /\ counter'[p] = counter[p] /\ made'[p] = made[p]
          /\ \A v \in Worker : /\ pc'[<<p, v>>] = pc[<<p, v>>]
                               /\ count'[<<p, v>>] = count[<<p, v>>]
      <4>1. TypeOK /\ p \in Process
        BY <1>a
      <4> QED BY <1>5, <2>2, <4>1, ThreadFrame
    <3>2. destroyed => destroyed'
      <4>1. TypeOK
        BY <1>a
      <4>2. CASE destroy(<<r, w>>)
        BY <4>1, <4>2, DestroyEffect
      <4>3. CASE ~destroy(<<r, w>>)
        BY <4>1, <4>3, <1>5, ThreadFrame
      <4> QED BY <4>2, <4>3
    <3>3. Copied(p)
      BY <1>c, <2>2, <3>1, <3>2 DEF Copied, alive
    <3> QED BY <1>b, <1>c, <3>1, <3>3
  <2> QED BY <2>1, <2>2
<1>6. CASE UNCHANGED vars
  <2>1. UNCHANGED <<status, counter, pid, dangling, pc, count, made, destroyed>>
    BY <1>6 DEF vars, heap, history
  <2>2. Copied(p)
    BY <1>c, <2>1 DEF Copied, alive
  <2> QED BY <1>b, <1>c, <2>1, <2>2
<1> QED BY <1>1, <1>2, <1>3, <1>4, <1>5, <1>6, DoneCases

-----------------------------------------------------------------------------
(***************************************************************************)
(* What is counted is never zero.                                          *)
(***************************************************************************)
LEMMA BornBound ==
    ASSUME LifeInv
    PROVE  /\ IsFiniteSet(Born) /\ Cardinality(Born) \in Nat
           /\ Cardinality(Born) >= 1 /\ Before \in Nat
           /\ Before + MaxMade < Word
<1>a. /\ BornInv /\ MaxMade \in Nat /\ Word \in Nat
      /\ Word > (Cardinality(Forked) + 1) * MaxMade
      /\ IsFiniteSet(Forked) /\ Creator \notin Forked
  BY LifetimeAssumption DEF LifeInv
<1>1. /\ IsFiniteSet(Process) /\ Cardinality(Forked) \in Nat
      /\ Cardinality(Process) = Cardinality(Forked) + 1
  <2>1. Process = Forked \cup {Creator}
    BY DEF Process
  <2> QED BY <1>a, <2>1, FS_AddElement, FS_CardinalityType
<1>2. Born \subseteq Process /\ Creator \in Born
  BY <1>a DEF Born, BornInv, Process
<1>3. /\ IsFiniteSet(Born) /\ Cardinality(Born) \in Nat
      /\ Cardinality(Born) <= Cardinality(Process)
  BY <1>1, <1>2, FS_Subset, FS_CardinalityType
<1>4. Cardinality(Born) # 0
  BY <1>2, <1>3, FS_EmptySet
<1> DEFINE b == Cardinality(Born)
           f == Cardinality(Forked)
<1>5. b \in Nat /\ b >= 1 /\ f \in Nat /\ b <= f + 1
  BY <1>1, <1>3, <1>4
<1>6. Before = (b - 1) * MaxMade
  BY DEF Before
<1>7. Word > (f + 1) * MaxMade
  BY <1>a
<1> HIDE DEF b, f
<1>8. (b - 1) * MaxMade \in Nat /\ (f + 1 - b) * MaxMade \in Nat
  BY <1>5, <1>a
<1>9. (b - 1) * MaxMade + MaxMade + (f + 1 - b) * MaxMade = (f + 1) * MaxMade
  BY <1>5, <1>a
<1>10. Before \in Nat /\ Before + MaxMade < Word
  <2> DEFINE x == (b - 1) * MaxMade
             y == (f + 1 - b) * MaxMade
             z == (f + 1) * MaxMade
  <2>1. x \in Nat /\ y \in Nat /\ x + MaxMade + y = z /\ Word > z /\ Before = x
    BY <1>6, <1>7, <1>8, <1>9
  <2>2. z \in Nat
    BY <1>5, <1>a
  <2> HIDE DEF x, y, z
  <2> QED BY <2>1, <2>2, <1>a
<1> QED BY <1>3, <1>5, <1>10 DEF b

LEMMA BornSame ==
    ASSUME \A p \in Process : status'[p] = "unborn" <=> status[p] = "unborn"
    PROVE  Before' = Before
<1>1. Born' = Born
  BY DEF Born
<1> QED BY <1>1 DEF Before

LEMMA BornGrows ==
    ASSUME LifeInv, NEW p \in Process, NEW q \in Process, fork(p, q)
    PROVE  Before' = Before + MaxMade
<1>1. /\ status[q] = "unborn" /\ status'[q] # "unborn"
      /\ \A r \in Process : r # q => status'[r] = status[r]
  BY ForkEffect
<1>2. Born' = Born \cup {q} /\ q \notin Born
  BY <1>1 DEF Born
<1>3. /\ Cardinality(Born') = Cardinality(Born) + 1
      /\ Cardinality(Born) \in Nat
  BY <1>2, BornBound, FS_AddElement
<1> DEFINE b == Cardinality(Born)
<1>4. Before = (b - 1) * MaxMade /\ Before' = (b + 1 - 1) * MaxMade /\ b \in Nat
  BY <1>3 DEF Before
<1>5. MaxMade \in Nat
  BY LifetimeAssumption
<1> HIDE DEF b
<1>6. (b + 1 - 1) * MaxMade = (b - 1) * MaxMade + MaxMade
  BY <1>4, <1>5
<1> QED BY <1>4, <1>6

\* What a process counts when it is forked.
LEMMA CopiedCount ==
    ASSUME LifeInv, NEW p \in alive, handles[p] > 0, imported = 0
    PROVE  counter[p] >= 1 /\ counter[p] <= Before + MaxMade
<1>a. /\ TypeOK /\ BeforeInv /\ DestroyInv /\ CreatorInv /\ ClosedInv
      /\ ForkedInv /\ ZeroInv /\ p \in Process
  BY DEF LifeInv, alive
<1>b. /\ counter[p] \in 0..(Word - 1) /\ made[p] \in 0..MaxMade
      /\ MaxMade \in Nat /\ Word \in Nat
  BY <1>a, WordPositive DEF TypeOK
<1>c. Before \in Nat /\ Before + MaxMade < Word
  BY BornBound
<1>1. start = "done" /\ ~destroyed
  BY <1>a DEF BeforeInv, DestroyInv
<1>2. CASE p = Creator
  <2>1. Counting
    BY <1>1, <1>2, <1>a DEF ClosedInv
  <2>2. counter[p] >= 1 /\ counter[p] <= made[p]
    BY <1>2, <2>1, <1>a DEF CreatorInv
  <2> QED BY <2>2, <1>b, <1>c
<1>3. CASE p # Creator
  <2>1. p \in Forked
    BY <1>3, <1>a DEF Process
  <2>2. Copied(p) /\ NotZero(p)
    BY <2>1, <1>1, <1>a DEF ClosedInv, ZeroInv, Copied
  <2>3. CASE pid[p] # p
    <3>1. counter[p] >= 1 /\ counter[p] <= Before
      BY <2>2, <2>3 DEF NotZero
    <3> QED BY <3>1, <1>b, <1>c
  <2>4. CASE pid[p] = p
    <3>1. Used(p)
      BY <2>1, <2>2, <2>4, <1>a DEF ForkedInv
    <3>2. CASE NoReset(p)
      <4>1. counter[p] = made[p] /\ made[p] >= 1
        BY <2>2, <2>4, <3>1, <3>2 DEF NotZero, Used
      <4> QED BY <4>1, <1>b, <1>c
    <3>3. CASE ~NoReset(p)
      <4>1. PICK w \in Worker : pc[<<p, w>>] = "reset"
        BY <3>3 DEF NoReset
      <4>2. /\ count[<<p, w>>] \in 1..(Word - 1)
            /\ \/ counter[p] = count[<<p, w>>] + made[p]
               \/ counter[p] = count[<<p, w>>] + made[p] - Word
        BY <3>1, <4>1 DEF Used
      <4>3. count[<<p, w>>] <= Before
        BY <2>2, <4>1 DEF NotZero
      <4> QED BY <4>2, <4>3, <1>b, <1>c
    <3> QED BY <3>2, <3>3
  <2> QED BY <2>3, <2>4
<1> QED BY <1>2, <1>3

LEMMA ZeroThread ==
    ASSUME LifeInv, NEW p \in Forked, NEW w \in Worker, ThreadStep(p, w),
           imported = 0, ~destroyed
    PROVE  (destroyed' \/ NotZero(p)') /\ pc'[<<p, w>>] # "panic"
<1>a. /\ TypeOK /\ DestroyInv /\ ForkedInv /\ ZeroInv /\ ClosedInv
      /\ p \in Process /\ p # Creator
  BY LifetimeAssumption DEF LifeInv, Process
<1>1. /\ p \in alive
      /\ UNCHANGED status
      /\ \A v \in Worker : v # w => /\ pc'[<<p, v>>] = pc[<<p, v>>]
                                    /\ count'[<<p, v>>] = count[<<p, v>>]
  BY <1>a, OwnFrame
<1>2. Before' = Before /\ Before \in Nat
  BY <1>1, BornSame, BornBound
<1>3. p \notin dangling /\ Copied(p) /\ NotZero(p)
  BY <1>1, <1>a DEF ClosedInv, ZeroInv, Copied
<1>4. (pid[p] # p => Unused(p)) /\ (pid[p] = p => Used(p))
  BY <1>3, <1>a DEF ForkedInv
<1>5. /\ counter[p] \in 0..(Word - 1) /\ made[p] \in 0..MaxMade
      /\ MaxMade \in Nat /\ Word \in Nat
  BY <1>a, ForkedTypes
<1>6. ASSUME pid'[p] = pid[p], counter'[p] = counter[p], made'[p] = made[p],
             pc'[<<p, w>>] # "reset", pc[<<p, w>>] # "reset"
      PROVE  NotZero(p)'
  <2>1. NoReset(p)' <=> NoReset(p)
    BY <1>1, <1>6 DEF NoReset
  <2>2. \A v \in Worker : pc'[<<p, v>>] = "reset" =>
           pc[<<p, v>>] = "reset" /\ count'[<<p, v>>] = count[<<p, v>>]
    BY <1>1, <1>6
  <2> QED BY <1>2, <1>3, <1>6, <2>1, <2>2 DEF NotZero
<1>7. CASE clone(<<p, w>>)
  BY <1>7, <1>6, <1>a, CloneEffect
<1>8. CASE Load(<<p, w>>)
  BY <1>8, <1>6, <1>a, LoadEffect
<1>9. CASE Swap(<<p, w>>)
  <2>1. CASE pid[p] = p
    <3>1. /\ pc[<<p, w>>] = "swap" /\ pc'[<<p, w>>] = "add" /\ pid'[p] = pid[p]
          /\ counter'[p] = counter[p] /\ made'[p] = made[p]
      BY <1>9, <2>1, <1>a, SwapEffect
    <3> QED BY <3>1, <1>6
  <2>2. CASE pid[p] # p
    <3>1. /\ pc[<<p, w>>] = "swap" /\ pid'[p] = p
          /\ pc'[<<p, w>>] = IF count[<<p, w>>] = 0 THEN "panic" ELSE "reset"
          /\ count'[<<p, w>>] = count[<<p, w>>]
      BY <1>9, <2>2, <1>a, SwapEffect
    <3>2. count[<<p, w>>] = counter[p] /\ counter[p] >= 1 /\ counter[p] <= Before
      BY <2>2, <3>1, <1>3, <1>4 DEF Unused, NotZero
    <3>3. pc'[<<p, w>>] = "reset" /\ count'[<<p, w>>] <= Before
      BY <3>1, <3>2, <1>5
    <3>4. \A v \in Worker : v # w => pc'[<<p, v>>] # "reset"
      BY <2>2, <1>1, <1>4 DEF Unused
    <3> QED BY <3>1, <3>3, <3>4, <1>2 DEF NotZero, NoReset
  <2> QED BY <2>1, <2>2
<1>10. CASE Add(<<p, w>>)
  <2>1. /\ pc[<<p, w>>] = "add" /\ pc'[<<p, w>>] = "idle" /\ pid'[p] = pid[p]
        /\ made'[p] = made[p] + 1
    BY <1>10, <1>a, AddEffect
  <2>2. pid[p] = p
    BY <2>1, <1>4 DEF Unused
  <2>3. \A v \in Worker : pc'[<<p, v>>] = "reset" =>
           pc[<<p, v>>] = "reset" /\ count'[<<p, v>>] = count[<<p, v>>]
    BY <1>1, <2>1
  <2> QED BY <1>2, <1>3, <1>5, <2>1, <2>2, <2>3 DEF NotZero
<1>11. CASE Reset(<<p, w>>)
  <2>1. /\ pc[<<p, w>>] = "reset" /\ pc'[<<p, w>>] = "idle" /\ pid'[p] = pid[p]
        /\ made'[p] = made[p] + 1
    BY <1>11, <1>a, ResetEffect
  <2>2. pid[p] = p
    BY <2>1, <1>4 DEF Unused
  <2>3. \A v \in Worker : pc'[<<p, v>>] = "reset" =>
           pc[<<p, v>>] = "reset" /\ count'[<<p, v>>] = count[<<p, v>>]
    BY <1>1, <2>1
  <2> QED BY <1>2, <1>3, <1>5, <2>1, <2>2, <2>3 DEF NotZero
<1>12. CASE drop(<<p, w>>)
  BY <1>12, <1>6, <1>a, DropEffect
<1>13. CASE destroy(<<p, w>>)
  BY <1>13, <1>a, DestroyEffect
<1>14. pc[<<p, w>>] \notin Dropping
  BY <1>a DEF DestroyInv
<1>15. /\ ~DropSwap(<<p, w>>) /\ ~DropSub(<<p, w>>) /\ ~Close(<<p, w>>)
       /\ ~UseAfterFree(<<p, w>>)
  BY <1>3, <1>14, <1>a, DropSwapEffect, DropSubEffect, CloseEffect,
     UseAfterFreeEffect DEF Dropping
<1> QED BY <1>7, <1>8, <1>9, <1>10, <1>11, <1>12, <1>13, <1>15 DEF ThreadStep

LEMMA ZeroStep ==
    ASSUME LifeInv, [Next]_vars PROVE ZeroInv'
<1>a. /\ TypeOK /\ ZeroInv /\ \A p \in Forked : p \in Process /\ p # Creator
      /\ imported \in Nat
  BY LifetimeAssumption DEF LifeInv, Process, TypeOK
<1>b. ASSUME NEW p \in Forked, NotZero(p), Before' >= Before,
             pid'[p] = pid[p], counter'[p] = counter[p], made'[p] = made[p],
             \A v \in Worker : /\ pc'[<<p, v>>] = pc[<<p, v>>]
                               /\ count'[<<p, v>>] = count[<<p, v>>],
             Before' \in Nat
      PROVE  NotZero(p)'
  <2>1. Before \in Nat
    BY BornBound
  <2>2. /\ counter[p] \in Nat /\ p \in Process
        /\ \A v \in Worker : count[<<p, v>>] \in Nat
    BY <1>a, ForkedTypes DEF TypeOK, Thread
  <2>3. NoReset(p)' <=> NoReset(p)
    BY <1>b DEF NoReset
  <2>4. pid'[p] # p => counter'[p] >= 1 /\ counter'[p] <= Before'
    BY <1>b, <2>1, <2>2 DEF NotZero
  <2>5. \A w \in Worker : pc'[<<p, w>>] = "reset" => count'[<<p, w>>] <= Before'
    BY <1>b, <2>1, <2>2 DEF NotZero
  <2>6. pid'[p] = p /\ NoReset(p)' => made'[p] >= 1
    BY <1>b, <2>3 DEF NotZero
  <2> QED BY <2>4, <2>5, <2>6 DEF NotZero
<1>c. SUFFICES ASSUME imported' = 0
               PROVE  /\ \A p \in Forked :
                            p \in alive' /\ ~destroyed' => NotZero(p)'
                      /\ \A p \in Process, w \in Worker : pc'[<<p, w>>] # "panic"
  BY DEF ZeroInv
<1>d. imported = 0
  <2>1. CASE start # "done"
    BY <2>1, <1>c, StillQuiet
  <2>2. CASE start = "done"
    <3>1. ASSUME NEW p \in Process, NEW q \in Process, fork(p, q) \/ Move(p, q)
          PROVE  imported = 0
      BY <3>1, <1>a, <1>c, ForkEffect, MoveEffect
    <3>2. ASSUME NEW p \in Process, Exit(p) PROVE imported = 0
      BY <3>2, <1>c, ExitEffect
    <3>3. ASSUME NEW p \in Process, NEW w \in Worker, ThreadStep(p, w)
          PROVE  imported = 0
      BY <3>3, <1>a, <1>c, ThreadFrame
    <3>4. CASE UNCHANGED vars
      BY <3>4, <1>c DEF vars, history
    <3> QED BY <2>2, <3>1, <3>2, <3>3, <3>4, DoneCases
  <2> QED BY <2>1, <2>2
<1>e. /\ \A p \in Forked : p \in alive /\ ~destroyed => NotZero(p)
      /\ \A p \in Process, w \in Worker : pc[<<p, w>>] # "panic"
      /\ Before \in Nat
  BY <1>a, <1>d, BornBound DEF ZeroInv
<1> DEFINE Goal == /\ \A p \in Forked :
                            p \in alive' /\ ~destroyed' => NotZero(p)'
                   /\ \A p \in Process, w \in Worker : pc'[<<p, w>>] # "panic"
<1>1. CASE start # "done"
  <2>1. /\ UNCHANGED <<status, pid, dangling, pc, count, destroyed>>
        /\ \A r \in Process, w \in Worker : pc'[<<r, w>>] = "idle"
    BY <1>1, StillQuiet
  <2>2. Before' = Before
    BY <2>1, BornSame
  <2>3. ASSUME NEW p \in Forked, p \in alive', ~destroyed' PROVE NotZero(p)'
    <3>1. p \in alive /\ ~destroyed
      BY <2>1, <2>3 DEF alive
    <3>2. NotZero(p)
      BY <3>1, <1>e
    <3>3. made'[p] = made[p] /\ counter'[p] = counter[p]
      <4>1. CloneSet(p)' = {}
        BY <2>1, <1>a DEF CloneSet, Cloning
      <4>2. made'[p] = 0 /\ counter'[p] = counter[p]
        BY <1>1, <1>a, <4>1, StillQuiet
      <4>3. made[p] = 0
        BY <1>1, <1>a DEF LifeInv, BeforeInv
      <4> QED BY <4>2, <4>3
    <3> QED BY <1>b, <1>e, <2>1, <2>2, <3>2, <3>3
  <2> QED BY <2>1, <2>3
<1>2. ASSUME NEW r \in Process, NEW q \in Process, fork(r, q) PROVE Goal
  <2>1. /\ UNCHANGED <<pc, count, destroyed>> /\ r \in alive /\ handles[r] > 0
        /\ pid'[q] # q /\ counter'[q] = counter[r] /\ q \in Forked
        /\ \A w \in Worker : pc[<<q, w>>] = "idle"
    BY <1>2, ForkEffect
  <2>2. Before' = Before + MaxMade /\ MaxMade \in Nat
    BY <1>2, BornGrows, LifetimeAssumption
  <2>3. NotZero(q)'
    <3>1. counter[r] >= 1 /\ counter[r] <= Before + MaxMade
      BY <2>1, <1>d, CopiedCount
    <3> QED BY <2>1, <2>2, <3>1 DEF NotZero
  <2>4. ASSUME NEW p \in Forked, p # q, p \in alive', ~destroyed'
        PROVE  NotZero(p)'
    <3>1. /\ p \in alive /\ ~destroyed /\ pid'[p] = pid[p]
          /\ counter'[p] = counter[p] /\ made'[p] = made[p]
      BY <1>2, <2>1, <2>4, <1>a, ForkEffect
    <3>2. NotZero(p)
      BY <3>1, <1>e
    <3>3. Before' >= Before /\ Before' \in Nat
      BY <2>2, <1>e
    <3> QED BY <1>b, <2>1, <3>1, <3>2, <3>3
  <2> QED BY <1>e, <2>1, <2>3, <2>4
<1>3. ASSUME UNCHANGED <<counter, pid, pc, count, made, destroyed>>,
             \A p \in Forked : p \in alive' => p \in alive,
             \A p \in Process : status'[p] = "unborn" <=> status[p] = "unborn"
      PROVE  Goal
  <2>1. Before' = Before
    BY <1>3, BornSame
  <2>2. ASSUME NEW p \in Forked, p \in alive', ~destroyed' PROVE NotZero(p)'
    <3>1. p \in alive /\ ~destroyed
      BY <1>3, <2>2
    <3>2. NotZero(p)
      BY <3>1, <1>e
    <3> QED BY <1>b, <1>e, <1>3, <2>1, <3>2
  <2> QED BY <1>3, <1>e, <2>2
<1>4. ASSUME NEW r \in Process, NEW q \in Process, Move(r, q) PROVE Goal
  <2>1. UNCHANGED <<status, counter, pid, pc, count, made, destroyed>>
    BY <1>4, MoveEffect
  <2>2. alive' = alive
    BY <2>1 DEF alive
  <2> QED BY <1>3, <2>1, <2>2
<1>5. ASSUME NEW r \in Process, Exit(r) PROVE Goal
  <2>1. /\ UNCHANGED <<counter, pid, pc, count, made, destroyed>>
        /\ \A p \in Process : p \in alive' => p \in alive
        /\ \A p \in Process : status'[p] = "unborn" <=> status[p] = "unborn"
    BY <1>5, ExitEffect
  <2> QED BY <1>3, <1>a, <2>1
<1>6. ASSUME NEW r \in Process, NEW w \in Worker, ThreadStep(r, w) PROVE Goal
  <2>a. TypeOK
    BY <1>a
  <2>1. /\ UNCHANGED status
        /\ \A q \in Process, v \in Worker : q # r \/ v # w =>
              /\ pc'[<<q, v>>] = pc[<<q, v>>]
              /\ count'[<<q, v>>] = count[<<q, v>>]
        /\ \A q \in Process : q # r =>
              /\ counter'[q] = counter[q]
              /\ pid'[q] = pid[q] /\ made'[q] = made[q]
    BY <1>6, <2>a, ThreadFrame
  <2>2. destroyed => destroyed'
    <3>1. CASE destroy(<<r, w>>)
      BY <3>1, <2>a, DestroyEffect
    <3>2. CASE ~destroy(<<r, w>>)
      BY <3>2, <1>6, <2>a, ThreadFrame
    <3> QED BY <3>1, <3>2
  <2>3. alive' = alive /\ Before' = Before
    BY <2>1, BornSame DEF alive
  <2>4. pc'[<<r, w>>] # "panic"
    <3>1. CASE ~Swap(<<r, w>>)
      BY <3>1, <1>6, <2>a, CloneEffect, LoadEffect, AddEffect, ResetEffect,
         DropEffect, DestroyEffect, DropSwapEffect, DropSubEffect, CloseEffect,
         UseAfterFreeEffect DEF ThreadStep
    <3>2. CASE r = Creator /\ Swap(<<r, w>>)
      BY <3>2, <2>a, SwapEffect DEF LifeInv, BornInv
    <3>3. CASE r # Creator /\ Swap(<<r, w>>)
      <4>1. r \in Forked
        BY <3>3 DEF Process
      <4>2. ~destroyed
        <5>1. r \in alive /\ w \in CloneSet(r)
          BY <3>3, <1>6, <2>a, ThreadFrame, SwapEffect DEF CloneSet, Cloning
        <5> QED BY <5>1 DEF LifeInv, BorrowInv, DestroyInv
      <4> QED BY <1>6, <4>1, <4>2, <1>d, ZeroThread
    <3> QED BY <3>1, <3>2, <3>3
  <2>5. ASSUME NEW p \in Forked, p \in alive', ~destroyed' PROVE NotZero(p)'
    <3>1. p \in alive /\ ~destroyed /\ p \in Process
      BY <1>a, <2>2, <2>3, <2>5
    <3>2. CASE p = r
      BY <1>6, <1>d, <2>5, <3>1, <3>2, ZeroThread
    <3>3. CASE p # r
      <4>1. NotZero(p)
        BY <3>1, <1>e
      <4> QED BY <1>b, <1>e, <2>1, <2>3, <3>1, <3>3, <4>1
    <3> QED BY <3>2, <3>3
  <2> QED BY <1>e, <2>1, <2>4, <2>5
<1>7. CASE UNCHANGED vars
  <2>1. UNCHANGED <<status, counter, pid, pc, count, made, destroyed>>
    BY <1>7 DEF vars, heap, history
  <2>2. alive' = alive
    BY <2>1 DEF alive
  <2> QED BY <1>3, <2>1, <2>2
<1> QED BY <1>1, <1>2, <1>4, <1>5, <1>6, <1>7, DoneCases

-----------------------------------------------------------------------------
(***************************************************************************)
(* The theorems.                                                           *)
(***************************************************************************)
LEMMA LifeInit == Init => LifeInv
<1> SUFFICES ASSUME Init PROVE LifeInv
  OBVIOUS
<1>a. Creator \in Process /\ \A p \in Forked : p \in Process /\ p # Creator
  BY LifetimeAssumption DEF Process
<1>b. Word \in Nat /\ Word > MaxMade /\ MaxMade \in Nat /\ MaxMoves \in Nat
  BY WordPositive, LifetimeAssumption
<1>1. /\ start = "chunks" /\ mapped = {} /\ dangling = {}
      /\ status = [p \in Process |-> IF p = Creator THEN "running" ELSE "unborn"]
      /\ counter = [p \in Process |-> 0] /\ pid = [p \in Process |-> Creator]
      /\ handles = [p \in Process |-> 0] /\ pc = [t \in Thread |-> "idle"]
      /\ count = [t \in Thread |-> 0] /\ made = [p \in Process |-> 0]
      /\ exported = 0 /\ imported = 0 /\ destroyed = FALSE
  BY DEF Init
<1>2. TypeOK
  <2>1. /\ start \in Allocations \cup {"done", "failed"}
        /\ mapped \subseteq Allocations
        /\ status \in [Process -> {"unborn", "running", "gone", "killed"}]
        /\ dangling \subseteq Process /\ destroyed \in BOOLEAN
    BY <1>1 DEF Allocations
  <2>2. /\ counter \in [Process -> 0..(Word - 1)] /\ pid \in [Process -> Process]
        /\ handles \in [Process -> Nat] /\ made \in [Process -> 0..MaxMade]
        /\ exported \in 0..MaxMoves /\ imported \in 0..MaxMoves
    BY <1>1, <1>a, <1>b
  <2>3. pc \in [Thread -> PC] /\ count \in [Thread -> Nat]
    BY <1>1 DEF PC
  <2> QED BY <2>1, <2>2, <2>3 DEF TypeOK
<1>3. \A p \in Process, w \in Worker : pc[<<p, w>>] = "idle"
  BY <1>1 DEF Thread
<1>4. \A p \in Process : CloneSet(p) = {}
  BY <1>3 DEF CloneSet, Cloning
<1>5. /\ \A p \in Forked : p \notin alive
      /\ Creator \in alive
  BY <1>1, <1>a DEF alive
<1>6. StartInv /\ BeforeInv
  BY <1>1, <1>a, <1>5 DEF StartInv, BeforeInv
<1>7. BornInv
  BY <1>1, <1>3, <1>a DEF BornInv
<1>8. BorrowInv
  BY <1>4 DEF BorrowInv, alive
<1>9. MadeInv
  <2>1. Cardinality({}) = 0
    BY FS_EmptySet
  <2> QED BY <1>1, <1>4, <1>b, <2>1 DEF MadeInv
<1>10. DestroyInv
  BY <1>1, <1>3, <1>a DEF DestroyInv, Dropping
<1>11. CreatorInv
  BY <1>1, <1>3, <1>a DEF CreatorInv, Counting
<1>12. ClosedInv
  BY <1>1, <1>3, <1>a DEF ClosedInv
<1>13. MappedInv
  BY <1>1 DEF MappedInv
<1>14. ForkedInv
  BY <1>5 DEF ForkedInv, Copied
<1>15. ZeroInv
  BY <1>3, <1>5 DEF ZeroInv
<1> QED BY <1>2, <1>6, <1>7, <1>8, <1>9, <1>10, <1>11, <1>12, <1>13, <1>14,
           <1>15 DEF LifeInv

LEMMA LifeStep == LifeInv /\ [Next]_vars => LifeInv'
BY TypeStep, StartStep, BeforeStep, BornStep, BorrowStep, MadeStep, DestroyStep,
   CreatorStep, ClosedStep, MappedStep, ForkedStep, ZeroStep DEF LifeInv

LEMMA LifeHolds == Spec => []LifeInv
BY LifeInit, LifeStep, PTL DEF Spec

\* The counters stay within usize, no process owns a negative number of
\* handles, and no more handles are made than there were clones.
THEOREM LifetimeTypeCorrect == Spec => []TypeOK
<1>1. LifeInv => TypeOK
  BY DEF LifeInv
<1> QED BY <1>1, LifeHolds, PTL

\* PerProcessReferences counts the handles: in the creating process those it
\* made and did not drop, in a forked one those made since the fork, however
\* increase of several threads races for the first use after it.
THEOREM CounterCountsHolds == Spec => []CounterCounts
<1>1. ASSUME LifeInv PROVE CounterCounts
  <2>a. TypeOK /\ CreatorInv /\ ForkedInv /\ Creator \in Process
    BY <1>1 DEF LifeInv, Process
  <2>1. ASSUME Quiet(Creator), start = "done"
        PROVE  counter[Creator] = handles[Creator] + exported - imported
    <3>1. Counting /\ DropSet = {}
      BY <2>1 DEF Quiet, Counting, DropSet
    <3>2. Cardinality(DropSet) = 0
      BY <3>1, FS_EmptySet
    <3>3. counter[Creator]
             = handles[Creator] + exported - imported + Cardinality(DropSet)
      BY <3>1, <2>a DEF CreatorInv
    <3>4. handles[Creator] \in Nat /\ exported \in Nat /\ imported \in Nat
      BY <2>a, LifetimeAssumption DEF TypeOK
    <3> QED BY <3>2, <3>3, <3>4
  <2>2. ASSUME NEW p \in Forked, Quiet(p), pid[p] = p, ~destroyed
        PROVE  counter[p] = made[p]
    <3>1. Copied(p) /\ NoReset(p)
      BY <2>2 DEF Quiet, Copied, NoReset
    <3> QED BY <3>1, <2>2, <2>a DEF ForkedInv, Used
  <2> QED BY <2>1, <2>2 DEF CounterCounts
<1> QED BY <1>1, LifeHolds, PTL

\* The creating process frees the channel under no handle of its own and does
\* not touch a counter it has freed, as long as no handle that was made in
\* another process was moved to it.
THEOREM CreatorSafeHolds == Spec => []CreatorSafe
<1>1. ASSUME LifeInv PROVE CreatorSafe
  <2>a. /\ TypeOK /\ BornInv /\ DestroyInv /\ ClosedInv /\ MappedInv
        /\ Creator \in Process /\ imported \in Nat
        /\ handles[Creator] \in Nat
    BY <1>1, LifetimeAssumption DEF LifeInv, Process, TypeOK
  <2>1. ASSUME imported = 0, "inner" \notin mapped, start = "done"
        PROVE  handles[Creator] = 0
    <3>1. CASE destroyed
      BY <3>1, <2>a DEF DestroyInv
    <3>2. CASE Creator \in dangling /\ Creator \in alive
      <4>1. ~Counting
        BY <3>2 DEF Counting
      <4> QED BY <4>1, <3>2, <2>1, <2>a DEF ClosedInv
    <3>3. CASE Creator \notin alive
      BY <3>3, <2>a DEF BornInv
    <3> QED BY <2>1, <2>a, <3>1, <3>2, <3>3 DEF MappedInv
  <2>2. imported = 0 => \A w \in Worker : pc[<<Creator, w>>] # "ub"
    BY <2>a DEF ClosedInv
  <2> QED BY <2>1, <2>2, <2>a DEF CreatorSafe
<1> QED BY <1>1, LifeHolds, PTL

\* When the last handle of the creating process is dropped Inner is given back,
\* unless a handle was moved away from it; and so is the queue's buffer, unless
\* another process existed that could keep the mutex from being destroyed.
THEOREM LastDropHolds == Spec => []LastDropFrees
<1>1. ASSUME LifeInv PROVE LastDropFrees
  <2>a. /\ TypeOK /\ CreatorInv /\ MappedInv
        /\ imported \in Nat /\ exported \in Nat
    BY <1>1, LifetimeAssumption DEF LifeInv, TypeOK
  <2>1. ASSUME Creator \in alive, start = "done", handles[Creator] = 0,
               \A w \in Worker : pc[<<Creator, w>>] = "idle",
               ~(exported > 0)
        PROVE  Creator \in dangling
    <3>1. ASSUME Creator \notin dangling PROVE FALSE
      <4>1. Counting /\ DropSet = {}
        BY <2>1, <3>1 DEF Counting, DropSet
      <4>2. Cardinality(DropSet) = 0
        BY <4>1, FS_EmptySet
      <4>3. /\ counter[Creator]
                  = handles[Creator] + exported - imported + Cardinality(DropSet)
            /\ counter[Creator] >= 1
        BY <4>1, <2>a DEF CreatorInv
      <4> QED BY <4>2, <4>3, <2>1, <2>a
    <3> QED BY <3>1
  <2> QED BY <2>1, <2>a DEF LastDropFrees, MappedInv
<1> QED BY <1>1, LifeHolds, PTL

\* increase never finds a counter that is zero, in no copy of it that a chain
\* of forks made, as long as no handle was moved to the creating process.
THEOREM NeverZeroHolds == Spec => []NeverZero
<1>1. ASSUME LifeInv PROVE NeverZero
  BY <1>1 DEF LifeInv, ZeroInv, NeverZero, Thread
<1> QED BY <1>1, LifeHolds, PTL
=============================================================================
