---------------------------- MODULE ChunksProofs ----------------------------
(***************************************************************************)
(* Theorems about the allocator of allocator.rs, for any number of threads *)
(* and chunks, any chunk size and any sizes of layouts.                    *)
(***************************************************************************)
EXTENDS Chunks, FiniteSetTheorems, SequenceTheorems, TLAPS

-----------------------------------------------------------------------------
(***************************************************************************)
(* What Vec::remove and Vec::insert do to the list.                        *)
(***************************************************************************)
LEMMA RemoveAtProperties ==
    ASSUME NEW S, NEW s \in Seq(S), NEW i \in 1..Len(s)
    PROVE  /\ RemoveAt(s, i) \in Seq(S)
           /\ Len(RemoveAt(s, i)) = Len(s) - 1
           /\ \A k \in 1..(Len(s) - 1) :
                 RemoveAt(s, i)[k] = IF k < i THEN s[k] ELSE s[k + 1]
<1> DEFINE left == SubSeq(s, 1, i - 1)
           right == SubSeq(s, i + 1, Len(s))
<1>1. Len(s) \in Nat /\ i \in Nat /\ 1 <= i /\ i <= Len(s)
  BY LenProperties
<1>2. /\ left \in Seq(S) /\ Len(left) = i - 1
      /\ \A k \in 1..(i - 1) : left[k] = s[k]
  BY <1>1, SubSeqProperties
<1>3. /\ right \in Seq(S) /\ Len(right) = Len(s) - i
      /\ \A k \in 1..(Len(s) - i) : right[k] = s[k + i]
  BY <1>1, SubSeqProperties
<1> HIDE DEF left, right
<1>4. /\ left \o right \in Seq(S)
      /\ Len(left \o right) = Len(s) - 1
      /\ \A k \in 1..(Len(s) - 1) :
            (left \o right)[k] = IF k <= i - 1 THEN left[k]
                                             ELSE right[k - (i - 1)]
  <2>1. Len(left) + Len(right) = Len(s) - 1
    BY <1>1, <1>2, <1>3
  <2>2. /\ left \o right \in Seq(S)
        /\ Len(left \o right) = Len(left) + Len(right)
        /\ \A k \in 1..(Len(left) + Len(right)) :
              (left \o right)[k] = IF k <= Len(left) THEN left[k]
                                                    ELSE right[k - Len(left)]
    BY <1>2, <1>3, ConcatProperties
  <2> QED BY <1>2, <2>1, <2>2
<1>5. \A k \in 1..(Len(s) - 1) :
         (left \o right)[k] = IF k < i THEN s[k] ELSE s[k + 1]
  <2> TAKE k \in 1..(Len(s) - 1)
  <2>1. CASE k < i
    BY <2>1, <1>1, <1>2, <1>4
  <2>2. CASE ~(k < i)
    <3>1. k - (i - 1) \in 1..(Len(s) - i) /\ k - (i - 1) + i = k + 1
      BY <2>2, <1>1
    <3> QED BY <2>2, <3>1, <1>1, <1>3, <1>4
  <2> QED BY <2>1, <2>2
<1> QED BY <1>4, <1>5 DEF RemoveAt, left, right

LEMMA InsertAtProperties ==
    ASSUME NEW S, NEW s \in Seq(S), NEW i \in 1..(Len(s) + 1), NEW e \in S
    PROVE  /\ InsertAt(s, i, e) \in Seq(S)
           /\ Len(InsertAt(s, i, e)) = Len(s) + 1
           /\ \A k \in 1..(i - 1) : InsertAt(s, i, e)[k] = s[k]
           /\ InsertAt(s, i, e)[i] = e
           /\ \A k \in (i + 1)..(Len(s) + 1) : InsertAt(s, i, e)[k] = s[k - 1]
<1> DEFINE left == SubSeq(s, 1, i - 1)
           right == SubSeq(s, i, Len(s))
           front == left \o <<e>>
<1>1. Len(s) \in Nat /\ i \in Nat /\ 1 <= i /\ i <= Len(s) + 1
  BY LenProperties
<1>2. /\ left \in Seq(S) /\ Len(left) = i - 1
      /\ \A k \in 1..(i - 1) : left[k] = s[k]
  BY <1>1, SubSeqProperties
<1>3. /\ right \in Seq(S) /\ Len(right) = Len(s) - i + 1
      /\ \A k \in 1..(Len(s) - i + 1) : right[k] = s[k + i - 1]
  BY <1>1, SubSeqProperties
<1> HIDE DEF left, right
<1>4. /\ front \in Seq(S) /\ Len(front) = i
      /\ \A k \in 1..(i - 1) : front[k] = s[k]
      /\ front[i] = e
  <2>1. <<e>> \in Seq(S) /\ Len(<<e>>) = 1 /\ <<e>>[1] = e
    OBVIOUS
  <2>2. /\ front \in Seq(S) /\ Len(front) = i
        /\ \A k \in 1..i : front[k] = IF k <= i - 1 THEN left[k]
                                                   ELSE <<e>>[k - (i - 1)]
    BY <1>1, <1>2, <2>1, ConcatProperties
  <2> QED BY <1>1, <1>2, <2>1, <2>2
<1> HIDE DEF front
<1>5. /\ front \o right \in Seq(S)
      /\ Len(front \o right) = Len(s) + 1
      /\ \A k \in 1..(Len(s) + 1) :
            (front \o right)[k] = IF k <= i THEN front[k] ELSE right[k - i]
  BY <1>1, <1>3, <1>4, ConcatProperties
<1>6. \A k \in 1..(i - 1) : (front \o right)[k] = s[k]
  BY <1>1, <1>4, <1>5
<1>7. (front \o right)[i] = e
  BY <1>1, <1>4, <1>5
<1>8. \A k \in (i + 1)..(Len(s) + 1) : (front \o right)[k] = s[k - 1]
  <2> TAKE k \in (i + 1)..(Len(s) + 1)
  <2>1. k - i \in 1..(Len(s) - i + 1) /\ k - i + i - 1 = k - 1
    BY <1>1
  <2> QED BY <2>1, <1>1, <1>3, <1>5
<1> QED BY <1>5, <1>6, <1>7, <1>8 DEF InsertAt, left, right, front

-----------------------------------------------------------------------------
(***************************************************************************)
(* Spaces.                                                                 *)
(***************************************************************************)
Space == {s \in FreeSpace : s.begin + s.count <= MaxChunks}

Apart(s, r) == \/ s.begin + s.count <= r.begin
               \/ r.begin + r.count <= s.begin

LEMMA SpaceFacts ==
    ASSUME NEW s \in Space
    PROVE  /\ s \in FreeSpace /\ s.begin \in Nat /\ s.count \in Nat
           /\ s.count >= 1 /\ s.begin + s.count <= MaxChunks
           /\ s = [begin |-> s.begin, count |-> s.count]
BY ChunksAssumption DEF Space, FreeSpace

LEMMA SpaceMade ==
    ASSUME NEW b \in Nat, NEW n \in Nat, n >= 1, b + n <= MaxChunks
    PROVE  [begin |-> b, count |-> n] \in Space
BY ChunksAssumption DEF Space, FreeSpace

LEMMA InCells ==
    ASSUME NEW s \in Space, NEW n
    PROVE  n \in Cells(s)
              <=> n \in Nat /\ s.begin <= n /\ n < s.begin + s.count
BY SpaceFacts DEF Cells

LEMMA ApartCells ==
    ASSUME NEW s \in Space, NEW r \in Space
    PROVE  /\ Apart(s, r) <=> Cells(s) \cap Cells(r) = {}
           /\ Apart(s, r) => s # r
           /\ Apart(s, r) <=> Apart(r, s)
<1>1. Apart(s, r) => Cells(s) \cap Cells(r) = {}
  BY InCells, SpaceFacts DEF Apart
<1>2. ~Apart(s, r) => Cells(s) \cap Cells(r) # {}
  <2> SUFFICES ASSUME ~Apart(s, r) PROVE \E n : n \in Cells(s) \cap Cells(r)
    OBVIOUS
  <2>1. CASE s.begin <= r.begin
    <3>1. r.begin \in Cells(s) /\ r.begin \in Cells(r)
      BY <2>1, InCells, SpaceFacts DEF Apart
    <3> QED BY <3>1
  <2>2. CASE ~(s.begin <= r.begin)
    <3>1. s.begin \in Cells(s) /\ s.begin \in Cells(r)
      BY <2>2, InCells, SpaceFacts DEF Apart
    <3> QED BY <3>1
  <2> QED BY <2>1, <2>2
<1>3. Apart(s, r) => s # r
  BY SpaceFacts DEF Apart
<1>4. Apart(s, r) <=> Apart(r, s)
  BY DEF Apart
<1> QED BY <1>1, <1>2, <1>3, <1>4

\* Two spaces with the same cells are the same.
LEMMA CellsInjective ==
    ASSUME NEW s \in Space, NEW r \in Space, Cells(s) = Cells(r)
    PROVE  s = r
<1>1. s.begin \in Cells(s) /\ r.begin \in Cells(r)
  BY InCells, SpaceFacts
<1>2. s.begin = r.begin
  BY <1>1, InCells, SpaceFacts
<1>3. s.begin + s.count - 1 \in Cells(s) /\ r.begin + r.count - 1 \in Cells(r)
  BY InCells, SpaceFacts
<1>4. s.count = r.count
  BY <1>2, <1>3, InCells, SpaceFacts
<1> QED BY <1>2, <1>4, SpaceFacts

\* A space is split into two that have its cells.
LEMMA SplitFacts ==
    ASSUME NEW s \in Space, NEW n \in Nat, 1 <= n, n < s.count
    PROVE  /\ Required(s, n) \in Space /\ Unused(s, n) \in Space
           /\ Required(s, n).count = n
           /\ Apart(Required(s, n), Unused(s, n))
           /\ Cells(s) = Cells(Required(s, n)) \cup Cells(Unused(s, n))
<1>1. Required(s, n) \in Space /\ Unused(s, n) \in Space
  <2>1. /\ s.begin \in Nat /\ s.begin + n \in Nat /\ s.count - n \in Nat
        /\ s.count - n >= 1 /\ s.begin + n <= MaxChunks
        /\ s.begin + n + (s.count - n) <= MaxChunks
    BY SpaceFacts, ChunksAssumption
  <2> QED BY <2>1, SpaceMade DEF Required, Unused
<1>2. Required(s, n).count = n /\ Apart(Required(s, n), Unused(s, n))
  BY SpaceFacts DEF Required, Unused, Apart
<1>3. \A m : m \in Cells(s)
         <=> m \in Cells(Required(s, n)) \cup Cells(Unused(s, n))
  <2> TAKE m
  <2>1. m \in Cells(s) <=> m \in Nat /\ s.begin <= m /\ m < s.begin + s.count
    BY InCells
  <2>2. m \in Cells(Required(s, n))
           <=> m \in Nat /\ s.begin <= m /\ m < s.begin + n
    BY <1>1, InCells DEF Required
  <2>3. m \in Cells(Unused(s, n))
           <=> m \in Nat /\ s.begin + n <= m /\ m < s.begin + s.count
    BY <1>1, InCells, SpaceFacts DEF Unused
  <2> QED BY <2>1, <2>2, <2>3, SpaceFacts
<1> QED BY <1>1, <1>2, <1>3

\* Neighbours are merged into a space that has the cells of both.
LEMMA MergeFacts ==
    ASSUME NEW s \in Space, NEW c \in Space, CanMerge(s, c)
    PROVE  /\ merge(s, c) \in Space
           /\ Cells(merge(s, c)) = Cells(s) \cup Cells(c)
<1>1. merge(s, c) \in Space
  BY SpaceFacts, SpaceMade DEF merge, CanMerge, are_contiguous
<1>2. \A m : m \in Cells(merge(s, c)) <=> m \in Cells(s) \cup Cells(c)
  <2>1. CASE are_contiguous(s, c)
    BY <1>1, <2>1, SpaceFacts, InCells DEF merge, are_contiguous
  <2>2. CASE ~are_contiguous(s, c)
    BY <1>1, <2>2, SpaceFacts, InCells DEF merge, CanMerge, are_contiguous
  <2> QED BY <2>1, <2>2
<1> QED BY <1>1, <1>2

\* What lies apart from a space lies apart from its parts, and the other way.
LEMMA ApartParts ==
    ASSUME NEW s \in Space, NEW a \in Space, NEW b \in Space, NEW r \in Space,
           Cells(s) = Cells(a) \cup Cells(b)
    PROVE  Apart(s, r) <=> Apart(a, r) /\ Apart(b, r)
BY ApartCells

\* A layout that is not empty needs a chunk.
LEMMA ChunksPositive ==
    ASSUME NEW bytes \in Sizes
    PROVE  required_chunks(bytes) \in Nat /\ required_chunks(bytes) >= 1
<1>1. bytes \in Nat /\ bytes > 0 /\ CHUNK_SIZE \in Nat /\ CHUNK_SIZE > 0
  BY ChunksAssumption
<1>2. bytes \div CHUNK_SIZE \in Nat
  BY <1>1
<1>3. bytes % CHUNK_SIZE = 0 => bytes \div CHUNK_SIZE >= 1
  <2>1. bytes = CHUNK_SIZE * (bytes \div CHUNK_SIZE) + (bytes % CHUNK_SIZE)
    BY <1>1
  <2>2. bytes \div CHUNK_SIZE = 0 => CHUNK_SIZE * (bytes \div CHUNK_SIZE) = 0
    BY <1>1
  <2> QED BY <1>1, <1>2, <2>1, <2>2
<1> QED BY <1>2, <1>3 DEF required_chunks

-----------------------------------------------------------------------------
(***************************************************************************)
(* The inductive invariant.  TypeOK needs what Partition says (a merged    *)
(* space fits into the buffer only because the two lay apart), Partition   *)
(* needs to know which thread may have a space in hand and that only one   *)
(* changes the list, and SelfCheck needs that spaces are not listed twice. *)
(***************************************************************************)
Holding == {"get", "insert", "unlock", "refused"}

\* Who is where: the mutex excludes, and a thread inside a method knows what
\* it was asked for.
ControlInv ==
    /\ lock \in Thread \cup {NoThread}
    /\ pc \in [Thread -> PC]
    /\ op \in [Thread -> AllocOps \cup {"none", "dealloc"}]
    /\ size \in [Thread -> Sizes \cup {0}]
    /\ dead \subseteq Thread
    /\ \A t \in Thread :
          /\ pc[t] \in Holding => lock = t
          /\ pc[t] # "idle" => size[t] \in Sizes /\ op[t] # "none"
          /\ pc[t] \in {"get", "refused"} => op[t] # "dealloc"
          /\ pc[t] = "idle" => op[t] = "none"

\* Every space lies inside the buffer.
InsideInv ==
    /\ free_chunks \in Seq(Space)
    /\ chunk \in [Thread -> SUBSET Space]
    /\ grant \in [Thread -> SUBSET Space]
    /\ allocations \subseteq [space : Space, ptr : Nat, size : Sizes]
    /\ dirty \subseteq 0..(MaxChunks - 1)

\* A thread has a space to insert while it inserts, or waits to return it; it
\* has one to hand out from get on.  What is handed out has the length that
\* dealloc will compute again from the layout, and begins where its pointer
\* says.
HandInv ==
    /\ \A t \in Thread :
          /\ chunk[t] = {} \/ \E c \in Space : chunk[t] = {c}
          /\ chunk[t] # {} <=>
                pc[t] = "insert" \/ (pc[t] = "lock" /\ op[t] = "dealloc")
          /\ grant[t] = {} \/ \E c \in Space : grant[t] = {c}
          /\ grant[t] # {} <=>
                pc[t] \in {"insert", "unlock"} /\ op[t] # "dealloc"
          /\ \A c \in grant[t] : c.count = required_chunks(size[t])
    /\ \A a \in allocations : /\ a.space.count = required_chunks(a.size)
                              /\ a.ptr = into_absolute(a.space.begin)

\* No two spaces, wherever they are, have a cell in common.
Hand(t) == chunk[t] \cup grant[t]

ListApart ==
    \A k, j \in 1..Len(free_chunks) :
        k # j => Apart(free_chunks[k], free_chunks[j])

HandApart ==
    /\ \A s \in Listed, t \in Thread : \A c \in Hand(t) : Apart(s, c)
    /\ \A t, u \in Thread : t # u =>
          \A c \in Hand(t), d \in Hand(u) : Apart(c, d)
    /\ \A t \in Thread : \A c \in chunk[t], d \in grant[t] : Apart(c, d)

OwnedApart ==
    /\ \A s \in Listed, a \in allocations : Apart(s, a.space)
    /\ \A t \in Thread, a \in allocations : \A c \in Hand(t) : Apart(c, a.space)
    /\ \A a, b \in allocations : a # b => Apart(a.space, b.space)

\* Every cell is somewhere.
CoverInv ==
    \A n \in 0..(MaxChunks - 1) :
        \/ \E s \in Listed : n \in Cells(s)
        \/ \E t \in Thread : \E c \in Hand(t) : n \in Cells(c)
        \/ \E a \in allocations : n \in Cells(a.space)

SpacesInv ==
    /\ InsideInv /\ HandInv /\ ListApart /\ HandApart /\ OwnedApart
    /\ CoverInv /\ SelfCheck

ChunksInv ==
    /\ ControlInv /\ InsideInv /\ HandInv /\ ListApart /\ HandApart
    /\ OwnedApart /\ CoverInv /\ SelfCheck

-----------------------------------------------------------------------------
(***************************************************************************)
(* The list, when an element is removed from it and when one is put into   *)
(* its place.                                                              *)
(***************************************************************************)
LEMMA ListRemoved ==
    ASSUME free_chunks \in Seq(Space), ListApart, SelfCheck,
           NEW i \in 1..Len(free_chunks),
           free_chunks' = RemoveAt(free_chunks, i)
    PROVE  /\ free_chunks[i] \in Listed /\ free_chunks[i] \in Space
           /\ free_chunks' \in Seq(Space)
           /\ Listed' = Listed \ {free_chunks[i]}
           /\ ListApart' /\ SelfCheck'
<1> DEFINE L == Len(free_chunks)
           old(k) == IF k < i THEN k ELSE k + 1
<1>1. L \in Nat /\ \A k \in 1..L : free_chunks[k] \in Space
  BY LenProperties, ElementOfSeq
<1>2. /\ free_chunks' \in Seq(Space) /\ Len(free_chunks') = L - 1
      /\ \A k \in 1..(L - 1) :
            free_chunks'[k] = IF k < i THEN free_chunks[k]
                                       ELSE free_chunks[k + 1]
  BY RemoveAtProperties
<1>3. \A k \in 1..(L - 1) :
         old(k) \in 1..L /\ old(k) # i /\ free_chunks'[k] = free_chunks[old(k)]
  BY <1>1, <1>2
<1>4. \A k, j \in 1..(L - 1) :
         (k # j => old(k) # old(j)) /\ (k < j => old(k) < old(j))
  BY <1>1
<1>5. \A m \in 1..L : m # i => \E k \in 1..(L - 1) : old(k) = m
  <2> SUFFICES ASSUME NEW m \in 1..L, m # i
               PROVE  \E k \in 1..(L - 1) : old(k) = m
    OBVIOUS
  <2>1. CASE m < i
    <3>1. m \in 1..(L - 1) /\ old(m) = m
      BY <1>1, <2>1
    <3> QED BY <3>1
  <2>2. CASE m > i
    <3>1. m - 1 \in 1..(L - 1) /\ old(m - 1) = m
      BY <1>1, <2>2
    <3> QED BY <3>1
  <2> QED BY <1>1, <2>1, <2>2
<1>6. \A m \in 1..L : m # i => free_chunks[m] # free_chunks[i]
  BY <1>1, ApartCells DEF ListApart
<1> HIDE DEF old
<1>7. Listed' = Listed \ {free_chunks[i]}
  <2>1. \A s \in Listed' : s \in Listed \ {free_chunks[i]}
    BY <1>2, <1>3, <1>6 DEF Listed
  <2>2. \A s \in Listed \ {free_chunks[i]} : s \in Listed'
    <3> SUFFICES ASSUME NEW s \in Listed, s # free_chunks[i]
                 PROVE  s \in Listed'
      OBVIOUS
    <3>1. PICK m \in 1..L : s = free_chunks[m]
      BY DEF Listed
    <3>2. PICK k \in 1..(L - 1) : old(k) = m
      BY <3>1, <1>5
    <3>3. s = free_chunks'[k] /\ k \in 1..Len(free_chunks')
      BY <3>1, <3>2, <1>2, <1>3
    <3> QED BY <3>3 DEF Listed
  <2> QED BY <2>1, <2>2
<1>8. ListApart'
  BY <1>2, <1>3, <1>4 DEF ListApart
<1>9. SelfCheck'
  <2> SUFFICES ASSUME NEW k \in 1..(L - 1), NEW j \in 1..(L - 1)
               PROVE  /\ k < j => Less(free_chunks'[k], free_chunks'[j])
                      /\ ~are_contiguous(free_chunks'[k], free_chunks'[j])
    BY <1>2 DEF SelfCheck, Less, are_contiguous
  <2> QED BY <1>3, <1>4 DEF SelfCheck
<1> QED BY <1>1, <1>2, <1>7, <1>8, <1>9 DEF Listed

\* Ord for FreeSpace is total.
LEMMA LessTotal ==
    ASSUME NEW s \in Space, NEW r \in Space, s # r, ~Less(r, s)
    PROVE  Less(s, r)
BY SpaceFacts DEF Less

LEMMA InsertedAt ==
    ASSUME free_chunks \in Seq(Space), NEW c \in Space,
           NEW i \in 1..(Len(free_chunks) + 1)
    PROVE  /\ InsertAt(free_chunks, i, c) \in Seq(Space)
           /\ Len(InsertAt(free_chunks, i, c)) = Len(free_chunks) + 1
           /\ \A k \in 1..(i - 1) :
                 InsertAt(free_chunks, i, c)[k] = free_chunks[k]
           /\ InsertAt(free_chunks, i, c)[i] = c
           /\ \A k \in (i + 1)..(Len(free_chunks) + 1) :
                 InsertAt(free_chunks, i, c)[k] = free_chunks[k - 1]
<1>1. /\ InsertAt(free_chunks, i, c) \in Seq(Space)
      /\ Len(InsertAt(free_chunks, i, c)) = Len(free_chunks) + 1
  BY InsertAtProperties
<1>2. \A k \in 1..(i - 1) : InsertAt(free_chunks, i, c)[k] = free_chunks[k]
  BY InsertAtProperties
<1>3. InsertAt(free_chunks, i, c)[i] = c
  BY InsertAtProperties
<1>4. \A k \in (i + 1)..(Len(free_chunks) + 1) :
         InsertAt(free_chunks, i, c)[k] = free_chunks[k - 1]
  BY InsertAtProperties
<1> QED BY <1>1, <1>2, <1>3, <1>4

LEMMA ListInserted ==
    ASSUME free_chunks \in Seq(Space), ListApart, SelfCheck,
           NEW c \in Space, \A s \in Listed : Apart(s, c),
           \A k \in 1..Len(free_chunks) : ~CanMerge(free_chunks[k], c),
           NEW i \in 1..(Len(free_chunks) + 1), upper_bound(i, c),
           free_chunks' = InsertAt(free_chunks, i, c)
    PROVE  /\ free_chunks' \in Seq(Space)
           /\ Listed' = Listed \cup {c}
           /\ ListApart' /\ SelfCheck'
<1> DEFINE L == Len(free_chunks)
           old(k) == IF k < i THEN k ELSE k - 1
<1>1. L \in Nat /\ \A k \in 1..L : free_chunks[k] \in Space
  BY LenProperties, ElementOfSeq
<1>2. /\ free_chunks' \in Seq(Space) /\ Len(free_chunks') = L + 1
      /\ \A k \in 1..(i - 1) : free_chunks'[k] = free_chunks[k]
      /\ free_chunks'[i] = c
      /\ \A k \in (i + 1)..(L + 1) : free_chunks'[k] = free_chunks[k - 1]
  BY InsertedAt
<1>3. \A k \in 1..(L + 1) : k # i =>
         /\ old(k) \in 1..L /\ free_chunks'[k] = free_chunks[old(k)]
         /\ k < i => old(k) \in 1..(i - 1)
         /\ k > i => old(k) \in i..L
  BY <1>1, <1>2
<1>4. \A k, j \in (1..(L + 1)) \ {i} :
         (k # j => old(k) # old(j)) /\ (k < j => old(k) < old(j))
  BY <1>1
<1>5. \A m \in 1..L : \E k \in 1..(L + 1) : k # i /\ old(k) = m
  <2> SUFFICES ASSUME NEW m \in 1..L
               PROVE  \E k \in 1..(L + 1) : k # i /\ old(k) = m
    OBVIOUS
  <2>1. CASE m < i
    <3>1. m \in 1..(L + 1) /\ m # i /\ old(m) = m
      BY <1>1, <2>1
    <3> QED BY <3>1
  <2>2. CASE m >= i
    <3>1. m + 1 \in 1..(L + 1) /\ m + 1 # i /\ old(m + 1) = m
      BY <1>1, <2>2
    <3> QED BY <3>1
  <2> QED BY <1>1, <2>1, <2>2
<1>6. free_chunks'[i] = c /\ i \in 1..(L + 1)
  BY <1>1, <1>2
<1> HIDE DEF old
<1>7. Listed' = Listed \cup {c}
  <2>1. \A s \in Listed' : s \in Listed \cup {c}
    BY <1>2, <1>3, <1>6 DEF Listed
  <2>2. c \in Listed'
    BY <1>2, <1>6 DEF Listed
  <2>3. \A s \in Listed : s \in Listed'
    <3> SUFFICES ASSUME NEW s \in Listed PROVE s \in Listed'
      OBVIOUS
    <3>1. PICK m \in 1..L : s = free_chunks[m]
      BY DEF Listed
    <3>2. PICK k \in 1..(L + 1) : k # i /\ old(k) = m
      BY <1>5
    <3>3. s = free_chunks'[k] /\ k \in 1..Len(free_chunks')
      BY <3>1, <3>2, <1>2, <1>3
    <3> QED BY <3>3 DEF Listed
  <2> QED BY <2>1, <2>2, <2>3
<1>8. \A m \in 1..L : Apart(free_chunks[m], c) /\ Apart(c, free_chunks[m])
                      /\ free_chunks[m] # c
  BY <1>1, ApartCells DEF Listed
<1>9. ListApart'
  <2> SUFFICES ASSUME NEW k \in 1..(L + 1), NEW j \in 1..(L + 1), k # j
               PROVE  Apart(free_chunks'[k], free_chunks'[j])
    BY <1>2 DEF ListApart, Apart
  <2>1. CASE k # i /\ j # i
    BY <2>1, <1>3, <1>4 DEF ListApart
  <2>2. CASE k = i \/ j = i
    BY <2>2, <1>3, <1>6, <1>8
  <2> QED BY <2>1, <2>2
<1>10. SelfCheck'
  <2> SUFFICES ASSUME NEW k \in 1..(L + 1), NEW j \in 1..(L + 1)
               PROVE  /\ k < j => Less(free_chunks'[k], free_chunks'[j])
                      /\ ~are_contiguous(free_chunks'[k], free_chunks'[j])
    <3>1. Len(free_chunks') = L + 1
      BY <1>2
    <3> QED BY <3>1 DEF SelfCheck, Less, are_contiguous
  <2>1. CASE k # i /\ j # i
    BY <2>1, <1>3, <1>4 DEF SelfCheck
  <2>2. CASE k = i /\ j # i
    <3>1. ~are_contiguous(c, free_chunks[old(j)])
      BY <2>2, <1>3 DEF CanMerge
    <3>2. k < j => Less(c, free_chunks[old(j)])
      BY <2>2, <1>3, <1>1 DEF upper_bound
    <3> QED BY <2>2, <1>3, <1>6, <3>1, <3>2
  <2>3. CASE k # i /\ j = i
    <3>1. ~are_contiguous(free_chunks[old(k)], c)
      BY <2>3, <1>3 DEF CanMerge
    <3>2. k < j => Less(free_chunks[old(k)], c)
      BY <2>3, <1>1, <1>3, <1>8, LessTotal DEF upper_bound
    <3> QED BY <2>3, <1>3, <1>6, <3>1, <3>2
  <2>4. CASE k = i /\ j = i
    <3>1. ~are_contiguous(c, c)
      BY SpaceFacts DEF are_contiguous
    <3> QED BY <2>4, <1>1, <1>6, <3>1
  <2> QED BY <2>1, <2>2, <2>3, <2>4
<1> QED BY <1>2, <1>7, <1>9, <1>10

-----------------------------------------------------------------------------
(***************************************************************************)
(* Steps.                                                                  *)
(***************************************************************************)
LEMMA ControlStep ==
    ASSUME ControlInv, InsideInv, [Next]_vars PROVE ControlInv'
<1> USE DEF ControlInv, Holding, PC
<1>1. ASSUME NEW t \in Thread, alloc(t), UNCHANGED dead PROVE ControlInv'
  BY <1>1, ChunksAssumption DEF alloc
<1>2. ASSUME NEW t \in Thread, dealloc(t), UNCHANGED dead PROVE ControlInv'
  BY <1>2 DEF dealloc, InsideInv
<1>3. ASSUME NEW t \in Thread, Lock(t), UNCHANGED dead PROVE ControlInv'
  BY <1>3, ChunksAssumption DEF Lock
<1>4. ASSUME NEW t \in Thread, get(t), UNCHANGED dead PROVE ControlInv'
  <2>1. pc[t] = "get" /\ UNCHANGED <<lock, op, size, dead>>
    BY <1>4 DEF get
  <2>2. \/ pc' = [pc EXCEPT ![t] = "unlock"]
        \/ pc' = [pc EXCEPT ![t] = "insert"]
    BY <1>4 DEF get
  <2> QED BY <2>1, <2>2
<1>5. ASSUME NEW t \in Thread, GetNone(t), UNCHANGED dead PROVE ControlInv'
  BY <1>5 DEF GetNone
<1>6. ASSUME NEW t \in Thread, MergeOne(t), UNCHANGED dead PROVE ControlInv'
  BY <1>6 DEF MergeOne
<1>7. ASSUME NEW t \in Thread, push(t), UNCHANGED dead PROVE ControlInv'
  BY <1>7 DEF push
<1>8. ASSUME NEW t \in Thread, Unlock(t), UNCHANGED dead PROVE ControlInv'
  BY <1>8, ChunksAssumption DEF Unlock
<1>9. ASSUME NEW t \in Thread, Kill(t) PROVE ControlInv'
  BY <1>9 DEF Kill
<1>10. CASE UNCHANGED vars
  BY <1>10 DEF vars
<1> QED
  BY <1>1, <1>2, <1>3, <1>4, <1>5, <1>6, <1>7, <1>8, <1>9, <1>10
     DEF Next, Begin, Step

\* Steps that move no space.
LEMMA QuietStep ==
    ASSUME UNCHANGED <<list, client>>,
           InsideInv, ListApart, HandApart, OwnedApart, CoverInv, SelfCheck
    PROVE  InsideInv' /\ ListApart' /\ HandApart' /\ OwnedApart'
           /\ CoverInv' /\ SelfCheck'
<1>1. UNCHANGED <<free_chunks, chunk, grant, allocations, dirty>>
  BY DEF list, client
<1>2. Listed' = Listed
  BY <1>1 DEF Listed
<1>3. InsideInv' /\ ListApart' /\ SelfCheck'
  BY <1>1 DEF InsideInv, ListApart, SelfCheck, Apart, Less, are_contiguous
<1>4. HandApart'
  BY <1>1, <1>2 DEF HandApart, Hand, Apart
<1>5. OwnedApart'
  BY <1>1, <1>2 DEF OwnedApart, Hand, Apart
<1>6. CoverInv'
  BY <1>1, <1>2 DEF CoverInv, Hand, Cells
<1> QED BY <1>3, <1>4, <1>5, <1>6

LEMMA QuietHand ==
    ASSUME ControlInv, InsideInv, HandInv, NEW t \in Thread,
           \/ alloc(t) \/ Lock(t) \/ GetNone(t) \/ Kill(t)
    PROVE  HandInv' /\ UNCHANGED <<list, client>>
<1> USE DEF HandInv, ControlInv, InsideInv, list, client, Holding, PC
<1>1. CASE alloc(t)
  BY <1>1, ChunksAssumption DEF alloc
<1>2. CASE Lock(t)
  BY <1>2, ChunksAssumption DEF Lock
<1>3. CASE GetNone(t)
  BY <1>3, ChunksAssumption DEF GetNone
<1>4. CASE Kill(t)
  BY <1>4, ChunksAssumption DEF Kill
<1> QED BY <1>1, <1>2, <1>3, <1>4

LEMMA ListedFacts ==
    ASSUME free_chunks \in Seq(Space), ListApart
    PROVE  /\ Listed \subseteq Space
           /\ \A s, r \in Listed : s # r => Apart(s, r)
BY ElementOfSeq DEF Listed, ListApart

\* A pointer is a multiple of the chunk size, as return_back asserts, and the
\* conversion to bytes and back loses nothing.
LEMMA PointerFacts ==
    ASSUME NEW b \in Nat
    PROVE  /\ into_absolute(b) \in Nat
           /\ into_absolute(b) % CHUNK_SIZE = 0
           /\ from_bytes(into_absolute(b)) = b
<1>1. CHUNK_SIZE \in Nat \ {0}
  BY ChunksAssumption
<1>2. b * CHUNK_SIZE \in Nat
  BY <1>1
<1>3. (b * CHUNK_SIZE) % CHUNK_SIZE = 0
  BY <1>1
<1>4. (b * CHUNK_SIZE) \div CHUNK_SIZE = b
  BY <1>1
<1> QED BY <1>2, <1>3, <1>4 DEF into_absolute, from_bytes

\* What dealloc computes from pointer and layout is the space that was
\* allocated.
LEMMA ReturnedSpace ==
    ASSUME HandInv, InsideInv, NEW a \in allocations
    PROVE  /\ [begin |-> from_bytes(a.ptr), count |-> returned_chunks(a.size)]
                 = a.space
           /\ a.space \in Space /\ a.size \in Sizes
<1>1. a \in [space : Space, ptr : Nat, size : Sizes]
  BY DEF InsideInv
<1>2. returned_chunks(a.size) = a.space.count
  BY DEF HandInv, returned_chunks, required_chunks
<1>3. a.space.begin \in Nat
  BY <1>1, SpaceFacts
<1>4. from_bytes(a.ptr) = a.space.begin
  BY <1>3, PointerFacts DEF HandInv
<1> QED BY <1>1, <1>2, <1>4, SpaceFacts

\* dealloc moves a space from the client into the thread's hand.
LEMMA DeallocMoves ==
    ASSUME ChunksInv, NEW t \in Thread, dealloc(t)
    PROVE  \E a \in allocations :
              /\ allocations' = allocations \ {a}
              /\ chunk' = [chunk EXCEPT ![t] = {a.space}]
              /\ a.space \in Space /\ a.size \in Sizes
              /\ chunk[t] = {} /\ grant[t] = {} /\ pc[t] = "idle"
              /\ size' = [size EXCEPT ![t] = a.size]
              /\ op' = [op EXCEPT ![t] = "dealloc"]
              /\ pc' = [pc EXCEPT ![t] = "lock"]
              /\ UNCHANGED <<free_chunks, grant, dirty>>
<1>1. PICK a \in allocations :
         /\ allocations' = allocations \ {a}
         /\ size' = [size EXCEPT ![t] = a.size]
         /\ chunk' = [chunk EXCEPT ![t] =
               {[begin |-> from_bytes(a.ptr), count |-> returned_chunks(a.size)]}]
  BY DEF dealloc
<1>2. /\ [begin |-> from_bytes(a.ptr), count |-> returned_chunks(a.size)] = a.space
      /\ a.space \in Space /\ a.size \in Sizes
  BY ReturnedSpace DEF ChunksInv
<1>3. pc[t] = "idle" /\ chunk[t] = {} /\ grant[t] = {}
  BY DEF dealloc, ChunksInv, HandInv
<1> QED BY <1>1, <1>2, <1>3 DEF dealloc

LEMMA DeallocStep ==
    ASSUME ChunksInv, NEW t \in Thread, dealloc(t)
    PROVE  InsideInv' /\ HandInv' /\ ListApart' /\ HandApart' /\ OwnedApart'
           /\ CoverInv' /\ SelfCheck'
<1>1. PICK a \in allocations :
         /\ allocations' = allocations \ {a}
         /\ chunk' = [chunk EXCEPT ![t] = {a.space}]
         /\ a.space \in Space /\ a.size \in Sizes
         /\ chunk[t] = {} /\ grant[t] = {} /\ pc[t] = "idle"
         /\ size' = [size EXCEPT ![t] = a.size]
         /\ op' = [op EXCEPT ![t] = "dealloc"]
         /\ pc' = [pc EXCEPT ![t] = "lock"]
         /\ UNCHANGED <<free_chunks, grant, dirty>>
  BY DeallocMoves
<1>2. Listed' = Listed
  BY <1>1 DEF Listed
<1>3. InsideInv'
  BY <1>1 DEF InsideInv, ChunksInv
<1>4. HandInv'
  BY <1>1 DEF HandInv, InsideInv, ControlInv, ChunksInv
<1>5. ListApart' /\ SelfCheck'
  BY <1>1 DEF ChunksInv, ListApart, SelfCheck, Apart, Less, are_contiguous
<1>6. /\ Hand(t)' = {a.space}
      /\ \A u \in Thread : u # t => Hand(u)' = Hand(u)
      /\ chunk'[t] = {a.space} /\ grant'[t] = {}
  BY <1>1 DEF Hand, ChunksInv, InsideInv
<1>7. /\ \A s \in Listed : Apart(s, a.space)
      /\ \A u \in Thread : \A c \in Hand(u) :
            Apart(c, a.space) /\ Apart(a.space, c)
      /\ \A b \in allocations' : Apart(a.space, b.space)
  BY <1>1 DEF ChunksInv, OwnedApart, Apart
<1>8. HandApart'
  <2>1. \A s \in Listed', u \in Thread : \A c \in Hand(u)' : Apart(s, c)
    BY <1>2, <1>6, <1>7 DEF ChunksInv, HandApart
  <2>2. \A u, v \in Thread : u # v =>
           \A c \in Hand(u)', d \in Hand(v)' : Apart(c, d)
    BY <1>6, <1>7 DEF ChunksInv, HandApart
  <2>3. \A u \in Thread : \A c \in chunk'[u], d \in grant'[u] : Apart(c, d)
    BY <1>1, <1>6 DEF ChunksInv, HandApart, InsideInv
  <2> QED BY <2>1, <2>2, <2>3 DEF HandApart, Apart
<1>9. OwnedApart'
  <2>1. \A s \in Listed', b \in allocations' : Apart(s, b.space)
    BY <1>1, <1>2 DEF ChunksInv, OwnedApart
  <2>2. \A u \in Thread, b \in allocations' : \A c \in Hand(u)' :
           Apart(c, b.space)
    BY <1>1, <1>6, <1>7 DEF ChunksInv, OwnedApart
  <2>3. \A b, d \in allocations' : b # d => Apart(b.space, d.space)
    BY <1>1 DEF ChunksInv, OwnedApart
  <2> QED BY <2>1, <2>2, <2>3 DEF OwnedApart, Apart
<1>10. CoverInv'
  <2> SUFFICES ASSUME NEW n \in 0..(MaxChunks - 1)
               PROVE  \/ \E s \in Listed' : n \in Cells(s)
                      \/ \E u \in Thread : \E c \in Hand(u)' : n \in Cells(c)
                      \/ \E b \in allocations' : n \in Cells(b.space)
    BY DEF CoverInv, Cells
  <2>1. CASE \E s \in Listed : n \in Cells(s)
    BY <2>1, <1>2
  <2>2. CASE \E u \in Thread : \E c \in Hand(u) : n \in Cells(c)
    BY <2>2, <1>1, <1>6 DEF Hand
  <2>3. CASE \E b \in allocations : n \in Cells(b.space)
    BY <2>3, <1>1, <1>6
  <2> QED BY <2>1, <2>2, <2>3 DEF ChunksInv, CoverInv
<1> QED BY <1>3, <1>4, <1>5, <1>8, <1>9, <1>10

\* get takes a space from the list: all of it is granted, or the first part
\* is and the other is to be inserted again.
LEMMA GetMoves ==
    ASSUME ChunksInv, NEW t \in Thread, get(t)
    PROVE  \E s \in Space :
              /\ s \in Listed /\ Listed' = Listed \ {s}
              /\ free_chunks' \in Seq(Space) /\ ListApart' /\ SelfCheck'
              /\ chunk[t] = {} /\ grant[t] = {} /\ pc[t] = "get"
              /\ Required(s, required_chunks(size[t])) \in Space
              /\ Required(s, required_chunks(size[t])).count
                    = required_chunks(size[t])
              /\ grant' = [grant EXCEPT ![t] =
                              {Required(s, required_chunks(size[t]))}]
              /\ \/ /\ Required(s, required_chunks(size[t])) = s
                    /\ pc' = [pc EXCEPT ![t] = "unlock"]
                    /\ chunk' = [chunk EXCEPT ![t] = {}]
                 \/ /\ required_chunks(size[t]) < s.count
                    /\ pc' = [pc EXCEPT ![t] = "insert"]
                    /\ chunk' = [chunk EXCEPT ![t] =
                                    {Unused(s, required_chunks(size[t]))}]
              /\ UNCHANGED <<op, size, client>>
<1> DEFINE n == required_chunks(size[t])
<1>1. PICK i \in 1..Len(free_chunks) :
         /\ lower_bound(i, n)
         /\ free_chunks' = RemoveAt(free_chunks, i)
         /\ grant' = [grant EXCEPT ![t] = {Required(free_chunks[i], n)}]
         /\ IF free_chunks[i].count = n
            THEN /\ pc' = [pc EXCEPT ![t] = "unlock"]
                 /\ UNCHANGED chunk
            ELSE /\ pc' = [pc EXCEPT ![t] = "insert"]
                 /\ chunk' = [chunk EXCEPT ![t] = {Unused(free_chunks[i], n)}]
  BY DEF get
<1> DEFINE s == free_chunks[i]
<1>2. /\ s \in Listed /\ s \in Space
      /\ free_chunks' \in Seq(Space)
      /\ Listed' = Listed \ {s}
      /\ ListApart' /\ SelfCheck'
  BY <1>1, ListRemoved DEF ChunksInv, InsideInv
<1>3. pc[t] = "get" /\ chunk[t] = {} /\ grant[t] = {} /\ size[t] \in Sizes
  BY DEF get, ChunksInv, HandInv, ControlInv
<1>4. n \in Nat /\ n >= 1
  BY <1>3, ChunksPositive
<1> HIDE DEF n
<1>5. s.count >= n
  <2>1. i \in i..Len(free_chunks)
    OBVIOUS
  <2> QED BY <1>1, <2>1 DEF lower_bound
<1>6. UNCHANGED chunk => chunk' = [chunk EXCEPT ![t] = {}]
  BY <1>3 DEF ChunksInv, InsideInv
<1>7. CASE s.count = n
  <2>1. Required(s, n) = s
    BY <1>2, <1>7, SpaceFacts DEF Required
  <2>2. Required(s, n) \in Space /\ Required(s, n).count = n
    BY <2>1, <1>2, <1>7
  <2>3. pc' = [pc EXCEPT ![t] = "unlock"] /\ chunk' = [chunk EXCEPT ![t] = {}]
    BY <1>1, <1>6, <1>7
  <2> HIDE DEF s
  <2> QED BY <1>1, <1>2, <1>3, <2>1, <2>2, <2>3 DEF get, n, s
<1>8. CASE s.count # n
  <2>1. n < s.count
    BY <1>2, <1>4, <1>5, <1>8, SpaceFacts
  <2>2. Required(s, n) \in Space /\ Required(s, n).count = n
    BY <1>2, <1>4, <2>1, SplitFacts
  <2>3. /\ pc' = [pc EXCEPT ![t] = "insert"]
        /\ chunk' = [chunk EXCEPT ![t] = {Unused(s, n)}]
    BY <1>1, <1>8
  <2> HIDE DEF s
  <2> QED BY <1>1, <1>2, <1>3, <2>1, <2>2, <2>3 DEF get, n, s
<1> QED BY <1>7, <1>8

LEMMA GetStep ==
    ASSUME ChunksInv, NEW t \in Thread, get(t)
    PROVE  InsideInv' /\ HandInv' /\ ListApart' /\ HandApart' /\ OwnedApart'
           /\ CoverInv' /\ SelfCheck'
<1> DEFINE n == required_chunks(size[t])
<1>1. PICK s \in Space :
         /\ s \in Listed /\ Listed' = Listed \ {s}
         /\ free_chunks' \in Seq(Space) /\ ListApart' /\ SelfCheck'
         /\ chunk[t] = {} /\ grant[t] = {} /\ pc[t] = "get"
         /\ Required(s, n) \in Space /\ Required(s, n).count = n
         /\ grant' = [grant EXCEPT ![t] = {Required(s, n)}]
         /\ \/ /\ Required(s, n) = s
               /\ pc' = [pc EXCEPT ![t] = "unlock"]
               /\ chunk' = [chunk EXCEPT ![t] = {}]
            \/ /\ n < s.count
               /\ pc' = [pc EXCEPT ![t] = "insert"]
               /\ chunk' = [chunk EXCEPT ![t] = {Unused(s, n)}]
         /\ UNCHANGED <<op, size, client>>
  BY GetMoves
<1>2. n \in Nat /\ n >= 1
  BY <1>1, ChunksPositive DEF ChunksInv, ControlInv
<1>3. n < s.count => /\ Unused(s, n) \in Space
                     /\ Apart(Unused(s, n), Required(s, n))
                     /\ Cells(s) = Cells(Required(s, n)) \cup Cells(Unused(s, n))
  BY <1>1, <1>2, SplitFacts, ApartCells
<1>4. PICK spare \in SUBSET Space :
         /\ chunk' = [chunk EXCEPT ![t] = spare]
         /\ \A c \in spare : Apart(c, Required(s, n))
         /\ Cells(s) = Cells(Required(s, n)) \cup UNION {Cells(c) : c \in spare}
         /\ spare = {} \/ \E c \in Space : spare = {c}
         /\ pc' = [pc EXCEPT ![t] = IF spare = {} THEN "unlock" ELSE "insert"]
  <2>1. CASE n < s.count /\ chunk' = [chunk EXCEPT ![t] = {Unused(s, n)}]
                         /\ pc' = [pc EXCEPT ![t] = "insert"]
    <3> DEFINE spare == {Unused(s, n)}
    <3>1. /\ \A c \in spare : Apart(c, Required(s, n))
          /\ spare # {} /\ spare \subseteq Space
          /\ UNION {Cells(c) : c \in spare} = Cells(Unused(s, n))
      BY <2>1, <1>3
    <3> QED BY <2>1, <1>3, <3>1
  <2>2. CASE /\ Required(s, n) = s /\ chunk' = [chunk EXCEPT ![t] = {}]
             /\ pc' = [pc EXCEPT ![t] = "unlock"]
    <3>1. Cells(s) = Cells(Required(s, n)) \cup UNION {Cells(c) : c \in {}}
      BY <2>2
    <3> QED BY <2>2, <3>1
  <2> QED BY <1>1, <2>1, <2>2
<1> DEFINE g == Required(s, n)
<1>5. \A r \in Space : Apart(r, s) =>
         /\ Apart(r, g) /\ Apart(g, r)
         /\ \A c \in spare : Apart(r, c) /\ Apart(c, r)
  <2> SUFFICES ASSUME NEW r \in Space, Apart(r, s)
               PROVE  /\ Apart(r, g) /\ Apart(g, r)
                      /\ \A c \in spare : Apart(r, c) /\ Apart(c, r)
    OBVIOUS
  <2>1. Cells(r) \cap Cells(s) = {}
    BY ApartCells
  <2>2. Cells(r) \cap Cells(g) = {} /\ \A c \in spare : Cells(r) \cap Cells(c) = {}
    BY <2>1, <1>4
  <2> QED BY <1>1, <1>4, <2>2, ApartCells
<1> HIDE DEF n, g
<1>6. /\ grant' = [grant EXCEPT ![t] = {g}] /\ g \in Space
      /\ g.count = required_chunks(size[t])
      /\ \A c \in spare : Apart(c, g)
      /\ Cells(s) = Cells(g) \cup UNION {Cells(c) : c \in spare}
  BY <1>1, <1>4 DEF g, n
<1>7. InsideInv'
  BY <1>1, <1>4, <1>6 DEF InsideInv, ChunksInv, client
<1>8. HandInv'
  <2>1. /\ chunk'[t] = spare /\ grant'[t] = {g} /\ op'[t] = op[t]
        /\ op[t] # "dealloc" /\ size'[t] = size[t]
        /\ pc'[t] = IF spare = {} THEN "unlock" ELSE "insert"
    BY <1>1, <1>4, <1>6 DEF ChunksInv, ControlInv, InsideInv
  <2>2. \A u \in Thread : u # t =>
           /\ chunk'[u] = chunk[u] /\ grant'[u] = grant[u]
           /\ pc'[u] = pc[u] /\ op'[u] = op[u] /\ size'[u] = size[u]
    BY <1>1, <1>4, <1>6 DEF ChunksInv, ControlInv, InsideInv
  <2>3. /\ chunk'[t] = {} \/ \E c \in Space : chunk'[t] = {c}
        /\ chunk'[t] # {} <=>
              pc'[t] = "insert" \/ (pc'[t] = "lock" /\ op'[t] = "dealloc")
        /\ grant'[t] = {} \/ \E c \in Space : grant'[t] = {c}
        /\ grant'[t] # {} <=>
              pc'[t] \in {"insert", "unlock"} /\ op'[t] # "dealloc"
        /\ \A c \in grant'[t] : c.count = required_chunks(size'[t])
    BY <2>1, <1>4, <1>6
  <2>4. allocations' = allocations
    BY <1>1 DEF client
  <2> QED BY <2>2, <2>3, <2>4 DEF HandInv, ChunksInv, required_chunks
<1>9. /\ Hand(t)' = spare \cup {g} /\ Hand(t) = {}
      /\ \A u \in Thread : u # t => Hand(u)' = Hand(u)
      /\ chunk'[t] = spare /\ grant'[t] = {g}
      /\ \A u \in Thread : u # t => chunk'[u] = chunk[u] /\ grant'[u] = grant[u]
  BY <1>1, <1>4, <1>6 DEF Hand, ChunksInv, InsideInv
<1>10. /\ \A r \in Listed' : r \in Space /\ Apart(r, s)
       /\ \A u \in Thread : \A c \in Hand(u) : c \in Space /\ Apart(c, s)
       /\ \A a \in allocations : a.space \in Space /\ Apart(a.space, s)
  <2>1. \A r \in Listed' : r \in Space /\ Apart(r, s)
    BY <1>1, ListedFacts DEF ChunksInv, InsideInv
  <2>2. \A u \in Thread : \A c \in Hand(u) : c \in Space /\ Apart(c, s)
    BY <1>1, ApartCells DEF ChunksInv, HandApart, InsideInv, Hand
  <2>3. \A a \in allocations : a.space \in Space /\ Apart(a.space, s)
    BY <1>1, ApartCells DEF ChunksInv, OwnedApart, InsideInv
  <2> QED BY <2>1, <2>2, <2>3
<1>11. HandApart'
  <2>1. \A r \in Listed', u \in Thread : \A c \in Hand(u)' : Apart(r, c)
    BY <1>1, <1>5, <1>9, <1>10 DEF ChunksInv, HandApart
  <2>2. \A u, v \in Thread : u # v =>
           \A c \in Hand(u)', d \in Hand(v)' : Apart(c, d)
    BY <1>5, <1>9, <1>10 DEF ChunksInv, HandApart
  <2>3. \A u \in Thread : \A c \in chunk'[u], d \in grant'[u] : Apart(c, d)
    BY <1>6, <1>9 DEF ChunksInv, HandApart
  <2> QED BY <2>1, <2>2, <2>3 DEF HandApart, Apart
<1>12. OwnedApart'
  <2>0. allocations' = allocations
    BY <1>1 DEF client
  <2>1. \A r \in Listed', a \in allocations : Apart(r, a.space)
    BY <1>1 DEF ChunksInv, OwnedApart
  <2>2. \A u \in Thread, a \in allocations : \A c \in Hand(u)' :
           Apart(c, a.space)
    BY <1>5, <1>9, <1>10 DEF ChunksInv, OwnedApart
  <2>3. \A a, b \in allocations : a # b => Apart(a.space, b.space)
    BY DEF ChunksInv, OwnedApart
  <2> QED BY <2>0, <2>1, <2>2, <2>3 DEF OwnedApart, Apart
<1>13. CoverInv'
  <2>0. allocations' = allocations
    BY <1>1 DEF client
  <2> SUFFICES ASSUME NEW m \in 0..(MaxChunks - 1)
               PROVE  \/ \E r \in Listed' : m \in Cells(r)
                      \/ \E u \in Thread : \E c \in Hand(u)' : m \in Cells(c)
                      \/ \E a \in allocations : m \in Cells(a.space)
    BY <2>0 DEF CoverInv, Cells
  <2>1. CASE \E r \in Listed : m \in Cells(r)
    <3>1. CASE m \in Cells(s)
      <4>1. \E c \in spare \cup {g} : m \in Cells(c)
        BY <3>1, <1>6
      <4> QED BY <4>1, <1>9
    <3>2. CASE m \notin Cells(s)
      BY <2>1, <3>2, <1>1
    <3> QED BY <3>1, <3>2
  <2>2. CASE \E u \in Thread : \E c \in Hand(u) : m \in Cells(c)
    BY <2>2, <1>9
  <2>3. CASE \E a \in allocations : m \in Cells(a.space)
    BY <2>3
  <2> QED BY <2>1, <2>2, <2>3 DEF ChunksInv, CoverInv
<1> QED BY <1>1, <1>7, <1>8, <1>11, <1>12, <1>13

\* A round of insert_chunk_and_merge takes a neighbour out of the list.
LEMMA MergeMoves ==
    ASSUME ChunksInv, NEW t \in Thread, MergeOne(t)
    PROVE  \E s \in Space, c \in Space :
              /\ s \in Listed /\ Listed' = Listed \ {s}
              /\ free_chunks' \in Seq(Space) /\ ListApart' /\ SelfCheck'
              /\ pc[t] = "insert" /\ chunk[t] = {c}
              /\ merge(s, c) \in Space
              /\ Cells(merge(s, c)) = Cells(s) \cup Cells(c)
              /\ chunk' = [chunk EXCEPT ![t] = {merge(s, c)}]
              /\ UNCHANGED <<grant, pc, op, size, client>>
<1>1. PICK i \in 1..Len(free_chunks), c \in chunk[t] :
         /\ FirstMergeable(i, c)
         /\ free_chunks' = RemoveAt(free_chunks, i)
         /\ chunk' = [chunk EXCEPT ![t] = {merge(free_chunks[i], c)}]
  BY DEF MergeOne
<1> DEFINE s == free_chunks[i]
<1>2. /\ s \in Listed /\ s \in Space
      /\ free_chunks' \in Seq(Space)
      /\ Listed' = Listed \ {s}
      /\ ListApart' /\ SelfCheck'
  BY <1>1, ListRemoved DEF ChunksInv, InsideInv
<1>3. c \in Space /\ chunk[t] = {c}
  BY <1>1 DEF ChunksInv, InsideInv, HandInv
<1>4. /\ merge(s, c) \in Space
      /\ Cells(merge(s, c)) = Cells(s) \cup Cells(c)
  BY <1>1, <1>2, <1>3, MergeFacts DEF FirstMergeable
<1> HIDE DEF s
<1> QED BY <1>1, <1>2, <1>3, <1>4 DEF MergeOne, s

LEMMA MergeStep ==
    ASSUME ChunksInv, NEW t \in Thread, MergeOne(t)
    PROVE  InsideInv' /\ HandInv' /\ ListApart' /\ HandApart' /\ OwnedApart'
           /\ CoverInv' /\ SelfCheck'
<1>1. PICK s \in Space, c \in Space :
         /\ s \in Listed /\ Listed' = Listed \ {s}
         /\ free_chunks' \in Seq(Space) /\ ListApart' /\ SelfCheck'
         /\ pc[t] = "insert" /\ chunk[t] = {c}
         /\ merge(s, c) \in Space
         /\ Cells(merge(s, c)) = Cells(s) \cup Cells(c)
         /\ chunk' = [chunk EXCEPT ![t] = {merge(s, c)}]
         /\ UNCHANGED <<grant, pc, op, size, client>>
  BY MergeMoves
<1> DEFINE m == merge(s, c)
<1>2. \A r \in Space : Apart(r, s) /\ Apart(r, c) => Apart(r, m) /\ Apart(m, r)
  BY <1>1, ApartParts, ApartCells
<1>3. m \in Space /\ Cells(m) = Cells(s) \cup Cells(c)
  BY <1>1
<1>4. chunk' = [chunk EXCEPT ![t] = {m}]
  BY <1>1
<1> HIDE DEF m
<1>5. allocations' = allocations /\ dirty' = dirty
  BY <1>1 DEF client
<1>6. InsideInv'
  BY <1>1, <1>3, <1>4, <1>5 DEF InsideInv, ChunksInv
<1>7. /\ Hand(t)' = grant[t] \cup {m} /\ Hand(t) = grant[t] \cup {c}
      /\ \A u \in Thread : u # t => Hand(u)' = Hand(u)
      /\ chunk'[t] = {m} /\ grant' = grant
      /\ \A u \in Thread : u # t => chunk'[u] = chunk[u]
  BY <1>1, <1>4 DEF Hand, ChunksInv, InsideInv
<1>8. HandInv'
  <2>1. \A u \in Thread : chunk'[u] # {} <=> chunk[u] # {}
    BY <1>1, <1>7
  <2>2. \A u \in Thread : chunk'[u] = {} \/ \E d \in Space : chunk'[u] = {d}
    BY <1>3, <1>7 DEF ChunksInv, HandInv
  <2> QED BY <1>1, <1>5, <2>1, <2>2 DEF HandInv, ChunksInv, required_chunks
<1>9. /\ \A r \in Listed' : r \in Space /\ Apart(r, s) /\ Apart(r, c)
      /\ \A u \in Thread : u # t =>
            \A d \in Hand(u) : d \in Space /\ Apart(d, s) /\ Apart(d, c)
      /\ \A d \in grant[t] : d \in Space /\ Apart(d, s) /\ Apart(d, c)
      /\ \A a \in allocations :
            a.space \in Space /\ Apart(a.space, s) /\ Apart(a.space, c)
  <2>1. \A r \in Listed' : r \in Space /\ Apart(r, s)
    BY <1>1, ListedFacts DEF ChunksInv, InsideInv
  <2>2. \A r \in Listed' : Apart(r, c)
    BY <1>1, <1>7 DEF ChunksInv, HandApart
  <2>3. \A u \in Thread : \A d \in Hand(u) : d \in Space /\ Apart(d, s)
    BY <1>1, ApartCells DEF ChunksInv, HandApart, InsideInv, Hand
  <2>4. \A u \in Thread : u # t => \A d \in Hand(u) : Apart(d, c)
    BY <1>7 DEF ChunksInv, HandApart
  <2>5. \A d \in grant[t] : d \in Hand(t) /\ Apart(c, d)
    BY <1>1, <1>7 DEF ChunksInv, HandApart
  <2>6. \A d \in grant[t] : Apart(d, c)
    BY <2>3, <2>5, ApartCells
  <2>7. \A a \in allocations :
           a.space \in Space /\ Apart(a.space, s) /\ Apart(a.space, c)
    BY <1>1, <1>7, ApartCells DEF ChunksInv, OwnedApart, InsideInv
  <2> QED BY <2>1, <2>2, <2>3, <2>4, <2>5, <2>6, <2>7
<1>10. HandApart'
  <2>1. \A r \in Listed', u \in Thread : \A d \in Hand(u)' : Apart(r, d)
    BY <1>1, <1>2, <1>7, <1>9 DEF ChunksInv, HandApart
  <2>2. \A u, v \in Thread : u # v =>
           \A d \in Hand(u)', e \in Hand(v)' : Apart(d, e)
    BY <1>2, <1>7, <1>9 DEF ChunksInv, HandApart
  <2>3. \A u \in Thread : \A d \in chunk'[u], e \in grant'[u] : Apart(d, e)
    BY <1>2, <1>7, <1>9 DEF ChunksInv, HandApart
  <2> QED BY <2>1, <2>2, <2>3 DEF HandApart, Apart
<1>11. OwnedApart'
  <2>1. \A r \in Listed', a \in allocations : Apart(r, a.space)
    BY <1>1 DEF ChunksInv, OwnedApart
  <2>2. \A u \in Thread, a \in allocations : \A d \in Hand(u)' :
           Apart(d, a.space)
    BY <1>2, <1>7, <1>9 DEF ChunksInv, OwnedApart
  <2>3. \A a, b \in allocations : a # b => Apart(a.space, b.space)
    BY DEF ChunksInv, OwnedApart
  <2> QED BY <1>5, <2>1, <2>2, <2>3 DEF OwnedApart, Apart
<1>12. CoverInv'
  <2> SUFFICES ASSUME NEW n \in 0..(MaxChunks - 1)
               PROVE  \/ \E r \in Listed' : n \in Cells(r)
                      \/ \E u \in Thread : \E d \in Hand(u)' : n \in Cells(d)
                      \/ \E a \in allocations : n \in Cells(a.space)
    BY <1>5 DEF CoverInv, Cells
  <2>1. CASE n \in Cells(m)
    BY <2>1, <1>7
  <2>2. CASE n \notin Cells(m)
    <3>1. n \notin Cells(s) /\ n \notin Cells(c)
      BY <2>2, <1>3
    <3>2. CASE \E r \in Listed : n \in Cells(r)
      BY <3>1, <3>2, <1>1
    <3>3. CASE \E u \in Thread : \E d \in Hand(u) : n \in Cells(d)
      BY <3>1, <3>3, <1>7
    <3>4. CASE \E a \in allocations : n \in Cells(a.space)
      BY <3>4
    <3> QED BY <3>2, <3>3, <3>4 DEF ChunksInv, CoverInv
  <2> QED BY <2>1, <2>2
<1> QED BY <1>1, <1>6, <1>8, <1>10, <1>11, <1>12

\* push puts the space into the list.
LEMMA PushMoves ==
    ASSUME ChunksInv, NEW t \in Thread, push(t)
    PROVE  \E c \in Space :
              /\ pc[t] = "insert" /\ chunk[t] = {c}
              /\ Listed' = Listed \cup {c}
              /\ free_chunks' \in Seq(Space) /\ ListApart' /\ SelfCheck'
              /\ chunk' = [chunk EXCEPT ![t] = {}]
              /\ pc' = [pc EXCEPT ![t] = "unlock"]
              /\ UNCHANGED <<grant, op, size, client>>
<1>1. PICK i \in 1..(Len(free_chunks) + 1), c \in chunk[t] :
         /\ \A k \in 1..Len(free_chunks) : ~CanMerge(free_chunks[k], c)
         /\ upper_bound(i, c)
         /\ free_chunks' = InsertAt(free_chunks, i, c)
  BY DEF push
<1>2. c \in Space /\ chunk[t] = {c} /\ c \in Hand(t)
  BY <1>1 DEF ChunksInv, InsideInv, HandInv, Hand
<1>3. \A s \in Listed : Apart(s, c)
  BY <1>2 DEF ChunksInv, HandApart
<1>4. /\ free_chunks' \in Seq(Space)
      /\ Listed' = Listed \cup {c}
      /\ ListApart' /\ SelfCheck'
  BY <1>1, <1>2, <1>3, ListInserted DEF ChunksInv, InsideInv
<1> QED BY <1>2, <1>4 DEF push

LEMMA PushStep ==
    ASSUME ChunksInv, NEW t \in Thread, push(t)
    PROVE  InsideInv' /\ HandInv' /\ ListApart' /\ HandApart' /\ OwnedApart'
           /\ CoverInv' /\ SelfCheck'
<1>1. PICK c \in Space :
         /\ pc[t] = "insert" /\ chunk[t] = {c}
         /\ Listed' = Listed \cup {c}
         /\ free_chunks' \in Seq(Space) /\ ListApart' /\ SelfCheck'
         /\ chunk' = [chunk EXCEPT ![t] = {}]
         /\ pc' = [pc EXCEPT ![t] = "unlock"]
         /\ UNCHANGED <<grant, op, size, client>>
  BY PushMoves
<1>2. allocations' = allocations /\ dirty' = dirty
  BY <1>1 DEF client
<1>3. InsideInv'
  BY <1>1, <1>2 DEF InsideInv, ChunksInv
<1>4. /\ Hand(t)' = grant[t] /\ Hand(t) = grant[t] \cup {c}
      /\ \A u \in Thread : u # t => Hand(u)' = Hand(u)
      /\ chunk'[t] = {} /\ grant' = grant
      /\ \A u \in Thread : u # t => chunk'[u] = chunk[u]
  BY <1>1 DEF Hand, ChunksInv, InsideInv
<1>5. HandInv'
  BY <1>1, <1>2 DEF HandInv, InsideInv, ControlInv, ChunksInv, required_chunks
<1>6. /\ \A u \in Thread : \A d \in Hand(u)' : d \in Space /\ Apart(c, d)
      /\ \A a \in allocations : Apart(c, a.space)
  <2>1. \A d \in grant[t] : d \in Space /\ Apart(c, d)
    BY <1>1 DEF ChunksInv, HandApart, InsideInv
  <2>2. \A u \in Thread : u # t => \A d \in Hand(u) : d \in Space /\ Apart(c, d)
    <3>1. \A u \in Thread : \A d \in Hand(u) : d \in Space
      BY DEF Hand, ChunksInv, InsideInv
    <3> QED BY <1>4, <3>1 DEF ChunksInv, HandApart
  <2>3. \A a \in allocations : Apart(c, a.space)
    BY <1>4 DEF ChunksInv, OwnedApart
  <2> QED BY <2>1, <2>2, <2>3, <1>4
<1>7. HandApart'
  <2>1. \A r \in Listed', u \in Thread : \A d \in Hand(u)' : Apart(r, d)
    BY <1>1, <1>4, <1>6 DEF ChunksInv, HandApart
  <2>2. \A u, v \in Thread : u # v =>
           \A d \in Hand(u)', e \in Hand(v)' : Apart(d, e)
    BY <1>4 DEF ChunksInv, HandApart
  <2>3. \A u \in Thread : \A d \in chunk'[u], e \in grant'[u] : Apart(d, e)
    BY <1>4 DEF ChunksInv, HandApart
  <2> QED BY <2>1, <2>2, <2>3 DEF HandApart, Apart
<1>8. OwnedApart'
  <2>1. \A r \in Listed', a \in allocations : Apart(r, a.space)
    BY <1>1, <1>6 DEF ChunksInv, OwnedApart
  <2>2. \A u \in Thread, a \in allocations : \A d \in Hand(u)' :
           Apart(d, a.space)
    BY <1>4 DEF ChunksInv, OwnedApart
  <2>3. \A a, b \in allocations : a # b => Apart(a.space, b.space)
    BY DEF ChunksInv, OwnedApart
  <2> QED BY <1>2, <2>1, <2>2, <2>3 DEF OwnedApart, Apart
<1>9. CoverInv'
  <2> SUFFICES ASSUME NEW n \in 0..(MaxChunks - 1)
               PROVE  \/ \E r \in Listed' : n \in Cells(r)
                      \/ \E u \in Thread : \E d \in Hand(u)' : n \in Cells(d)
                      \/ \E a \in allocations : n \in Cells(a.space)
    BY <1>2 DEF CoverInv, Cells
  <2>1. CASE \E r \in Listed : n \in Cells(r)
    BY <2>1, <1>1
  <2>2. CASE \E u \in Thread : \E d \in Hand(u) : n \in Cells(d)
    BY <2>2, <1>1, <1>4
  <2>3. CASE \E a \in allocations : n \in Cells(a.space)
    BY <2>3
  <2> QED BY <2>1, <2>2, <2>3 DEF ChunksInv, CoverInv
<1> QED BY <1>1, <1>3, <1>5, <1>7, <1>8, <1>9

\* What a client owns of a space that was granted for a size.
Granted(c, bytes) ==
    [space |-> c, ptr |-> into_absolute(c.begin), size |-> bytes]

\* The caller gets what its thread had in hand, if it had something.
LEMMA UnlockMoves ==
    ASSUME ChunksInv, NEW t \in Thread, Unlock(t)
    PROVE  /\ chunk[t] = {} /\ grant'[t] = {} /\ pc'[t] = "idle"
           /\ \A u \in Thread : u # t =>
                 /\ grant'[u] = grant[u] /\ pc'[u] = pc[u]
                 /\ op'[u] = op[u] /\ size'[u] = size[u]
           /\ grant' \in [Thread -> SUBSET Space]
           /\ UNCHANGED <<free_chunks, chunk>>
           /\ \/ grant[t] = {} /\ allocations' = allocations
              \/ \E c \in Space :
                    /\ grant[t] = {c} /\ size[t] \in Sizes
                    /\ c.count = required_chunks(size[t])
                    /\ allocations' = allocations \cup {Granted(c, size[t])}
           /\ dirty' \subseteq 0..(MaxChunks - 1)
<1>1. /\ chunk[t] = {} /\ size[t] \in Sizes
      /\ grant[t] = {} \/ \E c \in Space :
            grant[t] = {c} /\ c.count = required_chunks(size[t])
  BY DEF Unlock, ChunksInv, HandInv, ControlInv, Holding
<1>2. /\ grant'[t] = {} /\ pc'[t] = "idle"
      /\ \A u \in Thread : u # t =>
            /\ grant'[u] = grant[u] /\ pc'[u] = pc[u]
            /\ op'[u] = op[u] /\ size'[u] = size[u]
      /\ grant' \in [Thread -> SUBSET Space]
      /\ UNCHANGED <<free_chunks, chunk>>
  BY DEF Unlock, ChunksInv, ControlInv, InsideInv
<1>3. grant[t] = {} => allocations' = allocations
  BY DEF Unlock
<1>4. \A c : grant[t] = {c} =>
         allocations' = allocations \cup {Granted(c, size[t])}
  BY DEF Unlock, Granted
<1>5. dirty' \subseteq 0..(MaxChunks - 1)
  <2>1. \A c \in grant[t] : Cells(c) \subseteq 0..(MaxChunks - 1)
    <3>1. \A c \in grant[t] : c \in Space
      BY DEF ChunksInv, InsideInv
    <3> QED BY <3>1, InCells, SpaceFacts, ChunksAssumption
  <2>2. dirty \subseteq 0..(MaxChunks - 1)
    BY DEF ChunksInv, InsideInv
  <2> QED BY <2>1, <2>2 DEF Unlock
<1> QED BY <1>1, <1>2, <1>3, <1>4, <1>5

LEMMA UnlockStep ==
    ASSUME ChunksInv, NEW t \in Thread, Unlock(t)
    PROVE  InsideInv' /\ HandInv' /\ ListApart' /\ HandApart' /\ OwnedApart'
           /\ CoverInv' /\ SelfCheck'
<1>1. /\ chunk[t] = {} /\ grant'[t] = {} /\ pc'[t] = "idle"
      /\ \A u \in Thread : u # t =>
            /\ grant'[u] = grant[u] /\ pc'[u] = pc[u]
            /\ op'[u] = op[u] /\ size'[u] = size[u]
      /\ grant' \in [Thread -> SUBSET Space]
      /\ UNCHANGED <<free_chunks, chunk>>
      /\ dirty' \subseteq 0..(MaxChunks - 1)
  BY UnlockMoves
<1>2. Listed' = Listed
  BY <1>1 DEF Listed
<1>3. ListApart' /\ SelfCheck'
  BY <1>1 DEF ChunksInv, ListApart, SelfCheck, Apart, Less, are_contiguous
<1>4. /\ Hand(t)' = {} /\ Hand(t) = grant[t]
      /\ \A u \in Thread : u # t => Hand(u)' = Hand(u)
  BY <1>1 DEF Hand
<1>5. HandApart'
  <2>1. \A r \in Listed', u \in Thread : \A d \in Hand(u)' : Apart(r, d)
    BY <1>2, <1>4 DEF ChunksInv, HandApart
  <2>2. \A u, v \in Thread : u # v =>
           \A d \in Hand(u)', e \in Hand(v)' : Apart(d, e)
    BY <1>4 DEF ChunksInv, HandApart
  <2>3. \A u \in Thread : \A d \in chunk'[u], e \in grant'[u] : Apart(d, e)
    BY <1>1 DEF ChunksInv, HandApart
  <2> QED BY <2>1, <2>2, <2>3 DEF HandApart, Apart
<1>6. \A u \in Thread :
         /\ chunk'[u] = {} \/ \E c \in Space : chunk'[u] = {c}
         /\ chunk'[u] # {} <=>
               pc'[u] = "insert" \/ (pc'[u] = "lock" /\ op'[u] = "dealloc")
         /\ grant'[u] = {} \/ \E c \in Space : grant'[u] = {c}
         /\ grant'[u] # {} <=>
               pc'[u] \in {"insert", "unlock"} /\ op'[u] # "dealloc"
         /\ \A c \in grant'[u] : c.count = required_chunks(size'[u])
  BY <1>1 DEF ChunksInv, HandInv
<1>7. CASE grant[t] = {} /\ allocations' = allocations
  <2>1. InsideInv'
    BY <1>1, <1>7 DEF ChunksInv, InsideInv
  <2>2. HandInv'
    BY <1>6, <1>7 DEF ChunksInv, HandInv, required_chunks
  <2>3. \A u \in Thread : Hand(u)' = Hand(u)
    BY <1>4, <1>7
  <2>4. OwnedApart'
    BY <2>3, <1>2, <1>7 DEF ChunksInv, OwnedApart, Apart
  <2>5. CoverInv'
    BY <2>3, <1>2, <1>7 DEF ChunksInv, CoverInv, Cells
  <2> QED BY <1>3, <1>5, <2>1, <2>2, <2>4, <2>5
<1>8. ASSUME NEW c \in Space, grant[t] = {c}, size[t] \in Sizes,
             c.count = required_chunks(size[t]),
             allocations' = allocations \cup {Granted(c, size[t])}
      PROVE  InsideInv' /\ HandInv' /\ OwnedApart' /\ CoverInv'
  <2> DEFINE new_one == Granted(c, size[t])
  <2>0. /\ new_one.space = c /\ new_one.size = size[t]
        /\ new_one.ptr = into_absolute(c.begin)
        /\ new_one \in [space : Space, ptr : Nat, size : Sizes]
    <3>1. c.begin \in Nat
      BY SpaceFacts
    <3> QED BY <1>8, <3>1, PointerFacts DEF Granted
  <2> HIDE DEF new_one
  <2>3. new_one.space = c /\ allocations' = allocations \cup {new_one}
    BY <1>8, <2>0 DEF new_one
  <2>1. InsideInv'
    BY <1>1, <2>0, <2>3 DEF ChunksInv, InsideInv
  <2>2. HandInv'
    <3>1. \A a \in allocations' : /\ a.space.count = required_chunks(a.size)
                                  /\ a.ptr = into_absolute(a.space.begin)
      BY <1>8, <2>0, <2>3 DEF ChunksInv, HandInv
    <3> QED BY <1>6, <3>1 DEF HandInv, required_chunks, into_absolute
  <2>4. c \in Hand(t)
    BY <1>4, <1>8
  <2>5. \A a \in allocations : Apart(c, a.space) /\ Apart(a.space, c)
    BY <2>4 DEF ChunksInv, OwnedApart, Apart
  <2>6. \A r \in Listed', a \in allocations' : Apart(r, a.space)
    BY <1>2, <2>3, <2>4 DEF ChunksInv, OwnedApart, HandApart
  <2>7. \A u \in Thread, a \in allocations' : \A d \in Hand(u)' :
           Apart(d, a.space)
    BY <1>4, <2>3, <2>4 DEF ChunksInv, OwnedApart, HandApart
  <2>8. \A a, b \in allocations' : a # b => Apart(a.space, b.space)
    BY <2>3, <2>5 DEF ChunksInv, OwnedApart
  <2>9. OwnedApart'
    BY <2>6, <2>7, <2>8 DEF OwnedApart, Apart
  <2>10. CoverInv'
    <3> SUFFICES ASSUME NEW n \in 0..(MaxChunks - 1)
                 PROVE  \/ \E r \in Listed' : n \in Cells(r)
                        \/ \E u \in Thread : \E d \in Hand(u)' : n \in Cells(d)
                        \/ \E a \in allocations' : n \in Cells(a.space)
      BY DEF CoverInv, Cells
    <3>1. CASE \E r \in Listed : n \in Cells(r)
      BY <3>1, <1>2
    <3>2. CASE \E u \in Thread : \E d \in Hand(u) : n \in Cells(d)
      BY <3>2, <1>4, <1>8, <2>3
    <3>3. CASE \E a \in allocations : n \in Cells(a.space)
      BY <3>3, <2>3
    <3> QED BY <3>1, <3>2, <3>3 DEF ChunksInv, CoverInv
  <2> QED BY <2>1, <2>2, <2>9, <2>10
<1> QED BY <1>3, <1>5, <1>7, <1>8, UnlockMoves

-----------------------------------------------------------------------------
LEMMA ChunksInit == Init => ChunksInv
<1> SUFFICES ASSUME Init PROVE ChunksInv
  OBVIOUS
<1> DEFINE whole == [begin |-> 0, count |-> MaxChunks]
<1>1. whole \in Space
  BY ChunksAssumption, SpaceMade
<1>2. free_chunks = <<whole>> /\ Len(free_chunks) = 1 /\ free_chunks[1] = whole
  BY DEF Init
<1>3. Listed = {whole}
  BY <1>2 DEF Listed
<1>4. \A t \in Thread : Hand(t) = {}
  BY DEF Hand, Init
<1>5. ControlInv
  BY ChunksAssumption DEF ControlInv, Init, PC, Holding
<1>6. InsideInv
  BY <1>1, <1>2 DEF InsideInv, Init
<1>7. HandInv
  BY DEF HandInv, Init
<1>8. ListApart /\ HandApart /\ OwnedApart
  BY <1>2, <1>4 DEF ListApart, HandApart, OwnedApart, Init
<1>9. CoverInv
  <2>1. \A n \in 0..(MaxChunks - 1) : n \in Cells(whole)
    BY <1>1, InCells, ChunksAssumption
  <2> QED BY <1>3, <2>1 DEF CoverInv
<1>10. SelfCheck
  <2>1. ~are_contiguous(whole, whole)
    BY ChunksAssumption DEF are_contiguous
  <2> QED BY <1>2, <2>1 DEF SelfCheck
<1> QED BY <1>5, <1>6, <1>7, <1>8, <1>9, <1>10 DEF ChunksInv

LEMMA ChunksStep == ChunksInv /\ [Next]_vars => ChunksInv'
<1> SUFFICES ASSUME ChunksInv, [Next]_vars PROVE ChunksInv'
  OBVIOUS
<1>1. ControlInv'
  BY ControlStep DEF ChunksInv
<1>2. ASSUME NEW t \in Thread, alloc(t) \/ Lock(t) \/ GetNone(t) \/ Kill(t)
      PROVE  SpacesInv'
  <2>1. HandInv' /\ UNCHANGED <<list, client>>
    BY <1>2, QuietHand DEF ChunksInv
  <2> QED BY <2>1, QuietStep DEF ChunksInv, SpacesInv
<1>3. ASSUME NEW t \in Thread, dealloc(t) PROVE SpacesInv'
  BY <1>3, DeallocStep DEF SpacesInv
<1>4. ASSUME NEW t \in Thread, get(t) PROVE SpacesInv'
  BY <1>4, GetStep DEF SpacesInv
<1>5. ASSUME NEW t \in Thread, MergeOne(t) PROVE SpacesInv'
  BY <1>5, MergeStep DEF SpacesInv
<1>6. ASSUME NEW t \in Thread, push(t) PROVE SpacesInv'
  BY <1>6, PushStep DEF SpacesInv
<1>7. ASSUME NEW t \in Thread, Unlock(t) PROVE SpacesInv'
  BY <1>7, UnlockStep DEF SpacesInv
<1>8. ASSUME UNCHANGED vars PROVE SpacesInv'
  <2>1. UNCHANGED <<list, client>> /\ UNCHANGED <<pc, op, size>>
    BY <1>8 DEF vars
  <2>2. HandInv'
    BY <2>1 DEF HandInv, ChunksInv, required_chunks, list, client
  <2> QED BY <2>1, <2>2, QuietStep DEF ChunksInv, SpacesInv
<1>9. SpacesInv'
  BY <1>2, <1>3, <1>4, <1>5, <1>6, <1>7, <1>8 DEF Next, Begin, Step
<1> QED BY <1>1, <1>9 DEF ChunksInv, SpacesInv

LEMMA ChunksHold == Spec => []ChunksInv
BY ChunksInit, ChunksStep, PTL DEF Spec

\* The types of the allocator's state: a space that is split off or merged is
\* never empty and never reaches beyond the buffer.
THEOREM ChunksTypeCorrect == Spec => []TypeOK
<1>1. ChunksInv => TypeOK
  <2> SUFFICES ASSUME ChunksInv PROVE TypeOK
    OBVIOUS
  <2>1. Space \subseteq FreeSpace
    BY DEF Space
  <2>2. free_chunks \in Seq(FreeSpace)
    BY <2>1, SeqMonotonic DEF ChunksInv, InsideInv
  <2>3. /\ chunk \in [Thread -> SUBSET FreeSpace]
        /\ grant \in [Thread -> SUBSET FreeSpace]
        /\ allocations \subseteq [space : FreeSpace, ptr : Nat, size : Sizes]
        /\ dirty \subseteq 0..(MaxChunks - 1)
    BY <2>1 DEF ChunksInv, InsideInv
  <2>4. \A a \in allocations : a.ptr % CHUNK_SIZE = 0
    <3> SUFFICES ASSUME NEW a \in allocations PROVE a.ptr % CHUNK_SIZE = 0
      OBVIOUS
    <3>1. a.space.begin \in Nat
      BY SpaceFacts DEF ChunksInv, InsideInv
    <3>2. a.ptr = into_absolute(a.space.begin)
      BY DEF ChunksInv, HandInv
    <3> QED BY <3>1, <3>2, PointerFacts
  <2> QED BY <2>2, <2>3, <2>4 DEF TypeOK, ChunksInv, ControlInv
<1> QED BY <1>1, ChunksHold, PTL

\* However many threads take and return memory, and wherever they are killed,
\* the free list, the hands of the threads and the clients partition the buffer.
THEOREM PartitionHolds == Spec => []Partition
<1>1. ChunksInv => Partition
  <2> SUFFICES ASSUME ChunksInv PROVE Partition
    OBVIOUS
  <2> DEFINE All == Listed \cup InHand \cup Owned
  <2>1. InHand = UNION {Hand(t) : t \in Thread}
    BY DEF InHand, Hand
  <2>2. /\ Listed \subseteq Space /\ \A s, r \in Listed : s # r => Apart(s, r)
        /\ \A c \in InHand : c \in Space
        /\ \A c \in Owned : c \in Space
    <3>1. Listed \subseteq Space /\ \A s, r \in Listed : s # r => Apart(s, r)
      BY ListedFacts DEF ChunksInv, InsideInv
    <3>2. \A c \in InHand : c \in Space
      BY DEF InHand, ChunksInv, InsideInv
    <3>3. \A c \in Owned : c \in Space
      BY DEF Owned, ChunksInv, InsideInv
    <3> QED BY <3>1, <3>2, <3>3
  <2>3. /\ \A s \in Listed, c \in InHand : Apart(s, c)
        /\ \A s \in Listed, c \in Owned : Apart(s, c)
        /\ \A s \in InHand, c \in Owned : Apart(s, c)
    <3>1. \A s \in Listed, c \in InHand : Apart(s, c)
      BY <2>1 DEF ChunksInv, HandApart
    <3>2. \A s \in Listed, c \in Owned : Apart(s, c)
      BY DEF Owned, ChunksInv, OwnedApart
    <3>3. \A s \in InHand, c \in Owned : Apart(s, c)
      BY <2>1 DEF Owned, ChunksInv, OwnedApart
    <3> QED BY <3>1, <3>2, <3>3
  <2>4. \A s, r \in InHand : s # r => Apart(s, r)
    <3> SUFFICES ASSUME NEW s \in InHand, NEW r \in InHand, s # r
                 PROVE  Apart(s, r)
      OBVIOUS
    <3>1. PICK t \in Thread, u \in Thread : s \in Hand(t) /\ r \in Hand(u)
      BY <2>1
    <3>2. CASE t # u
      BY <3>1, <3>2 DEF ChunksInv, HandApart
    <3>3. CASE t = u
      <4>1. \/ s \in chunk[t] /\ r \in chunk[t]
            \/ s \in grant[t] /\ r \in grant[t]
            \/ s \in chunk[t] /\ r \in grant[t]
            \/ s \in grant[t] /\ r \in chunk[t]
        BY <3>1, <3>3 DEF Hand
      <4>2. ~(s \in chunk[t] /\ r \in chunk[t])
        BY DEF ChunksInv, HandInv
      <4>3. ~(s \in grant[t] /\ r \in grant[t])
        BY DEF ChunksInv, HandInv
      <4>4. Apart(s, r) \/ Apart(r, s)
        BY <4>1, <4>2, <4>3 DEF ChunksInv, HandApart
      <4> QED BY <4>4, <2>2, ApartCells
    <3> QED BY <3>2, <3>3
  <2>5. \A s, r \in Owned : s # r => Apart(s, r)
    BY DEF Owned, ChunksInv, OwnedApart
  <2>6. \A s, r \in All : s # r => Cells(s) \cap Cells(r) = {}
    <3> SUFFICES ASSUME NEW s \in All, NEW r \in All, s # r
                 PROVE  Cells(s) \cap Cells(r) = {}
      OBVIOUS
    <3>1. s \in Space /\ r \in Space
      BY <2>2
    <3>2. Apart(s, r) \/ Apart(r, s)
      BY <2>2, <2>3, <2>4, <2>5
    <3> QED BY <3>1, <3>2, ApartCells
  <2>7. UNION {Cells(s) : s \in All} = 0..(MaxChunks - 1)
    <3>1. ASSUME NEW s \in All PROVE Cells(s) \subseteq 0..(MaxChunks - 1)
      <4>1. s \in Space
        BY <2>2
      <4> QED BY <4>1, InCells, SpaceFacts, ChunksAssumption
    <3>2. ASSUME NEW n \in 0..(MaxChunks - 1) PROVE \E s \in All : n \in Cells(s)
      <4>1. CASE \E s \in Listed : n \in Cells(s)
        BY <4>1
      <4>2. CASE \E t \in Thread : \E c \in Hand(t) : n \in Cells(c)
        BY <4>2, <2>1
      <4>3. CASE \E a \in allocations : n \in Cells(a.space)
        BY <4>3 DEF Owned
      <4> QED BY <4>1, <4>2, <4>3 DEF ChunksInv, CoverInv
    <3> HIDE DEF All
    <3> QED BY <3>1, <3>2
  <2>8. Listed \cap (InHand \cup Owned) = {} /\ InHand \cap Owned = {}
    BY <2>2, <2>3, ApartCells
  <2>9. \A k, j \in 1..Len(free_chunks) :
           k # j => free_chunks[k] # free_chunks[j]
    BY ApartCells, ElementOfSeq DEF ChunksInv, InsideInv, ListApart
  <2> QED BY <2>6, <2>7, <2>8, <2>9 DEF Partition
<1> QED BY <1>1, ChunksHold, PTL

\* What Chunks::self_check asserts of the list holds in every reachable state,
\* also in the middle of get and of insert_chunk_and_merge.
THEOREM SelfCheckHolds == Spec => []SelfCheck
<1>1. ChunksInv => SelfCheck
  BY DEF ChunksInv
<1> QED BY <1>1, ChunksHold, PTL

\* FixesSortedVec::push never finds its vector full, whatever the capacity: the
\* beginnings and the ends of the listed spaces are all different, since no two
\* of these overlap or touch, and the buffer has only so many places for them.
THEOREM RoomToPushHolds == Spec => []RoomToPush
<1>1. ChunksInv => RoomToPush
  <2> SUFFICES ASSUME ChunksInv PROVE RoomToPush
    OBVIOUS
  <2> DEFINE L == Len(free_chunks)
  <2>1. /\ L \in Nat /\ MaxChunks \in Nat
        /\ \A k \in 1..L : /\ free_chunks[k] \in Space
                           /\ free_chunks[k].begin \in Nat
                           /\ free_chunks[k].count \in Nat
                           /\ free_chunks[k].count >= 1
                           /\ free_chunks[k].begin + free_chunks[k].count
                                 <= MaxChunks
    BY ElementOfSeq, LenProperties, SpaceFacts, ChunksAssumption
       DEF ChunksInv, InsideInv
  <2>2. \A k, j \in 1..L : k # j => Apart(free_chunks[k], free_chunks[j])
    BY DEF ChunksInv, ListApart
  <2>3. \A k, j \in 1..L : ~are_contiguous(free_chunks[k], free_chunks[j])
    BY DEF ChunksInv, SelfCheck
  <2> HIDE DEF L
  <2>4. 2 * L <= MaxChunks + 1
    <3> DEFINE f == [k \in 1..(2 * L) |->
                       IF k <= L THEN free_chunks[k].begin
                       ELSE free_chunks[k - L].begin + free_chunks[k - L].count]
    <3>1. f \in [1..(2 * L) -> 0..MaxChunks]
      <4> SUFFICES ASSUME NEW k \in 1..(2 * L) PROVE f[k] \in 0..MaxChunks
        OBVIOUS
      <4>1. CASE k <= L
        BY <4>1, <2>1
      <4>2. CASE k > L
        <5>1. k - L \in 1..L
          BY <4>2, <2>1
        <5> QED BY <4>2, <5>1, <2>1
      <4> QED BY <2>1, <4>1, <4>2
    <3>2. \A k, j \in 1..(2 * L) : k < j => f[k] # f[j]
      <4> SUFFICES ASSUME NEW k \in 1..(2 * L), NEW j \in 1..(2 * L), k < j
                   PROVE  f[k] # f[j]
        OBVIOUS
      <4>1. CASE j <= L
        <5>1. /\ k \in 1..L /\ j \in 1..L /\ k # j
              /\ f[k] = free_chunks[k].begin /\ f[j] = free_chunks[j].begin
          BY <4>1, <2>1
        <5> QED BY <5>1, <2>1, <2>2 DEF Apart
      <4>2. CASE k <= L /\ j > L
        <5>1. /\ k \in 1..L /\ j - L \in 1..L
              /\ f[k] = free_chunks[k].begin
              /\ f[j] = free_chunks[j - L].begin + free_chunks[j - L].count
          BY <4>2, <2>1
        <5> QED BY <5>1, <2>3 DEF are_contiguous
      <4>3. CASE k > L
        <5>1. /\ k - L \in 1..L /\ j - L \in 1..L /\ k - L # j - L
              /\ f[k] = free_chunks[k - L].begin + free_chunks[k - L].count
              /\ f[j] = free_chunks[j - L].begin + free_chunks[j - L].count
          BY <4>3, <2>1
        <5>2. Apart(free_chunks[k - L], free_chunks[j - L])
          BY <5>1, <2>2
        <5> QED BY <5>1, <5>2, <2>1 DEF Apart
      <4> QED BY <2>1, <4>1, <4>2, <4>3
    <3> HIDE DEF f
    <3>3. f \in Injection(1..(2 * L), 0..MaxChunks)
      <4>1. \A k, j \in 1..(2 * L) : f[k] = f[j] => k = j
        BY <3>2, <2>1
      <4> QED BY <3>1, <4>1 DEF Injection, IsInjective
    <3>4. Cardinality(1..(2 * L)) <= Cardinality(0..MaxChunks)
      <4>1. IsFiniteSet(0..MaxChunks)
        BY <2>1, FS_Interval
      <4> QED BY <3>3, <4>1, FS_Injection
    <3>5. Cardinality(0..MaxChunks) = MaxChunks + 1
      BY <2>1, FS_Interval
    <3>6. Cardinality(1..(2 * L)) = 2 * L
      BY <2>1, FS_Interval
    <3> QED BY <3>4, <3>5, <3>6, <2>1
  <2>5. ASSUME NEW t \in Thread, pc[t] = "insert" PROVE L < MaxChunks
    <3>1. PICK c \in Space : chunk[t] = {c}
      BY <2>5 DEF ChunksInv, HandInv
    <3>2. \A k \in 1..L : Apart(free_chunks[k], c)
      BY <3>1 DEF ChunksInv, HandApart, Hand, Listed, L
    <3>3. /\ c.begin \in Nat /\ c.count \in Nat /\ c.count >= 1
          /\ c.begin + c.count <= MaxChunks
      BY SpaceFacts
    <3> DEFINE f == [k \in 1..(L + 1) |->
                       IF k <= L THEN free_chunks[k].begin ELSE c.begin]
    <3>4. f \in [1..(L + 1) -> 0..(MaxChunks - 1)]
      BY <2>1, <3>3
    <3>5. \A k, j \in 1..(L + 1) : k < j => f[k] # f[j]
      <4> SUFFICES ASSUME NEW k \in 1..(L + 1), NEW j \in 1..(L + 1), k < j
                   PROVE  f[k] # f[j]
        OBVIOUS
      <4>1. CASE j <= L
        <5>1. /\ k \in 1..L /\ j \in 1..L /\ k # j
              /\ f[k] = free_chunks[k].begin /\ f[j] = free_chunks[j].begin
          BY <4>1, <2>1
        <5> QED BY <5>1, <2>1, <2>2 DEF Apart
      <4>2. CASE j > L
        <5>1. /\ k \in 1..L
              /\ f[k] = free_chunks[k].begin /\ f[j] = c.begin
          BY <4>2, <2>1
        <5> QED BY <5>1, <2>1, <3>2, <3>3 DEF Apart
      <4> QED BY <2>1, <4>1, <4>2
    <3> HIDE DEF f
    <3>6. f \in Injection(1..(L + 1), 0..(MaxChunks - 1))
      <4>1. \A k, j \in 1..(L + 1) : f[k] = f[j] => k = j
        BY <3>5, <2>1
      <4> QED BY <3>4, <4>1 DEF Injection, IsInjective
    <3>7. Cardinality(1..(L + 1)) <= Cardinality(0..(MaxChunks - 1))
      <4>1. IsFiniteSet(0..(MaxChunks - 1))
        BY <2>1, FS_Interval
      <4> QED BY <3>6, <4>1, FS_Injection
    <3>8. Cardinality(0..(MaxChunks - 1)) = MaxChunks
      BY <2>1, ChunksAssumption, FS_Interval
    <3>9. Cardinality(1..(L + 1)) = L + 1
      BY <2>1, FS_Interval
    <3> QED BY <3>7, <3>8, <3>9, <2>1
  <2> QED BY <2>4, <2>5 DEF RoomToPush, L
<1> QED BY <1>1, ChunksHold, PTL
=============================================================================
