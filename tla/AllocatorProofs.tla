-------------------------- MODULE AllocatorProofs ---------------------------
(***************************************************************************)
(* The list of free chunks implements the set of free cells of Allocator.  *)
(***************************************************************************)
EXTENDS ChunksProofs

-----------------------------------------------------------------------------
(***************************************************************************)
(* The refinement mapping, part by part.                                   *)
(***************************************************************************)
FreeCells ==
    UNION {Cells(s) : s \in Listed \cup
              UNION {chunk[t] : t \in {u \in Thread : ~Returned(u)}}}

Wants ==
    [t \in Thread |-> IF Waits(t) THEN required_chunks(size[t]) ELSE 0]

OwnedRuns == {Cells(s) : s \in Owned \cup UNION {grant[t] : t \in Thread}}

ReturningRuns ==
    {Cells(s) : s \in UNION {chunk[t] : t \in {u \in Thread : Returned(u)}}}

LEMMA InFree ==
    ASSUME NEW m
    PROVE  m \in FreeCells <=>
              \/ \E s \in Listed : m \in Cells(s)
              \/ \E t \in Thread : \E c \in chunk[t] :
                    ~Returned(t) /\ m \in Cells(c)
BY DEF FreeCells

LEMMA InFreeNext ==
    ASSUME NEW m
    PROVE  m \in FreeCells' <=>
              \/ \E s \in Listed' : m \in Cells(s)
              \/ \E t \in Thread : \E c \in chunk'[t] :
                    ~Returned(t)' /\ m \in Cells(c)
BY DEF FreeCells, Cells

LEMMA InOwned ==
    ASSUME NEW r
    PROVE  r \in OwnedRuns <=>
              \/ \E a \in allocations : r = Cells(a.space)
              \/ \E t \in Thread : \E c \in grant[t] : r = Cells(c)
BY DEF OwnedRuns, Owned

LEMMA InOwnedNext ==
    ASSUME NEW r
    PROVE  r \in OwnedRuns' <=>
              \/ \E a \in allocations' : r = Cells(a.space)
              \/ \E t \in Thread : \E c \in grant'[t] : r = Cells(c)
BY DEF OwnedRuns, Owned, Cells

LEMMA InReturning ==
    ASSUME NEW r
    PROVE  r \in ReturningRuns <=>
              \E t \in Thread : \E c \in chunk[t] : Returned(t) /\ r = Cells(c)
BY DEF ReturningRuns

LEMMA InReturningNext ==
    ASSUME NEW r
    PROVE  r \in ReturningRuns' <=>
              \E t \in Thread : \E c \in chunk'[t] : Returned(t)' /\ r = Cells(c)
BY DEF ReturningRuns, Cells

\* The mapping depends on nothing else.
LEMMA SameFree ==
    ASSUME UNCHANGED <<free_chunks, chunk>>,
           \A u \in Thread : Returned(u)' <=> Returned(u)
    PROVE  FreeCells' = FreeCells /\ ReturningRuns' = ReturningRuns
<1>1. Listed' = Listed
  BY DEF Listed
<1>2. \A m : m \in FreeCells' <=> m \in FreeCells
  BY <1>1, InFree, InFreeNext
<1>3. \A r : r \in ReturningRuns' <=> r \in ReturningRuns
  BY InReturning, InReturningNext
<1>4. FreeCells' = FreeCells
  BY <1>2
<1>5. ReturningRuns' = ReturningRuns
  BY <1>3
<1> QED BY <1>4, <1>5

LEMMA SameOwned ==
    ASSUME UNCHANGED <<allocations, grant>>
    PROVE  OwnedRuns' = OwnedRuns
BY DEF OwnedRuns, Owned, Cells

LEMMA SameWants ==
    ASSUME \A u \in Thread : Waits(u)' <=> Waits(u),
           \A u \in Thread : Waits(u) => size'[u] = size[u]
    PROVE  Wants' = Wants
BY DEF Wants, required_chunks

\* One thread begins to want cells, or stops.
LEMMA OneWants ==
    ASSUME NEW t \in Thread, NEW n,
           \A u \in Thread : u # t =>
              (Waits(u)' <=> Waits(u)) /\ size'[u] = size[u],
           \/ Waits(t)' /\ n = required_chunks(size'[t])
           \/ ~Waits(t)' /\ n = 0
    PROVE  Wants' = [Wants EXCEPT ![t] = n]
BY DEF Wants, required_chunks

LEMMA WantsIs ==
    ASSUME NEW t \in Thread
    PROVE  Wants[t] = IF Waits(t) THEN required_chunks(size[t]) ELSE 0
BY DEF Wants

-----------------------------------------------------------------------------
(***************************************************************************)
(* What each action is for Allocator.                                      *)
(***************************************************************************)
LEMMA AllocRequests ==
    ASSUME ChunksInv, NEW t \in Thread, alloc(t)
    PROVE  Abstract!Request(t)
<1>1. /\ pc[t] = "idle" /\ pc'[t] = "lock" /\ op'[t] \in AllocOps
      /\ size'[t] \in Sizes /\ UNCHANGED <<list, client>>
      /\ \A u \in Thread : u # t => /\ pc'[u] = pc[u] /\ op'[u] = op[u]
                                    /\ size'[u] = size[u]
  BY DEF alloc, ChunksInv, ControlInv
<1>2. op'[t] # "dealloc"
  BY <1>1, ChunksAssumption
<1>3. ~Waits(t) /\ Waits(t)' /\ ~Returned(t) /\ ~Returned(t)'
  BY <1>1, <1>2 DEF Waits, Returned
<1>4. \A u \in Thread : u # t =>
         /\ Waits(u)' <=> Waits(u)
         /\ Returned(u)' <=> Returned(u)
         /\ size'[u] = size[u]
  BY <1>1 DEF Waits, Returned
<1>5. UNCHANGED <<free_chunks, chunk, grant, allocations>>
  BY <1>1 DEF list, client
<1>6. FreeCells' = FreeCells /\ ReturningRuns' = ReturningRuns
  BY <1>3, <1>4, <1>5, SameFree
<1>7. OwnedRuns' = OwnedRuns
  BY <1>5, SameOwned
<1>8. Wants[t] = 0 /\ Wants' = [Wants EXCEPT ![t] = required_chunks(size'[t])]
  BY <1>3, <1>4, OneWants, WantsIs
<1>9. \E n \in {required_chunks(bytes) : bytes \in Sizes} :
         Wants' = [Wants EXCEPT ![t] = n]
  BY <1>1, <1>8
<1> QED BY <1>6, <1>7, <1>8, <1>9
        DEF Abstract!Request, FreeCells, Wants, OwnedRuns, ReturningRuns

LEMMA DeallocGivesBack ==
    ASSUME ChunksInv, NEW t \in Thread, dealloc(t)
    PROVE  Abstract!GiveBack
<1>1. PICK a \in allocations :
         /\ allocations' = allocations \ {a}
         /\ chunk' = [chunk EXCEPT ![t] = {a.space}]
         /\ a.space \in Space /\ a.size \in Sizes
         /\ chunk[t] = {} /\ grant[t] = {} /\ pc[t] = "idle"
         /\ size' = [size EXCEPT ![t] = a.size]
         /\ op' = [op EXCEPT ![t] = "dealloc"]
         /\ pc' = [pc EXCEPT ![t] = "lock"]
         /\ UNCHANGED <<free_chunks, grant, dirty>>
  BY DeallocMoves
<1>2. /\ pc'[t] = "lock" /\ op'[t] = "dealloc" /\ chunk'[t] = {a.space}
      /\ \A u \in Thread : u # t => /\ pc'[u] = pc[u] /\ op'[u] = op[u]
                                    /\ size'[u] = size[u]
                                    /\ chunk'[u] = chunk[u]
  BY <1>1 DEF ChunksInv, ControlInv, InsideInv
<1>3. "dealloc" \notin AllocOps
  BY ChunksAssumption
<1>4. ~Waits(t) /\ ~Waits(t)' /\ Returned(t)' /\ ~Returned(t)
  BY <1>1, <1>2, <1>3 DEF Waits, Returned
<1>5. \A u \in Thread : u # t =>
         (Waits(u)' <=> Waits(u)) /\ (Returned(u)' <=> Returned(u))
  BY <1>2 DEF Waits, Returned
<1>6. Wants' = Wants
  BY <1>2, <1>4, <1>5, SameWants
<1>7. Listed' = Listed
  BY <1>1 DEF Listed
<1>8. FreeCells' = FreeCells
  <2>1. \A m : m \in FreeCells' <=> m \in FreeCells
    BY <1>1, <1>2, <1>4, <1>5, <1>7, InFree, InFreeNext
  <2> QED BY <2>1
<1>9. ReturningRuns' = ReturningRuns \cup {Cells(a.space)}
  <2>1. \A r : r \in ReturningRuns' <=> r \in ReturningRuns \cup {Cells(a.space)}
    BY <1>1, <1>2, <1>4, <1>5, InReturning, InReturningNext
  <2> QED BY <2>1
<1>10. \A b \in allocations' : Cells(b.space) # Cells(a.space)
  <2> SUFFICES ASSUME NEW b \in allocations', Cells(b.space) = Cells(a.space)
               PROVE  FALSE
    OBVIOUS
  <2>1. b \in allocations /\ b # a /\ b.space \in Space
    BY <1>1 DEF ChunksInv, InsideInv
  <2>2. Apart(a.space, b.space)
    BY <2>1 DEF ChunksInv, OwnedApart
  <2> QED BY <1>1, <2>1, <2>2, ApartCells, CellsInjective
<1>11. \A u \in Thread : \A c \in grant[u] : Cells(c) # Cells(a.space)
  <2> SUFFICES ASSUME NEW u \in Thread, NEW c \in grant[u],
                      Cells(c) = Cells(a.space)
               PROVE  FALSE
    OBVIOUS
  <2>1. c \in Space /\ c \in Hand(u)
    BY DEF ChunksInv, InsideInv, Hand
  <2>2. Apart(c, a.space)
    BY <2>1 DEF ChunksInv, OwnedApart
  <2> QED BY <1>1, <2>1, <2>2, ApartCells, CellsInjective
<1>12. OwnedRuns' = OwnedRuns \ {Cells(a.space)} /\ Cells(a.space) \in OwnedRuns
  <2>1. Cells(a.space) \in OwnedRuns
    BY InOwned
  <2>2. \A r : r \in OwnedRuns' <=> r \in OwnedRuns \ {Cells(a.space)}
    BY <1>1, <1>10, <1>11, InOwned, InOwnedNext
  <2> QED BY <2>1, <2>2
<1>13. \E run \in OwnedRuns : /\ OwnedRuns' = OwnedRuns \ {run}
                              /\ ReturningRuns' = ReturningRuns \cup {run}
  BY <1>9, <1>12
<1> QED BY <1>6, <1>8, <1>13
        DEF Abstract!GiveBack, FreeCells, Wants, OwnedRuns, ReturningRuns

LEMMA LockFrees ==
    ASSUME ChunksInv, NEW t \in Thread, Lock(t)
    PROVE  \/ Abstract!Free \/ UNCHANGED Abstract!vars
<1>1. /\ pc[t] = "lock" /\ UNCHANGED <<list, op, size, client>>
      /\ pc'[t] = IF op[t] = "dealloc" THEN "insert" ELSE "get"
      /\ \A u \in Thread : u # t => pc'[u] = pc[u]
  BY DEF Lock, ChunksInv, ControlInv
<1>2. UNCHANGED <<free_chunks, chunk, grant, allocations>>
  BY <1>1 DEF list, client
<1>3. OwnedRuns' = OwnedRuns
  BY <1>2, SameOwned
<1>4. \A u \in Thread : u # t =>
         (Waits(u)' <=> Waits(u)) /\ (Returned(u)' <=> Returned(u))
  BY <1>1 DEF Waits, Returned
<1>5. Waits(t)' <=> Waits(t)
  BY <1>1, ChunksAssumption DEF Waits
<1>6. Wants' = Wants
  BY <1>1, <1>4, <1>5, SameWants
<1>7. Listed' = Listed
  BY <1>2 DEF Listed
<1>8. CASE op[t] # "dealloc"
  <2>1. ~Returned(t) /\ ~Returned(t)'
    BY <1>1, <1>8 DEF Returned
  <2>2. FreeCells' = FreeCells /\ ReturningRuns' = ReturningRuns
    BY <2>1, <1>2, <1>4, SameFree
  <2> QED BY <2>2, <1>3, <1>6
          DEF Abstract!vars, FreeCells, Wants, OwnedRuns, ReturningRuns
<1>9. CASE op[t] = "dealloc"
  <2>1. Returned(t) /\ ~Returned(t)'
    BY <1>1, <1>9 DEF Returned
  <2>2. PICK c \in Space : chunk[t] = {c}
    BY <1>1, <1>9 DEF ChunksInv, HandInv
  <2>3. FreeCells' = FreeCells \cup Cells(c)
    <3>1. \A m : m \in FreeCells' <=> m \in FreeCells \cup Cells(c)
      BY <1>2, <1>4, <1>7, <2>1, <2>2, InFree, InFreeNext
    <3> QED BY <3>1
  <2>4. \A u \in Thread : u # t =>
           \A d \in chunk[u] : Cells(d) # Cells(c)
    <3> SUFFICES ASSUME NEW u \in Thread, u # t, NEW d \in chunk[u],
                        Cells(d) = Cells(c)
                 PROVE  FALSE
      OBVIOUS
    <3>1. d \in Space /\ d \in Hand(u) /\ c \in Hand(t)
      BY <2>2 DEF ChunksInv, InsideInv, Hand
    <3>2. Apart(d, c)
      BY <3>1 DEF ChunksInv, HandApart
    <3> QED BY <3>1, <3>2, ApartCells, CellsInjective
  <2>5. /\ ReturningRuns' = ReturningRuns \ {Cells(c)}
        /\ Cells(c) \in ReturningRuns
    <3>1. Cells(c) \in ReturningRuns
      BY <2>1, <2>2, InReturning
    <3>2. \A r : r \in ReturningRuns' <=> r \in ReturningRuns \ {Cells(c)}
      BY <1>2, <1>4, <2>1, <2>2, <2>4, InReturning, InReturningNext
    <3> QED BY <3>1, <3>2
  <2>6. \E run \in ReturningRuns : /\ ReturningRuns' = ReturningRuns \ {run}
                                   /\ FreeCells' = FreeCells \cup run
    BY <2>3, <2>5
  <2> QED BY <2>6, <1>3, <1>6
          DEF Abstract!Free, FreeCells, Wants, OwnedRuns, ReturningRuns
<1> QED BY <1>8, <1>9

LEMMA GetGrants ==
    ASSUME ChunksInv, NEW t \in Thread, get(t), ChunksInv'
    PROVE  Abstract!Grant(t)
<1> DEFINE n == required_chunks(size[t])
<1>1. PICK s \in Space :
         /\ s \in Listed /\ Listed' = Listed \ {s}
         /\ free_chunks' \in Seq(Space) /\ ListApart' /\ SelfCheck'
         /\ chunk[t] = {} /\ grant[t] = {} /\ pc[t] = "get"
         /\ Required(s, n) \in Space /\ Required(s, n).count = n
         /\ grant' = [grant EXCEPT ![t] = {Required(s, n)}]
         /\ \/ /\ Required(s, n) = s
               /\ pc' = [pc EXCEPT ![t] = "unlock"]
               /\ chunk' = [chunk EXCEPT ![t] = {}]
            \/ /\ n < s.count
               /\ pc' = [pc EXCEPT ![t] = "insert"]
               /\ chunk' = [chunk EXCEPT ![t] = {Unused(s, n)}]
         /\ UNCHANGED <<op, size, client>>
  BY GetMoves
<1> DEFINE g == Required(s, n)
<1>2. /\ pc'[t] \in {"unlock", "insert"} /\ grant'[t] = {g}
      /\ \A u \in Thread : u # t => /\ pc'[u] = pc[u] /\ chunk'[u] = chunk[u]
                                    /\ grant'[u] = grant[u]
  BY <1>1 DEF ChunksInv, ControlInv, InsideInv
<1>3. op[t] \in AllocOps /\ op[t] # "dealloc" /\ size[t] \in Sizes
  BY <1>1 DEF ChunksInv, ControlInv
<1>4. n \in Nat /\ n >= 1
  BY <1>3, ChunksPositive
<1>5. Waits(t) /\ ~Waits(t)' /\ ~Returned(t) /\ ~Returned(t)'
  BY <1>1, <1>2, <1>3 DEF Waits, Returned
<1>6. \A u \in Thread : u # t => /\ Waits(u)' <=> Waits(u)
                                 /\ Returned(u)' <=> Returned(u)
                                 /\ size'[u] = size[u]
  BY <1>1, <1>2 DEF Waits, Returned
<1>7. Wants[t] = n /\ Wants' = [Wants EXCEPT ![t] = 0]
  BY <1>5, <1>6, WantsIs, OneWants
<1>8. \A m : m \in Cells(s) <=>
         m \in Cells(g) \/ \E c \in chunk'[t] : m \in Cells(c)
  <2>1. CASE g = s /\ chunk' = [chunk EXCEPT ![t] = {}]
    <3>1. chunk'[t] = {}
      BY <2>1 DEF ChunksInv, InsideInv
    <3> QED BY <2>1, <3>1
  <2>2. CASE n < s.count /\ chunk' = [chunk EXCEPT ![t] = {Unused(s, n)}]
    <3>1. chunk'[t] = {Unused(s, n)}
      BY <2>2 DEF ChunksInv, InsideInv
    <3>2. Cells(s) = Cells(g) \cup Cells(Unused(s, n))
      BY <2>2, <1>4, SplitFacts
    <3> QED BY <3>1, <3>2
  <2> QED BY <1>1, <2>1, <2>2
<1> HIDE DEF n, g
<1>9. g \in Space /\ g.begin = s.begin /\ g.count = n
  BY <1>1, <1>4 DEF g, Required
<1>10. Cells(g) = s.begin .. (s.begin + n - 1)
  BY <1>9 DEF Cells
<1>11. s.begin \in 0..(MaxChunks - 1)
  BY SpaceFacts, ChunksAssumption
<1>12. Cells(g) \subseteq FreeCells
  BY <1>1, <1>8, InFree
<1>13. /\ \A r \in Listed' : Cells(r) \cap Cells(g) = {}
       /\ \A u \in Thread : \A c \in chunk'[u] : Cells(c) \cap Cells(g) = {}
  <2>1. g \in Hand(t)' /\ grant'[t] = {g}
    BY <1>2 DEF Hand
  <2>2. \A r \in Listed' : r \in Space /\ Apart(r, g)
    <3>1. Listed' \subseteq Space
      BY <1>1, ListedFacts DEF ChunksInv, InsideInv
    <3>2. \A r \in Listed' : Apart(r, g)
      BY <2>1 DEF ChunksInv, HandApart, Apart
    <3> QED BY <3>1, <3>2
  <2>3. \A u \in Thread : \A c \in chunk'[u] : c \in Space /\ Apart(c, g)
    <3>1. \A u \in Thread : \A c \in chunk'[u] : c \in Space /\ c \in Hand(u)'
      BY DEF ChunksInv, InsideInv, Hand
    <3>2. \A u \in Thread : u # t => \A c \in chunk'[u] : Apart(c, g)
      BY <2>1, <3>1 DEF ChunksInv, HandApart, Apart
    <3>3. \A c \in chunk'[t] : Apart(c, g)
      BY <2>1 DEF ChunksInv, HandApart, Apart
    <3> QED BY <3>1, <3>2, <3>3
  <2> QED BY <2>2, <2>3, <1>9, ApartCells
<1>14. FreeCells' = FreeCells \ Cells(g)
  <2>1. ASSUME NEW m \in FreeCells' PROVE m \in FreeCells /\ m \notin Cells(g)
    <3>1. CASE \E r \in Listed' : m \in Cells(r)
      BY <3>1, <1>1, <1>13, InFree
    <3>2. CASE \E c \in chunk'[t] : m \in Cells(c)
      BY <3>2, <1>1, <1>8, <1>13, InFree
    <3>3. CASE \E u \in Thread : \E c \in chunk'[u] :
                  u # t /\ ~Returned(u)' /\ m \in Cells(c)
      BY <3>3, <1>2, <1>6, <1>13, InFree
    <3> QED BY <3>1, <3>2, <3>3, InFreeNext
  <2>2. ASSUME NEW m \in FreeCells, m \notin Cells(g) PROVE m \in FreeCells'
    <3>1. CASE m \in Cells(s)
      BY <3>1, <2>2, <1>5, <1>8, InFreeNext
    <3>2. CASE m \notin Cells(s) /\ \E r \in Listed : m \in Cells(r)
      BY <3>2, <1>1, InFreeNext
    <3>3. CASE \E u \in Thread : \E c \in chunk[u] :
                  ~Returned(u) /\ m \in Cells(c)
      BY <3>3, <1>1, <1>2, <1>6, InFreeNext
    <3> QED BY <2>2, <3>1, <3>2, <3>3, InFree
  <2> QED BY <2>1, <2>2
<1>15. OwnedRuns' = OwnedRuns \cup {Cells(g)}
  <2>1. allocations' = allocations
    BY <1>1 DEF client
  <2>2. \A r : r \in OwnedRuns' <=> r \in OwnedRuns \cup {Cells(g)}
    BY <1>1, <1>2, <2>1, InOwned, InOwnedNext
  <2> QED BY <2>2
<1>16. ReturningRuns' = ReturningRuns
  <2>1. \A r : r \in ReturningRuns' <=> r \in ReturningRuns
    BY <1>2, <1>5, <1>6, InReturning, InReturningNext
  <2> QED BY <2>1
<1>17. Wants[t] # 0
  BY <1>4, <1>7
<1>18. \E begin \in 0..(MaxChunks - 1) :
          /\ Abstract!Run(begin, Wants[t]) \subseteq FreeCells
          /\ FreeCells' = FreeCells \ Abstract!Run(begin, Wants[t])
          /\ OwnedRuns' = OwnedRuns \cup {Abstract!Run(begin, Wants[t])}
  <2>1. Abstract!Run(s.begin, Wants[t]) = Cells(g)
    BY <1>7, <1>10 DEF Abstract!Run
  <2> QED BY <2>1, <1>11, <1>12, <1>14, <1>15
<1> QED BY <1>7, <1>16, <1>17, <1>18
        DEF Abstract!Grant, FreeCells, Wants, OwnedRuns, ReturningRuns

\* Chunks::get searches single spaces, and finds every run of free cells: the
\* cell behind a listed space is in no other, since no two spaces touch.
LEMMA GetNoneRefuses ==
    ASSUME ChunksInv, NEW t \in Thread, GetNone(t)
    PROVE  Abstract!Refuse(t)
<1> DEFINE n == required_chunks(size[t])
<1>1. /\ pc[t] = "get" /\ pc'[t] = "refused"
      /\ lower_bound(Len(free_chunks) + 1, n)
      /\ UNCHANGED <<list, op, size, client>>
      /\ \A u \in Thread : u # t => pc'[u] = pc[u]
  BY DEF GetNone, ChunksInv, ControlInv
<1>2. UNCHANGED <<free_chunks, chunk, grant, allocations>>
  BY <1>1 DEF list, client
<1>3. op[t] \in AllocOps /\ op[t] # "dealloc" /\ size[t] \in Sizes
  BY <1>1 DEF ChunksInv, ControlInv
<1>4. n \in Nat /\ n >= 1
  BY <1>3, ChunksPositive
<1>5. Waits(t) /\ ~Waits(t)' /\ ~Returned(t) /\ ~Returned(t)'
  BY <1>1, <1>3 DEF Waits, Returned
<1>6. \A u \in Thread : u # t => /\ Waits(u)' <=> Waits(u)
                                 /\ Returned(u)' <=> Returned(u)
                                 /\ size'[u] = size[u]
  BY <1>1 DEF Waits, Returned
<1>7. Wants[t] = n /\ Wants' = [Wants EXCEPT ![t] = 0]
  BY <1>5, <1>6, WantsIs, OneWants
<1>8. FreeCells' = FreeCells /\ ReturningRuns' = ReturningRuns
  BY <1>2, <1>5, <1>6, SameFree
<1>9. OwnedRuns' = OwnedRuns
  BY <1>2, SameOwned
<1>10. \A s \in Listed : s.count < n
  <2>1. \A k \in 1..Len(free_chunks) : free_chunks[k].count < n
    <3>1. Len(free_chunks) + 1 - 1 = Len(free_chunks)
      BY LenProperties DEF ChunksInv, InsideInv
    <3> QED BY <1>1, <3>1 DEF lower_bound
  <2> QED BY <2>1 DEF Listed
<1> HIDE DEF n
<1>11. \A m \in FreeCells : \E s \in Listed : m \in Cells(s)
  <2>1. \A u \in Thread : ~Returned(u) => chunk[u] = {}
    <3>1. \A u \in Thread : pc[u] = "insert" => lock = u
      BY DEF ChunksInv, ControlInv, Holding
    <3>2. lock = t
      BY <1>1 DEF ChunksInv, ControlInv, Holding
    <3>3. \A u \in Thread : pc[u] # "insert"
      BY <1>1, <3>1, <3>2
    <3> QED BY <3>3 DEF ChunksInv, HandInv, Returned
  <2> QED BY <2>1, InFree
<1>12. /\ Listed \subseteq Space
       /\ \A s, r \in Listed : s # r => Apart(s, r)
       /\ \A s, r \in Listed : ~are_contiguous(s, r)
  <2>1. /\ Listed \subseteq Space
        /\ \A s, r \in Listed : s # r => Apart(s, r)
    BY ListedFacts DEF ChunksInv, InsideInv
  <2>2. \A s, r \in Listed : ~are_contiguous(s, r)
    BY DEF Listed, ChunksInv, SelfCheck
  <2> QED BY <2>1, <2>2
<1>13. \A b \in 0..(MaxChunks - 1) : ~ Abstract!Run(b, n) \subseteq FreeCells
  <2> SUFFICES ASSUME NEW b \in 0..(MaxChunks - 1),
                      Abstract!Run(b, n) \subseteq FreeCells
               PROVE  FALSE
    OBVIOUS
  <2>1. b \in Nat /\ \A m \in b..(b + n - 1) : m \in FreeCells
    BY ChunksAssumption DEF Abstract!Run
  <2>2. PICK s \in Listed : b \in Cells(s)
    BY <2>1, <1>4, <1>11
  <2>3. /\ s \in Space /\ s.begin \in Nat /\ s.count \in Nat /\ s.count < n
        /\ s.begin <= b /\ b < s.begin + s.count
    BY <2>2, <1>10, <1>12, InCells, SpaceFacts
  <2>4. s.begin + s.count \in b..(b + n - 1)
    BY <2>1, <2>3, <1>4
  <2>5. PICK r \in Listed : s.begin + s.count \in Cells(r)
    BY <2>1, <2>4, <1>11
  <2>6. /\ r \in Space /\ r.begin \in Nat /\ r.count \in Nat /\ r.count >= 1
        /\ r.begin <= s.begin + s.count
        /\ s.begin + s.count < r.begin + r.count
    BY <2>5, <1>12, InCells, SpaceFacts
  <2>7. r # s /\ r.begin # s.begin + s.count
    BY <2>3, <2>5, <2>6, <1>12 DEF are_contiguous
  <2>8. Apart(s, r)
    BY <2>2, <2>5, <2>7, <1>12
  <2> QED BY <2>3, <2>6, <2>7, <2>8 DEF Apart
<1>14. Wants[t] # 0
  BY <1>4, <1>7
<1>15. \A b \in 0..(MaxChunks - 1) :
          ~ Abstract!Run(b, Wants[t]) \subseteq FreeCells
  BY <1>7, <1>13
<1> QED BY <1>7, <1>8, <1>9, <1>14, <1>15
        DEF Abstract!Refuse, FreeCells, Wants, OwnedRuns, ReturningRuns

LEMMA MergeStutters ==
    ASSUME ChunksInv, NEW t \in Thread, MergeOne(t)
    PROVE  UNCHANGED Abstract!vars
<1>1. PICK s \in Space, c \in Space :
         /\ s \in Listed /\ Listed' = Listed \ {s}
         /\ free_chunks' \in Seq(Space) /\ ListApart' /\ SelfCheck'
         /\ pc[t] = "insert" /\ chunk[t] = {c}
         /\ merge(s, c) \in Space
         /\ Cells(merge(s, c)) = Cells(s) \cup Cells(c)
         /\ chunk' = [chunk EXCEPT ![t] = {merge(s, c)}]
         /\ UNCHANGED <<grant, pc, op, size, client>>
  BY MergeMoves
<1>2. /\ chunk'[t] = {merge(s, c)}
      /\ \A u \in Thread : u # t => chunk'[u] = chunk[u]
  BY <1>1 DEF ChunksInv, InsideInv
<1>3. ~Returned(t) /\ \A u \in Thread : /\ Waits(u)' <=> Waits(u)
                                        /\ Returned(u)' <=> Returned(u)
  BY <1>1 DEF Waits, Returned
<1>4. FreeCells' = FreeCells
  <2>1. \A m \in FreeCells : m \in FreeCells'
    <3> SUFFICES ASSUME NEW m \in FreeCells PROVE m \in FreeCells'
      OBVIOUS
    <3>1. CASE m \in Cells(s) \/ m \in Cells(c)
      BY <3>1, <1>1, <1>2, <1>3, InFreeNext
    <3>2. CASE m \notin Cells(s) /\ m \notin Cells(c)
      <4>1. CASE \E r \in Listed : m \in Cells(r)
        BY <3>2, <4>1, <1>1, InFreeNext
      <4>2. CASE \E u \in Thread : \E d \in chunk[u] :
                    ~Returned(u) /\ m \in Cells(d)
        BY <3>2, <4>2, <1>1, <1>2, <1>3, InFreeNext
      <4> QED BY <4>1, <4>2, InFree
    <3> QED BY <3>1, <3>2
  <2>2. \A m \in FreeCells' : m \in FreeCells
    <3> SUFFICES ASSUME NEW m \in FreeCells' PROVE m \in FreeCells
      OBVIOUS
    <3>1. CASE m \in Cells(s) \/ m \in Cells(c)
      BY <3>1, <1>1, <1>3, InFree
    <3>2. CASE m \notin Cells(s) /\ m \notin Cells(c)
      <4>1. CASE \E r \in Listed' : m \in Cells(r)
        BY <4>1, <1>1, InFree
      <4>2. CASE \E u \in Thread : \E d \in chunk'[u] :
                    ~Returned(u)' /\ m \in Cells(d)
        BY <3>2, <4>2, <1>1, <1>2, <1>3, InFree
      <4> QED BY <4>1, <4>2, InFreeNext
    <3> QED BY <3>1, <3>2
  <2> QED BY <2>1, <2>2
<1>5. ReturningRuns' = ReturningRuns
  <2>1. \A r : r \in ReturningRuns' <=> r \in ReturningRuns
    BY <1>2, <1>3, InReturning, InReturningNext
  <2> QED BY <2>1
<1>6. OwnedRuns' = OwnedRuns
  BY <1>1, SameOwned DEF client
<1>7. Wants' = Wants
  BY <1>1, <1>3, SameWants
<1> QED BY <1>4, <1>5, <1>6, <1>7
        DEF Abstract!vars, FreeCells, Wants, OwnedRuns, ReturningRuns

LEMMA PushStutters ==
    ASSUME ChunksInv, NEW t \in Thread, push(t)
    PROVE  UNCHANGED Abstract!vars
<1>1. PICK c \in Space :
         /\ pc[t] = "insert" /\ chunk[t] = {c}
         /\ Listed' = Listed \cup {c}
         /\ free_chunks' \in Seq(Space) /\ ListApart' /\ SelfCheck'
         /\ chunk' = [chunk EXCEPT ![t] = {}]
         /\ pc' = [pc EXCEPT ![t] = "unlock"]
         /\ UNCHANGED <<grant, op, size, client>>
  BY PushMoves
<1>2. /\ chunk'[t] = {} /\ pc'[t] = "unlock"
      /\ \A u \in Thread : u # t => chunk'[u] = chunk[u] /\ pc'[u] = pc[u]
  BY <1>1 DEF ChunksInv, InsideInv, ControlInv
<1>3. /\ ~Returned(t)
      /\ \A u \in Thread : /\ Waits(u)' <=> Waits(u)
                           /\ Returned(u)' <=> Returned(u)
  BY <1>1, <1>2 DEF Waits, Returned
<1>4. FreeCells' = FreeCells
  <2>1. \A m : m \in FreeCells' <=> m \in FreeCells
    BY <1>1, <1>2, <1>3, InFree, InFreeNext
  <2> QED BY <2>1
<1>5. ReturningRuns' = ReturningRuns
  <2>1. \A r : r \in ReturningRuns' <=> r \in ReturningRuns
    BY <1>2, <1>3, InReturning, InReturningNext
  <2> QED BY <2>1
<1>6. OwnedRuns' = OwnedRuns
  BY <1>1, SameOwned DEF client
<1>7. Wants' = Wants
  BY <1>1, <1>3, SameWants
<1> QED BY <1>4, <1>5, <1>6, <1>7
        DEF Abstract!vars, FreeCells, Wants, OwnedRuns, ReturningRuns

LEMMA UnlockStutters ==
    ASSUME ChunksInv, NEW t \in Thread, Unlock(t)
    PROVE  UNCHANGED Abstract!vars
<1>1. /\ chunk[t] = {} /\ grant'[t] = {} /\ pc'[t] = "idle"
      /\ \A u \in Thread : u # t =>
            /\ grant'[u] = grant[u] /\ pc'[u] = pc[u]
            /\ op'[u] = op[u] /\ size'[u] = size[u]
      /\ UNCHANGED <<free_chunks, chunk>>
  BY UnlockMoves
<1>2. pc[t] \in {"unlock", "refused"}
  BY DEF Unlock
<1>3. ~Waits(t) /\ \A u \in Thread : /\ Waits(u)' <=> Waits(u)
                                     /\ Returned(u)' <=> Returned(u)
  BY <1>1, <1>2 DEF Waits, Returned
<1>4. FreeCells' = FreeCells /\ ReturningRuns' = ReturningRuns
  BY <1>1, <1>3, SameFree
<1>5. Wants' = Wants
  BY <1>1, <1>3, SameWants
<1>6. OwnedRuns' = OwnedRuns
  <2>1. CASE grant[t] = {} /\ allocations' = allocations
    <3>1. \A r : r \in OwnedRuns' <=> r \in OwnedRuns
      BY <1>1, <2>1, InOwned, InOwnedNext
    <3> QED BY <3>1
  <2>2. ASSUME NEW c \in Space, grant[t] = {c},
               allocations' = allocations \cup {Granted(c, size[t])}
        PROVE  OwnedRuns' = OwnedRuns
    <3> DEFINE a == Granted(c, size[t])
    <3>1. a.space = c /\ allocations' = allocations \cup {a}
      BY <2>2 DEF Granted
    <3> HIDE DEF a
    <3>2. ASSUME NEW r \in OwnedRuns' PROVE r \in OwnedRuns
      BY <3>1, <1>1, <2>2, InOwned, InOwnedNext
    <3>3. ASSUME NEW r \in OwnedRuns PROVE r \in OwnedRuns'
      BY <3>1, <1>1, <2>2, InOwned, InOwnedNext
    <3> QED BY <3>2, <3>3
  <2> QED BY <2>1, <2>2, UnlockMoves
<1> QED BY <1>4, <1>5, <1>6
        DEF Abstract!vars, FreeCells, Wants, OwnedRuns, ReturningRuns

LEMMA KillStutters ==
    ASSUME UNCHANGED <<list, lock, pc, op, size, client>>
    PROVE  UNCHANGED Abstract!vars
<1>1. UNCHANGED <<free_chunks, chunk, grant, allocations, pc, op, size>>
  BY DEF list, client
<1>2. \A u \in Thread : /\ Waits(u)' <=> Waits(u)
                        /\ Returned(u)' <=> Returned(u)
  BY <1>1 DEF Waits, Returned
<1>3. FreeCells' = FreeCells /\ ReturningRuns' = ReturningRuns
  BY <1>1, <1>2, SameFree
<1>4. OwnedRuns' = OwnedRuns
  BY <1>1, SameOwned
<1>5. Wants' = Wants
  BY <1>1, <1>2, SameWants
<1> QED BY <1>3, <1>4, <1>5
        DEF Abstract!vars, FreeCells, Wants, OwnedRuns, ReturningRuns

-----------------------------------------------------------------------------
\* The sorted list, its splits and its merges, implement a set of free cells,
\* for every capacity and any number of threads and kills: a request gets a run
\* of cells that were free, and is refused only when there is no run that long.
THEOREM ChunksImplementAllocator == Spec => ImplementsAllocator
<1>1. Init => Abstract!Init
  <2> SUFFICES ASSUME Init PROVE Abstract!Init
    OBVIOUS
  <2> DEFINE whole == [begin |-> 0, count |-> MaxChunks]
  <2>1. Listed = {whole}
    BY DEF Init, Listed
  <2>2. Cells(whole) = 0..(0 + MaxChunks - 1)
    BY DEF Cells
  <2>3. FreeCells = Abstract!Run(0, MaxChunks)
    <3> HIDE DEF whole
    <3>0. \A t \in Thread : chunk[t] = {}
      BY DEF Init
    <3>1. \A m : m \in FreeCells <=> m \in Cells(whole)
      BY <2>1, <3>0, InFree
    <3>2. FreeCells = Cells(whole)
      BY <3>1
    <3> QED BY <2>2, <3>2 DEF Abstract!Run
  <2>4. Wants = [t \in Thread |-> 0]
    BY DEF Wants, Waits, Init
  <2>5. OwnedRuns = {}
    <3>1. \A r : r \notin OwnedRuns
      BY InOwned DEF Init
    <3> QED BY <3>1
  <2>6. ReturningRuns = {}
    <3>1. \A r : r \notin ReturningRuns
      BY InReturning DEF Init
    <3> QED BY <3>1
  <2> QED BY <2>3, <2>4, <2>5, <2>6
          DEF Abstract!Init, FreeCells, Wants, OwnedRuns, ReturningRuns
<1>2. ChunksInv /\ ChunksInv' /\ [Next]_vars
          => [Abstract!Next]_(Abstract!vars)
  <2> SUFFICES ASSUME ChunksInv, ChunksInv', [Next]_vars
               PROVE  Abstract!Next \/ UNCHANGED Abstract!vars
    OBVIOUS
  <2>1. ASSUME NEW t \in Thread, alloc(t) PROVE Abstract!Next
    BY <2>1, AllocRequests DEF Abstract!Next
  <2>2. ASSUME NEW t \in Thread, dealloc(t) PROVE Abstract!Next
    BY <2>2, DeallocGivesBack DEF Abstract!Next
  <2>3. ASSUME NEW t \in Thread, Lock(t)
        PROVE  Abstract!Next \/ UNCHANGED Abstract!vars
    BY <2>3, LockFrees DEF Abstract!Next
  <2>4. ASSUME NEW t \in Thread, get(t) PROVE Abstract!Next
    BY <2>4, GetGrants DEF Abstract!Next
  <2>5. ASSUME NEW t \in Thread, GetNone(t) PROVE Abstract!Next
    BY <2>5, GetNoneRefuses DEF Abstract!Next
  <2>6. ASSUME NEW t \in Thread, MergeOne(t) \/ push(t) \/ Unlock(t) \/ Kill(t)
        PROVE  UNCHANGED Abstract!vars
    BY <2>6, MergeStutters, PushStutters, UnlockStutters, KillStutters DEF Kill
  <2>7. ASSUME UNCHANGED vars PROVE UNCHANGED Abstract!vars
    BY <2>7, KillStutters DEF vars
  <2> QED BY <2>1, <2>2, <2>3, <2>4, <2>5, <2>6, <2>7 DEF Next, Begin, Step
<1> QED BY <1>1, <1>2, ChunksHold, PTL
        DEF Spec, ImplementsAllocator, Abstract!Spec
=============================================================================
