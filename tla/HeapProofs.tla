----------------------------- MODULE HeapProofs -----------------------------
(***************************************************************************)
(* The kernel heap, proved for every arena size, header size, alignment    *)
(* and set of requests that Heap.tla's assumptions admit.  The inductive   *)
(* invariant is the conjunction of the type invariant and the three        *)
(* structural invariants of Heap.tla: a split or a merge keeps the tiling  *)
(* only because the blocks were tiled, a merge absorbs no block in use     *)
(* only because the free mark and the clients agree.                       *)
(***************************************************************************)
EXTENDS Heap, TLAPS

Inv == TypeOK /\ Tiling /\ HeldBacked /\ Coalesced

-----------------------------------------------------------------------------
\* What the tiling and the types say of one block: it ends in the arena, past
\* its own header.
LEMMA BlockBounds ==
    ASSUME TypeOK, Tiling, NEW b \in Headers
    PROVE  /\ b \in Nat /\ block[b].size \in Nat /\ End(b) \in Nat
           /\ Data(b) \in 0 .. HeapSize
           /\ b < Data(b) /\ Data(b) <= End(b) /\ b < End(b) /\ End(b) <= HeapSize
           /\ Data(b) = b + HeaderSize /\ End(b) = b + HeaderSize + block[b].size
           /\ block[b].next \in Int
           /\ block[b].is_free \in {0, 1}
           /\ block[b] = [size |-> block[b].size, next |-> block[b].next,
                          is_free |-> block[b].is_free]
  <1>1. block[b] \in BlockHeader /\ b \in 0 .. HeapSize
    BY DEF TypeOK
  <1>2. block[b].size \in 0 .. HeapSize /\ block[b].next \in {NULL} \cup (0 .. HeapSize)
        /\ block[b].is_free \in {0, 1}
    BY <1>1 DEF BlockHeader
  <1>3. End(b) \in Nat /\ b < Data(b) /\ Data(b) <= End(b) /\ b < End(b)
        /\ Data(b) = b + HeaderSize /\ End(b) = b + HeaderSize + block[b].size
    BY <1>1, <1>2, ConstantsAssumption DEF End, Data
  <1>4. End(b) <= HeapSize
    <2>1. CASE End(b) = HeapSize
      BY <2>1, ConstantsAssumption
    <2>2. CASE End(b) # HeapSize
      <3>1. End(b) \in Headers
        BY <2>2 DEF Tiling, Linked
      <3>2. QED
        BY <3>1 DEF TypeOK
    <2>3. QED
      BY <2>1, <2>2
  <1>5. Data(b) \in 0 .. HeapSize
    BY <1>1, <1>3, <1>4, ConstantsAssumption
  <1>6. QED
    BY <1>1, <1>2, <1>3, <1>4, <1>5 DEF NULL, BlockHeader

\* A block that is not the last is followed by the block its link names.
LEMMA NextBlock ==
    ASSUME TypeOK, Tiling, NEW b \in Headers, block[b].next # NULL
    PROVE  block[b].next \in Headers /\ block[b].next = End(b) /\ b < block[b].next
  <1>1. b \in Nat /\ b < End(b)
    BY BlockBounds
  <1>2. block[b].next \in Headers /\ block[b].next = End(b)
    BY DEF Tiling, Linked
  <1>3. QED
    BY <1>1, <1>2

\* Splitting block b at `size' bytes keeps the tiling.
LEMMA SplitTiles ==
    ASSUME TypeOK, Tiling, NEW b \in Headers, NEW size \in Nat, TooLarge(b, size),
           NEW rest, rest = b + HeaderSize + size,
           Headers' = Headers \cup {rest},
           block'[b].size = size, block'[b].next = rest,
           block'[rest].size = block[b].size - size - HeaderSize,
           block'[rest].next = block[b].next,
           \A c \in Headers \ {b} : block'[c].size = block[c].size
                                    /\ block'[c].next = block[c].next
    PROVE  Tiling' /\ rest \in 0 .. HeapSize /\ rest \notin Headers /\ b < rest
  <1> USE ConstantsAssumption
  <1>1. \A c \in Headers : c \in Nat /\ block[c].size \in Nat /\ c < End(c) /\ End(c) <= HeapSize
                           /\ End(c) = c + HeaderSize + block[c].size
    BY BlockBounds
  <1>2. rest \in Nat /\ b < rest /\ rest + HeaderSize <= End(b)
    BY <1>1 DEF TooLarge
  <1>3. rest \notin Headers
    BY <1>1, <1>2 DEF Tiling, Ordered
  <1>4. /\ End(b)' = rest
        /\ End(rest)' = End(b)
        /\ \A c \in Headers \ {b} : End(c)' = End(c)
    BY <1>1, <1>2, <1>3 DEF End
  <1>5. Ordered'
    <2> SUFFICES ASSUME NEW c \in Headers', NEW d \in Headers', c < d
                 PROVE  End(c)' <= d
      BY DEF Ordered
    <2>1. CASE c = b
      BY <2>1, <1>1, <1>2, <1>4 DEF Tiling, Ordered
    <2>2. CASE c = rest
      BY <2>2, <1>1, <1>2, <1>4 DEF Tiling, Ordered
    <2>3. CASE c # b /\ c # rest /\ d # rest
      BY <2>3, <1>1, <1>4 DEF Tiling, Ordered
    <2>4. CASE c # b /\ c # rest /\ d = rest
      BY <2>4, <1>1, <1>2, <1>4 DEF Tiling, Ordered
    <2>5. QED
      BY <2>1, <2>2, <2>3, <2>4
  <1>6. Linked'
    <2> SUFFICES ASSUME NEW c \in Headers'
                 PROVE  IF End(c)' = HeapSize THEN block'[c].next = NULL
                        ELSE block'[c].next = End(c)' /\ End(c)' \in Headers'
      BY DEF Linked, NULL
    <2>1. CASE c = b
      BY <2>1, <1>1, <1>2, <1>4
    <2>2. CASE c = rest
      BY <2>2, <1>4 DEF Tiling, Linked
    <2>3. CASE c # b /\ c # rest
      BY <2>3, <1>4 DEF Tiling, Linked
    <2>4. QED
      BY <2>1, <2>2, <2>3
  <1>7. Covered'
    <2> SUFFICES ASSUME NEW a \in 0 .. HeapSize - 1
                 PROVE  \E c \in Headers' : c <= a /\ a < End(c)'
      BY DEF Covered
    <2>1. PICK c \in Headers : c <= a /\ a < End(c)
      BY DEF Tiling, Covered
    <2>2. CASE c # b
      BY <2>1, <2>2, <1>4
    <2>3. CASE c = b
      BY <2>1, <2>3, <1>1, <1>2, <1>4
    <2>4. QED
      BY <2>2, <2>3
  <1>8. QED
    BY <1>1, <1>2, <1>3, <1>5, <1>6, <1>7 DEF Tiling

\* Absorbing the next block into block b keeps the tiling.
LEMMA MergeTiles ==
    ASSUME TypeOK, Tiling, NEW b \in Headers, NEW n, n = block[b].next, n # NULL,
           Headers' = Headers \ {n},
           block'[b].size = block[b].size + HeaderSize + block[n].size,
           block'[b].next = block[n].next,
           \A c \in Headers \ {b, n} : block'[c].size = block[c].size
                                       /\ block'[c].next = block[c].next
    PROVE  Tiling' /\ n \in Headers /\ n = End(b) /\ b < n
  <1> USE ConstantsAssumption
  <1>1. \A c \in Headers : c \in Nat /\ block[c].size \in Nat /\ c < End(c) /\ End(c) <= HeapSize
                           /\ End(c) = c + HeaderSize + block[c].size
    BY BlockBounds
  <1>2. n \in Headers /\ n = End(b) /\ b < n
    BY <1>1 DEF Tiling, Linked
  <1>3. \A c \in Headers \ {b} : End(c) # n
    BY <1>1, <1>2 DEF Tiling, Ordered
  <1>4. End(b)' = End(n) /\ (\A c \in Headers \ {b, n} : End(c)' = End(c))
    BY <1>1, <1>2 DEF End
  <1>5. Ordered'
    <2> SUFFICES ASSUME NEW c \in Headers', NEW d \in Headers', c < d
                 PROVE  End(c)' <= d
      BY DEF Ordered
    <2>1. CASE c = b
      <3>1. n < d
        BY <2>1, <1>1, <1>2 DEF Tiling, Ordered
      <3>2. QED
        BY <3>1, <2>1, <1>2, <1>4 DEF Tiling, Ordered
    <2>2. CASE c # b
      BY <2>2, <1>4 DEF Tiling, Ordered
    <2>3. QED
      BY <2>1, <2>2
  <1>6. Linked'
    <2> SUFFICES ASSUME NEW c \in Headers'
                 PROVE  IF End(c)' = HeapSize THEN block'[c].next = NULL
                        ELSE block'[c].next = End(c)' /\ End(c)' \in Headers'
      BY DEF Linked, NULL
    <2>1. CASE c = b
      BY <2>1, <1>1, <1>2, <1>4 DEF Tiling, Linked
    <2>2. CASE c # b
      BY <2>2, <1>3, <1>4 DEF Tiling, Linked
    <2>3. QED
      BY <2>1, <2>2
  <1>7. Covered'
    <2> SUFFICES ASSUME NEW a \in 0 .. HeapSize - 1
                 PROVE  \E c \in Headers' : c <= a /\ a < End(c)'
      BY DEF Covered
    <2>1. PICK c \in Headers : c <= a /\ a < End(c)
      BY DEF Tiling, Covered
    <2>2. CASE c # n /\ c # b
      BY <2>1, <2>2, <1>4
    <2>3. CASE c = b \/ c = n
      BY <2>1, <2>3, <1>1, <1>2, <1>4
    <2>4. QED
      BY <2>2, <2>3
  <1>8. QED
    BY <1>1, <1>2, <1>5, <1>6, <1>7 DEF Tiling

-----------------------------------------------------------------------------
\* What taking block b for `size' bytes does to the list: the other blocks are
\* as they were, b is allocated and large enough, and a block split off is free.
LEMMA AllocatedBlocks ==
    ASSUME TypeOK, Tiling, NEW b \in Headers, NEW size \in Nat, Fits(b, size),
           NEW L, L = Allocated(b, size)
    PROVE  /\ L \in [DOMAIN L -> BlockHeader]
           /\ DOMAIN L \subseteq 0 .. HeapSize
           /\ Headers \subseteq DOMAIN L
           /\ L[b].is_free = 0 /\ size <= L[b].size
           /\ \A c \in Headers \ {b} : L[c] = block[c]
           /\ \A c \in DOMAIN L \ Headers : L[c].is_free = 1 /\ L[c].next = block[b].next
  <1> USE ConstantsAssumption
  <1> DEFINE rest == b + HeaderSize + size
  <1>0. /\ b \in Nat /\ block[b].size \in Nat /\ End(b) \in Nat /\ End(b) <= HeapSize
        /\ End(b) = b + HeaderSize + block[b].size
        /\ block[b].next \in {NULL} \cup (0 .. HeapSize)
        /\ size <= block[b].size
    <2>1. block[b] \in BlockHeader
      BY DEF TypeOK
    <2>2. QED
      BY <2>1, BlockBounds DEF BlockHeader, Fits
  <1>1. CASE TooLarge(b, size)
    <2>1. L = [c \in Headers \cup {rest} |->
                IF c = b
                THEN [size |-> size, next |-> rest, is_free |-> 0]
                ELSE IF c = rest
                THEN [size    |-> block[b].size - size - HeaderSize,
                      next    |-> block[b].next,
                      is_free |-> 1]
                ELSE block[c]]
      BY <1>1 DEF Allocated
    <2>2. rest \in 0 .. HeapSize /\ b < rest /\ rest < End(b)
          /\ size \in 0 .. HeapSize /\ block[b].size - size - HeaderSize \in 0 .. HeapSize
      BY <1>0, <1>1 DEF TooLarge
    <2>3. rest \notin Headers
      <3> SUFFICES ASSUME rest \in Headers PROVE FALSE
        OBVIOUS
      <3>1. End(b) <= rest
        BY <2>2 DEF Tiling, Ordered
      <3>2. QED
        BY <3>1, <2>2, <1>0
    <2>4. [size |-> size, next |-> rest, is_free |-> 0] \in BlockHeader
      BY <2>2 DEF BlockHeader
    <2>5. [size |-> block[b].size - size - HeaderSize, next |-> block[b].next, is_free |-> 1]
            \in BlockHeader
      BY <2>2, <1>0 DEF BlockHeader
    <2>6. L \in [DOMAIN L -> BlockHeader]
      BY <2>1, <2>4, <2>5 DEF TypeOK
    <2>7. DOMAIN L = Headers \cup {rest} /\ Headers \subseteq 0 .. HeapSize
      BY <2>1 DEF TypeOK
    <2>8. L[b].is_free = 0 /\ L[b].size = size
      BY <2>1, <2>2
    <2>9. size <= L[b].size
      BY <2>8, <2>2
    <2>10. \A c \in Headers \ {b} : L[c] = block[c]
      BY <2>1, <2>3
    <2>11. \A c \in DOMAIN L \ Headers : c = rest
      BY <2>7
    <2>12. L[rest].is_free = 1 /\ L[rest].next = block[b].next
      BY <2>1, <2>2
    <2>13. \A c \in DOMAIN L \ Headers : L[c].is_free = 1 /\ L[c].next = block[b].next
      BY <2>11, <2>12
    <2>14. DOMAIN L \subseteq 0 .. HeapSize /\ Headers \subseteq DOMAIN L
      BY <2>2, <2>7
    <2>15. QED
      BY <2>6, <2>8, <2>9, <2>10, <2>13, <2>14
  <1>2. CASE ~ TooLarge(b, size)
    <2>1. L = [block EXCEPT ![b] = [@ EXCEPT !.is_free = 0]]
      BY <1>2 DEF Allocated
    <2>2. block \in [Headers -> BlockHeader] /\ Headers \subseteq 0 .. HeapSize
      BY DEF TypeOK
    <2>3. DOMAIN L = Headers /\ L[b] = [block[b] EXCEPT !.is_free = 0]
          /\ \A c \in Headers \ {b} : L[c] = block[c]
      BY <2>1, <2>2
    <2>4. L[b] \in BlockHeader /\ L[b].is_free = 0 /\ L[b].size = block[b].size
      BY <2>2, <2>3 DEF BlockHeader
    <2>5. L \in [DOMAIN L -> BlockHeader]
      BY <2>1, <2>2, <2>3, <2>4
    <2>6. QED
      BY <2>2, <2>3, <2>4, <2>5, <1>0
  <1>3. QED
    BY <1>1, <1>2

\* A list with the sizes and links of Allocated(b, size) tiles the arena.
LEMMA AllocatedTiles ==
    ASSUME TypeOK, Tiling, NEW b \in Headers, NEW size \in Nat, Fits(b, size),
           NEW L, L = Allocated(b, size),
           Headers' = DOMAIN L,
           \A c \in DOMAIN L : block'[c].size = L[c].size /\ block'[c].next = L[c].next
    PROVE  Tiling'
  <1> DEFINE rest == b + HeaderSize + size
  <1>1. CASE TooLarge(b, size)
    <2>1. L = [c \in Headers \cup {rest} |->
                IF c = b
                THEN [size |-> size, next |-> rest, is_free |-> 0]
                ELSE IF c = rest
                THEN [size    |-> block[b].size - size - HeaderSize,
                      next    |-> block[b].next,
                      is_free |-> 1]
                ELSE block[c]]
      BY <1>1 DEF Allocated
    <2>2. rest # b /\ rest \notin Headers
      <3>1. b < rest /\ rest < End(b) /\ End(b) \in Nat /\ b \in Nat /\ rest \in Nat
        <4>1. b \in Nat /\ block[b].size \in Nat /\ End(b) = b + HeaderSize + block[b].size
          BY BlockBounds
        <4>2. QED
          BY <1>1, <4>1, ConstantsAssumption DEF TooLarge
      <3>2. rest \in Headers => End(b) <= rest
        BY <3>1 DEF Tiling, Ordered
      <3>3. QED
        BY <3>1, <3>2
    <2>3. Headers' = Headers \cup {rest}
      BY <2>1
    <2>4. L[b].size = size /\ L[b].next = rest
          /\ L[rest].size = block[b].size - size - HeaderSize
          /\ L[rest].next = block[b].next
          /\ \A c \in Headers \ {b} : L[c] = block[c]
      BY <2>1, <2>2
    <2>5. block'[b].size = size /\ block'[b].next = rest
          /\ block'[rest].size = block[b].size - size - HeaderSize
          /\ block'[rest].next = block[b].next
          /\ \A c \in Headers \ {b} : block'[c].size = block[c].size
                                       /\ block'[c].next = block[c].next
      BY <2>3, <2>4
    <2> HIDE DEF rest
    <2>6. rest = b + HeaderSize + size
      BY DEF rest
    <2>7. QED
      BY <1>1, <2>3, <2>5, <2>6, SplitTiles
  <1>2. CASE ~ TooLarge(b, size)
    <2>1. L = [block EXCEPT ![b] = [@ EXCEPT !.is_free = 0]]
      BY <1>2 DEF Allocated
    <2>2. block \in [Headers -> BlockHeader]
      BY DEF TypeOK
    <2>3. Headers' = Headers /\ L[b] = [block[b] EXCEPT !.is_free = 0]
          /\ \A c \in Headers \ {b} : L[c] = block[c]
      BY <2>1, <2>2
    <2>4. L[b].size = block[b].size /\ L[b].next = block[b].next
      BY <2>2, <2>3 DEF BlockHeader
    <2>5. \A c \in Headers : block'[c].size = block[c].size /\ block'[c].next = block[c].next
      BY <2>3, <2>4
    <2>6. \A c \in Headers : End(c)' = End(c)
      BY <2>5 DEF End
    <2>7. QED
      BY <2>3, <2>5, <2>6 DEF Tiling, Ordered, Linked, Covered, NULL
  <1>3. QED
    BY <1>1, <1>2

\* Of the blocks taking b leaves, the one split off is smaller than b was, and
\* the others are as they were or allocated.
LEMMA AllocatedStaysExhausted ==
    ASSUME TypeOK, Tiling, NEW b \in Headers, NEW size \in Nat, Fits(b, size),
           NEW L, L = Allocated(b, size), NEW n \in Nat, \A c \in Headers : ~ Fits(c, n),
           NEW c \in DOMAIN L
    PROVE  ~ (L[c].is_free = 1 /\ L[c].size >= n)
  <1>1. block[b].size \in Nat /\ HeaderSize \in Nat /\ block[b].is_free = 1
    BY BlockBounds, ConstantsAssumption DEF Fits
  <1>2. block[b].size < n
    BY <1>1 DEF Fits
  <1>3. CASE c \in Headers \ {b}
    <2>1. L[c] = block[c]
      BY <1>3, AllocatedBlocks
    <2>2. QED
      BY <1>3, <2>1 DEF Fits
  <1>4. CASE c = b
    <2>1. L[c].is_free = 0
      BY <1>4, AllocatedBlocks
    <2>2. QED
      BY <2>1
  <1>5. CASE c \notin Headers
    <2>1. TooLarge(b, size) /\ c = b + HeaderSize + size /\ c # b
      BY <1>5 DEF Allocated, Headers
    <2>2. L[c].size = block[b].size - size - HeaderSize
      BY <2>1 DEF Allocated
    <2>3. L[c].size < n
      BY <1>1, <1>2, <2>2
    <2>4. L[c].size \in Int
      BY <1>1, <2>2
    <2>5. QED
      BY <2>3, <2>4
  <1>6. QED
    BY <1>3, <1>4, <1>5

\* Marking block b free changes nothing else.
LEMMA MarkedBlocks ==
    ASSUME NEW L, L \in [DOMAIN L -> BlockHeader], NEW b \in DOMAIN L,
           NEW M, M = Marked(L, b)
    PROVE  /\ M \in [DOMAIN L -> BlockHeader] /\ DOMAIN M = DOMAIN L
           /\ M[b].is_free = 1
           /\ \A c \in DOMAIN L : M[c].size = L[c].size /\ M[c].next = L[c].next
           /\ \A c \in DOMAIN L \ {b} : M[c] = L[c]
  <1>1. M = [L EXCEPT ![b] = [@ EXCEPT !.is_free = 1]]
    BY DEF Marked
  <1>2. DOMAIN M = DOMAIN L /\ M[b] = [L[b] EXCEPT !.is_free = 1]
        /\ \A c \in DOMAIN L \ {b} : M[c] = L[c]
    BY <1>1
  <1>3. M[b] \in BlockHeader /\ M[b].is_free = 1
        /\ M[b].size = L[b].size /\ M[b].next = L[b].next
    BY <1>2 DEF BlockHeader
  <1>4. M \in [DOMAIN L -> BlockHeader]
    BY <1>1, <1>2, <1>3
  <1>5. QED
    BY <1>2, <1>3, <1>4

\* A size a client asks for is rounded up to a natural number that covers it.
LEMMA RoundedSize ==
    ASSUME NEW n \in Sizes
    PROVE  n \in Nat /\ align_size(n) \in Nat /\ n <= align_size(n)
  BY RequestsAssumption

\* A pointer in use is the data of the block its header address names.
LEMMA HeldPointer ==
    ASSUME TypeOK, HeldBacked, NEW p \in DOMAIN held
    PROVE  p = Data(HeaderOf(p))
  BY ConstantsAssumption DEF TypeOK, HeaderOf, Data

-----------------------------------------------------------------------------
\* One lemma per action: it preserves the inductive invariant.
LEMMA InitInv == Init => Inv
  <1> SUFFICES ASSUME Init PROVE Inv
    OBVIOUS
  <1> USE ConstantsAssumption
  <1>1. block = [b \in {0} |-> [size |-> HeapSize - HeaderSize, next |-> NULL, is_free |-> 1]]
        /\ Headers = {0} /\ block[0].size = HeapSize - HeaderSize /\ block[0].next = NULL
        /\ block[0].is_free = 1 /\ cur = NULL /\ held = [ptr \in {} |-> 0] /\ used_size = 0
    BY DEF Init, Headers
  <1>2. End(0) = HeapSize
    BY <1>1 DEF End
  <1>3. [size |-> HeapSize - HeaderSize, next |-> NULL, is_free |-> 1] \in BlockHeader
    BY DEF BlockHeader
  <1>4. TypeOK
    BY <1>1, <1>3 DEF TypeOK
  <1>5. Tiling
    BY <1>1, <1>2 DEF Tiling, Ordered, Linked, Covered
  <1>6. HeldBacked
    BY <1>1 DEF HeldBacked
  <1>7. Coalesced
    BY <1>1 DEF Coalesced
  <1>8. QED
    BY <1>4, <1>5, <1>6, <1>7 DEF Inv

LEMMA KmallocInv ==
    ASSUME Inv, NEW n \in Sizes, kmalloc(n)
    PROVE  Inv'
  <1> DEFINE size == align_size(n)
  <1>1. PICK b \in Headers :
          /\ find_free_block(b, size)
          /\ block' = Allocated(b, size)
          /\ used_size' = (used_size + size + HeaderSize) % SizeMod
          /\ held' = [p \in DOMAIN held \cup {Data(b)} |->
                        IF p = Data(b) THEN n ELSE held[p]]
    BY DEF kmalloc
  <1>2. size \in Nat /\ n \in Nat /\ n <= size
    BY RoundedSize
  <1> HIDE DEF size
  <1>3. TypeOK /\ Tiling /\ HeldBacked /\ Coalesced /\ cur = NULL /\ cur' = NULL
    BY DEF Inv, kmalloc
  <1>4. Fits(b, size)
    BY <1>1 DEF find_free_block
  <1>5. /\ block' \in [Headers' -> BlockHeader]
        /\ Headers' \subseteq 0 .. HeapSize
        /\ Headers \subseteq Headers'
        /\ block'[b].is_free = 0 /\ size <= block'[b].size
        /\ \A c \in Headers \ {b} : block'[c] = block[c]
        /\ \A c \in Headers' \ Headers : block'[c].is_free = 1 /\ block'[c].next = block[b].next
    BY <1>1, <1>2, <1>3, <1>4, AllocatedBlocks DEF Headers
  <1>6. Tiling'
    BY <1>1, <1>2, <1>3, <1>4, AllocatedTiles DEF Headers
  <1>7. TypeOK'
    <2>1. used_size' \in 0 .. SizeMod - 1
      BY <1>1, <1>2, <1>3, ConstantsAssumption DEF TypeOK
    <2>2. held' \in [DOMAIN held' -> Sizes] /\ DOMAIN held' \subseteq 0 .. HeapSize
      <3>1. Data(b) \in 0 .. HeapSize
        BY <1>3, BlockBounds
      <3>2. QED
        BY <3>1, <1>1, <1>3 DEF TypeOK
    <2>3. QED
      BY <1>3, <1>5, <2>1, <2>2 DEF TypeOK
  <1>8. HeldBacked'
    <2>1. \A c \in Headers : c \in Nat /\ Data(c) = c + HeaderSize /\ HeaderOf(Data(c)) = c
      BY <1>3, ConstantsAssumption DEF TypeOK, Data, HeaderOf
    <2>2. ASSUME NEW p \in DOMAIN held'
          PROVE  HeaderOf(p) \in Headers' /\ block'[HeaderOf(p)].is_free = 0
                 /\ held'[p] <= block'[HeaderOf(p)].size
      <3>1. CASE p = Data(b)
        <4>1. HeaderOf(p) = b /\ held'[p] = n
          BY <3>1, <2>1, <1>1
        <4>2. block'[b].size \in Nat
          BY <1>5 DEF BlockHeader
        <4>3. QED
          BY <4>1, <4>2, <1>2, <1>5
      <3>2. CASE p # Data(b)
        <4>1. p \in DOMAIN held /\ held'[p] = held[p]
          BY <3>2, <1>1
        <4>2. HeaderOf(p) \in Headers /\ block[HeaderOf(p)].is_free = 0
              /\ held[p] <= block[HeaderOf(p)].size
          BY <4>1, <1>3 DEF HeldBacked
        <4>3. HeaderOf(p) # b
          BY <4>2, <1>4 DEF Fits
        <4>4. QED
          BY <4>1, <4>2, <4>3, <1>5
      <3>3. QED
        BY <3>1, <3>2
    <2>3. ASSUME NEW c \in Headers', block'[c].is_free = 0
          PROVE  Data(c) \in DOMAIN held'
      <3>1. c \in Headers
        BY <2>3, <1>5
      <3>2. CASE c = b
        BY <3>2, <1>1
      <3>3. CASE c # b
        BY <3>1, <3>3, <2>3, <1>1, <1>3, <1>5 DEF HeldBacked
      <3>4. QED
        BY <3>2, <3>3
    <2>4. QED
      BY <2>2, <2>3 DEF HeldBacked, HeaderOf, Data
  <1>9. Coalesced'
    <2> SUFFICES ASSUME NEW c \in Headers', block'[c].next # NULL,
                        block'[c].is_free = 1, block'[block'[c].next].is_free = 1
                 PROVE  FALSE
      BY DEF Coalesced, NULL
    <2>1. c # b
      BY <1>5
    <2>2. block'[c].next \in Headers'
      BY <1>6 DEF Tiling, Linked
    <2>3. CASE c \in Headers
      <3>1. block[c].next # NULL /\ block[c].is_free = 1 /\ block'[c].next = block[c].next
        BY <2>1, <2>3, <1>5
      <3>2. block[c].next \in Headers
        BY <3>1, <2>3, <1>3, NextBlock
      <3>3. block[block[c].next].is_free = 1
        BY <3>1, <3>2, <1>4, <1>5 DEF Fits
      <3>4. QED
        BY <3>1, <3>3, <2>3, <1>3 DEF Coalesced
    <2>4. CASE c \notin Headers
      <3>1. block'[c].next = block[b].next /\ block[b].next # NULL /\ block[b].is_free = 1
        BY <2>4, <1>4, <1>5 DEF Fits
      <3>2. block[b].next \in Headers
        BY <3>1, <1>3, NextBlock
      <3>3. block[b].next # b
        <4>1. b < block[b].next
          BY <3>1, <1>3, NextBlock
        <4>2. b \in Nat
          BY <1>3, BlockBounds
        <4>3. QED
          BY <4>1, <4>2
      <3>4. block[block[b].next].is_free = 1
        BY <3>1, <3>2, <3>3, <1>5
      <3>5. QED
        BY <3>1, <3>4, <1>3 DEF Coalesced
    <2>5. QED
      BY <2>3, <2>4
  <1>10. QED
    BY <1>6, <1>7, <1>8, <1>9 DEF Inv

LEMMA KfreeInv ==
    ASSUME Inv, NEW ptr \in DOMAIN held, kfree(ptr)
    PROVE  Inv'
  <1> DEFINE b == HeaderOf(ptr)
  <1>1. TypeOK /\ Tiling /\ HeldBacked
    BY DEF Inv
  <1>2. b \in Headers /\ block[b].is_free = 0
    BY <1>1 DEF HeldBacked
  <1>3. /\ block' = Marked(block, b)
        /\ used_size' = (used_size - (block[b].size + HeaderSize)) % SizeMod
        /\ held' = [p \in DOMAIN held \ {ptr} |-> held[p]]
        /\ cur' = 0
    BY DEF kfree
  <1>4. ptr = Data(b)
    <2>1. \A p \in DOMAIN held : HeaderOf(p) \in Headers
      BY <1>1 DEF HeldBacked
    <2>2. QED
      BY <1>1, HeldPointer
  <1> HIDE DEF b
  <1>5. /\ block' \in [Headers -> BlockHeader] /\ Headers' = Headers
        /\ block'[b].is_free = 1
        /\ \A c \in Headers : block'[c].size = block[c].size /\ block'[c].next = block[c].next
        /\ \A c \in Headers \ {b} : block'[c] = block[c]
    <2>1. block \in [DOMAIN block -> BlockHeader] /\ b \in DOMAIN block
      BY <1>1, <1>2 DEF TypeOK, Headers
    <2>2. QED
      BY <2>1, <1>3, MarkedBlocks DEF Headers
  <1>6. TypeOK'
    <2>1. used_size' \in 0 .. SizeMod - 1
      <3>1. block[b].size \in Nat
        BY <1>1, <1>2, BlockBounds
      <3>2. QED
        BY <3>1, <1>1, <1>3, ConstantsAssumption DEF TypeOK
    <2>2. held' \in [DOMAIN held' -> Sizes] /\ DOMAIN held' \subseteq 0 .. HeapSize
      BY <1>1, <1>3 DEF TypeOK
    <2>3. cur' \in Headers'
      BY <1>1, <1>3, <1>5 DEF Tiling
    <2>4. QED
      BY <1>1, <1>5, <2>1, <2>2, <2>3 DEF TypeOK
  <1>7. Tiling'
    <2>1. \A c \in Headers : End(c)' = End(c)
      BY <1>5 DEF End
    <2>2. QED
      BY <1>1, <1>5, <2>1 DEF Tiling, Ordered, Linked, Covered, NULL
  <1>8. HeldBacked'
    <2>1. ASSUME NEW p \in DOMAIN held'
          PROVE  HeaderOf(p) \in Headers' /\ block'[HeaderOf(p)].is_free = 0
                 /\ held'[p] <= block'[HeaderOf(p)].size
      <3>1. p \in DOMAIN held /\ p # ptr /\ held'[p] = held[p]
        BY <1>3
      <3>2. HeaderOf(p) \in Headers /\ block[HeaderOf(p)].is_free = 0
            /\ held[p] <= block[HeaderOf(p)].size /\ p = Data(HeaderOf(p))
        BY <3>1, <1>1, HeldPointer DEF HeldBacked
      <3>3. HeaderOf(p) # b
        BY <3>1, <3>2, <1>4
      <3>4. QED
        BY <3>1, <3>2, <3>3, <1>5
    <2>2. ASSUME NEW c \in Headers', block'[c].is_free = 0
          PROVE  Data(c) \in DOMAIN held'
      <3>1. c \in Headers /\ c # b /\ block[c].is_free = 0
        BY <2>2, <1>5
      <3>2. Data(c) \in DOMAIN held /\ Data(c) # Data(b)
        BY <3>1, <1>1, <1>2, ConstantsAssumption DEF HeldBacked, TypeOK, Data
      <3>3. QED
        BY <3>2, <1>3, <1>4
    <2>3. QED
      BY <2>1, <2>2 DEF HeldBacked, HeaderOf, Data
  <1>9. Coalesced'
    <2>1. \A c \in Headers' : 0 <= c
      BY <1>6 DEF TypeOK
    <2>2. QED
      BY <2>1, <1>3 DEF Coalesced, NULL
  <1>10. QED
    BY <1>6, <1>7, <1>8, <1>9 DEF Inv

LEMMA KreallocInPlaceInv ==
    ASSUME Inv, NEW ptr \in DOMAIN held, NEW n \in Sizes, kreallocInPlace(ptr, n)
    PROVE  Inv'
  <1>1. /\ block' = block /\ used_size' = used_size /\ cur' = cur
        /\ held' = [held EXCEPT ![ptr] = n]
        /\ block[HeaderOf(ptr)].size >= n
    BY DEF kreallocInPlace
  <1>2. n \in Nat
    BY RoundedSize
  <1>3. TypeOK /\ Tiling /\ HeldBacked /\ Coalesced
    BY DEF Inv
  <1>4. TypeOK'
    BY <1>1, <1>3 DEF TypeOK, Headers
  <1>5. Tiling' /\ Coalesced'
    BY <1>1, <1>3 DEF Tiling, Ordered, Linked, Covered, Coalesced, Headers, End
  <1>6. HeldBacked'
    <2>1. block[HeaderOf(ptr)].size \in Nat
      BY <1>3, BlockBounds DEF HeldBacked
    <2>2. \A p \in DOMAIN held' : held'[p] <= block[HeaderOf(p)].size
      BY <1>1, <1>2, <1>3, <2>1 DEF HeldBacked
    <2>3. QED
      BY <1>1, <1>3, <2>2 DEF HeldBacked, Headers, HeaderOf, Data
  <1>7. QED
    BY <1>4, <1>5, <1>6 DEF Inv

LEMMA KreallocMoveInv ==
    ASSUME Inv, NEW ptr \in DOMAIN held, NEW n \in Sizes, kreallocMove(ptr, n)
    PROVE  Inv'
  <1> DEFINE size == align_size(n)
             old  == HeaderOf(ptr)
  <1>1. PICK b \in Headers :
          /\ find_free_block(b, size)
          /\ block' = Marked(Allocated(b, size), old)
          /\ used_size' = (used_size + size - block[old].size) % SizeMod
          /\ held' = [p \in (DOMAIN held \ {ptr}) \cup {Data(b)} |->
                        IF p = Data(b) THEN n ELSE held[p]]
    BY DEF kreallocMove
  <1>2. size \in Nat /\ n \in Nat /\ n <= size
    BY RoundedSize
  <1>3. TypeOK /\ Tiling /\ HeldBacked /\ cur' = 0
    BY DEF Inv, kreallocMove
  <1>4. /\ old \in Headers /\ block[old].is_free = 0 /\ ptr = Data(old)
        /\ Fits(b, size) /\ b # old
    BY <1>1, <1>3, HeldPointer DEF HeldBacked, find_free_block, Fits
  <1> HIDE DEF size, old
  <1> DEFINE L == Allocated(b, size)
  <1>5. /\ L \in [DOMAIN L -> BlockHeader]
        /\ DOMAIN L \subseteq 0 .. HeapSize
        /\ Headers \subseteq DOMAIN L
        /\ L[b].is_free = 0 /\ size <= L[b].size
        /\ \A c \in Headers \ {b} : L[c] = block[c]
        /\ \A c \in DOMAIN L \ Headers : L[c].is_free = 1
    BY <1>2, <1>3, <1>4, AllocatedBlocks
  <1> HIDE DEF L
  <1>6. /\ block' \in [DOMAIN L -> BlockHeader] /\ Headers' = DOMAIN L
        /\ block'[old].is_free = 1
        /\ \A c \in DOMAIN L : block'[c].size = L[c].size /\ block'[c].next = L[c].next
        /\ \A c \in DOMAIN L \ {old} : block'[c] = L[c]
    <2>1. old \in DOMAIN L /\ block' = Marked(L, old)
      BY <1>1, <1>4, <1>5 DEF L
    <2>2. QED
      BY <1>5, <2>1, MarkedBlocks DEF Headers
  <1>7. Tiling'
    BY <1>2, <1>3, <1>4, <1>6, AllocatedTiles DEF L
  <1>8. TypeOK'
    <2>1. used_size' \in 0 .. SizeMod - 1
      <3>1. block[old].size \in Nat
        BY <1>3, <1>4, BlockBounds
      <3>2. QED
        BY <3>1, <1>1, <1>2, <1>3, ConstantsAssumption DEF TypeOK
    <2>2. held' \in [DOMAIN held' -> Sizes] /\ DOMAIN held' \subseteq 0 .. HeapSize
      <3>1. Data(b) \in 0 .. HeapSize
        BY <1>3, BlockBounds
      <3>2. QED
        BY <3>1, <1>1, <1>3 DEF TypeOK
    <2>3. cur' \in Headers'
      BY <1>3, <1>7 DEF Tiling
    <2>4. QED
      BY <1>5, <1>6, <2>1, <2>2, <2>3 DEF TypeOK
  <1>9. HeldBacked'
    <2>1. \A c \in Headers : c \in Nat /\ Data(c) = c + HeaderSize /\ HeaderOf(Data(c)) = c
      BY <1>3, ConstantsAssumption DEF TypeOK, Data, HeaderOf
    <2>2. ASSUME NEW p \in DOMAIN held'
          PROVE  HeaderOf(p) \in Headers' /\ block'[HeaderOf(p)].is_free = 0
                 /\ held'[p] <= block'[HeaderOf(p)].size
      <3>1. CASE p = Data(b)
        <4>1. HeaderOf(p) = b /\ held'[p] = n
          BY <3>1, <2>1, <1>1
        <4>2. L[b].size \in Nat /\ b \in DOMAIN L
          BY <1>5 DEF BlockHeader
        <4>3. QED
          BY <4>1, <4>2, <1>2, <1>4, <1>5, <1>6
      <3>2. CASE p # Data(b)
        <4>1. p \in DOMAIN held /\ p # ptr /\ held'[p] = held[p]
          BY <3>2, <1>1
        <4>2. HeaderOf(p) \in Headers /\ block[HeaderOf(p)].is_free = 0
              /\ held[p] <= block[HeaderOf(p)].size /\ p = Data(HeaderOf(p))
          BY <4>1, <1>3, HeldPointer DEF HeldBacked
        <4>3. HeaderOf(p) # b /\ HeaderOf(p) # old
          BY <4>1, <4>2, <1>4 DEF Fits
        <4>4. QED
          BY <4>1, <4>2, <4>3, <1>5, <1>6
      <3>3. QED
        BY <3>1, <3>2
    <2>3. ASSUME NEW c \in Headers', block'[c].is_free = 0
          PROVE  Data(c) \in DOMAIN held'
      <3>1. c \in Headers /\ c # old
        BY <2>3, <1>5, <1>6
      <3>2. CASE c = b
        BY <3>2, <1>1
      <3>3. CASE c # b
        <4>1. block[c].is_free = 0
          BY <3>1, <3>3, <2>3, <1>5, <1>6
        <4>2. Data(c) \in DOMAIN held /\ Data(c) # Data(old)
          BY <4>1, <3>1, <1>3, <1>4, <2>1, ConstantsAssumption DEF HeldBacked
        <4>3. QED
          BY <4>2, <1>1, <1>4
      <3>4. QED
        BY <3>2, <3>3
    <2>4. QED
      BY <2>2, <2>3 DEF HeldBacked, HeaderOf, Data
  <1>10. Coalesced'
    <2>1. \A c \in Headers' : 0 <= c
      BY <1>8 DEF TypeOK
    <2>2. QED
      BY <2>1, <1>3 DEF Coalesced, NULL
  <1>11. QED
    BY <1>7, <1>8, <1>9, <1>10 DEF Inv

LEMMA MergeInv ==
    ASSUME Inv, cur # NULL, block[cur].next # NULL, Merge, UNCHANGED <<used_size, held>>
    PROVE  Inv'
  <1> DEFINE n == block[cur].next
  <1>1. TypeOK /\ Tiling /\ HeldBacked /\ Coalesced /\ cur \in Headers
    BY DEF Inv, TypeOK
  <1>2. /\ block[cur].is_free = 1 /\ block[n].is_free = 1
        /\ block' = [b \in Headers \ {n} |->
                       IF b = cur
                       THEN [size    |-> block[cur].size + HeaderSize + block[n].size,
                             next    |-> block[n].next,
                             is_free |-> 1]
                       ELSE block[b]]
        /\ cur' = cur /\ used_size' = used_size /\ held' = held
    BY DEF Merge
  <1>3. n \in Headers /\ n = End(cur) /\ cur < n
    BY <1>1, NextBlock
  <1>4. n = block[cur].next /\ n # NULL
    OBVIOUS
  <1> HIDE DEF n
  <1>5. cur # n
    BY <1>1, <1>3 DEF TypeOK
  <1>6. /\ Headers' = Headers \ {n}
        /\ block'[cur].size = block[cur].size + HeaderSize + block[n].size
        /\ block'[cur].next = block[n].next
        /\ block'[cur].is_free = 1
        /\ \A c \in Headers \ {cur, n} : block'[c] = block[c]
    BY <1>1, <1>2, <1>5 DEF Headers
  <1>7. Tiling'
    BY <1>1, <1>4, <1>6, MergeTiles
  <1>8. TypeOK'
    <2>1. block'[cur] \in BlockHeader
      <3>1. block[cur].size \in Nat /\ End(cur) = cur + HeaderSize + block[cur].size /\ cur \in Nat
        BY <1>1, BlockBounds
      <3>2. block[n].size \in Nat /\ End(n) = n + HeaderSize + block[n].size /\ End(n) <= HeapSize
        BY <1>1, <1>3, BlockBounds
      <3>3. block[cur].size + HeaderSize + block[n].size \in 0 .. HeapSize
        BY <3>1, <3>2, <1>3, ConstantsAssumption
      <3>4. block[n].next \in {NULL} \cup (0 .. HeapSize)
        BY <1>1, <1>3 DEF TypeOK, BlockHeader
      <3>5. block'[cur] = [size    |-> block[cur].size + HeaderSize + block[n].size,
                           next    |-> block[n].next,
                           is_free |-> 1]
        BY <1>1, <1>2, <1>5
      <3>6. QED
        BY <3>3, <3>4, <3>5 DEF BlockHeader
    <2>2. block' \in [Headers' -> BlockHeader]
      <3>1. \A c \in Headers' : block'[c] \in BlockHeader
        BY <1>1, <1>6, <2>1 DEF TypeOK
      <3>2. block' = [c \in Headers' |-> block'[c]]
        BY <1>2 DEF Headers
      <3>3. QED
        BY <3>1, <3>2
    <2>3. QED
      BY <1>1, <1>2, <1>5, <1>6, <2>2 DEF TypeOK
  <1>9. HeldBacked'
    <2>1. \A c \in Headers : block[c].is_free = 0 =>
             c \in Headers' /\ block'[c] = block[c]
      BY <1>2, <1>6
    <2>2. \A c \in Headers' : block'[c].is_free = 0 => block[c].is_free = 0 /\ c \in Headers
      BY <1>6
    <2>3. QED
      BY <1>1, <1>2, <2>1, <2>2 DEF HeldBacked, HeaderOf, Data
  <1>10. Coalesced'
    <2> SUFFICES ASSUME NEW c \in Headers', block'[c].next # NULL,
                        block'[c].is_free = 1, block'[block'[c].next].is_free = 1
                 PROVE  cur # NULL /\ cur <= c
      BY <1>2 DEF Coalesced, NULL
    <2>1. CASE c = cur
      BY <2>1, <1>1 DEF TypeOK, NULL
    <2>2. CASE c # cur
      <3>1. c \in Headers /\ block[c].next # NULL /\ block[c].is_free = 1
            /\ block'[c].next = block[c].next
        BY <2>2, <1>6
      <3>2. block'[c].next \in Headers'
        BY <1>7, <3>1 DEF Tiling, Linked
      <3>3. block[block[c].next].is_free = 1
        BY <3>1, <3>2, <1>2, <1>6
      <3>4. QED
        BY <3>1, <3>3, <1>1 DEF Coalesced
    <2>3. QED
      BY <2>1, <2>2
  <1>11. QED
    BY <1>7, <1>8, <1>9, <1>10 DEF Inv

LEMMA AdvanceInv ==
    ASSUME Inv, cur # NULL, block[cur].next # NULL, Advance, UNCHANGED <<used_size, held>>
    PROVE  Inv'
  <1>1. TypeOK /\ Tiling /\ HeldBacked /\ Coalesced /\ cur \in Headers
    BY DEF Inv, TypeOK
  <1>2. block' = block /\ used_size' = used_size /\ held' = held /\ cur' = block[cur].next
        /\ ~ (block[cur].is_free = 1 /\ block[block[cur].next].is_free = 1)
    BY DEF Advance
  <1>3. block[cur].next \in Headers /\ block[cur].next = End(cur)
    BY <1>1, NextBlock
  <1>4. TypeOK'
    BY <1>1, <1>2, <1>3 DEF TypeOK, Headers
  <1>5. Tiling' /\ HeldBacked'
    BY <1>1, <1>2 DEF Tiling, Ordered, Linked, Covered, HeldBacked, Headers, End, Data, HeaderOf
  <1>6. Coalesced'
    <2> SUFFICES ASSUME NEW c \in Headers, block[c].next # NULL,
                        block[c].is_free = 1, block[block[c].next].is_free = 1
                 PROVE  End(cur) # NULL /\ End(cur) <= c
      BY <1>2, <1>3 DEF Coalesced, NULL, Headers
    <2>1. cur <= c /\ cur # c
      BY <1>1, <1>2 DEF Coalesced
    <2>2. cur < c
      BY <2>1, <1>1 DEF TypeOK
    <2>3. QED
      BY <2>2, <1>1, <1>3 DEF Tiling, Ordered, TypeOK, NULL
  <1>7. QED
    BY <1>4, <1>5, <1>6 DEF Inv

LEMMA MergeDoneInv ==
    ASSUME Inv, cur # NULL, MergeDone, UNCHANGED <<used_size, held>>
    PROVE  Inv'
  <1>1. TypeOK /\ Tiling /\ HeldBacked /\ Coalesced /\ cur \in Headers
    BY DEF Inv, TypeOK
  <1>2. block' = block /\ used_size' = used_size /\ held' = held /\ cur' = NULL
        /\ block[cur].next = NULL
    BY DEF MergeDone
  <1>3. TypeOK'
    BY <1>1, <1>2 DEF TypeOK, Headers
  <1>4. Tiling' /\ HeldBacked'
    BY <1>1, <1>2 DEF Tiling, Ordered, Linked, Covered, HeldBacked, Headers, End, Data, HeaderOf
  <1>5. Coalesced'
    <2> SUFFICES ASSUME NEW c \in Headers, block[c].next # NULL,
                        block[c].is_free = 1, block[block[c].next].is_free = 1
                 PROVE  FALSE
      BY <1>2 DEF Coalesced, NULL, Headers
    <2>1. cur <= c /\ cur # c
      BY <1>1, <1>2 DEF Coalesced
    <2>2. cur < c /\ c < HeapSize /\ End(cur) <= c
      <3>1. c \in Nat /\ c < End(c) /\ End(c) <= HeapSize /\ End(c) \in Nat
        BY <1>1, BlockBounds
      <3>2. cur < c
        BY <2>1, <1>1 DEF TypeOK
      <3>3. End(cur) <= c
        BY <3>2, <1>1 DEF Tiling, Ordered
      <3>4. c < HeapSize
        BY <3>1, ConstantsAssumption
      <3>5. QED
        BY <3>2, <3>3, <3>4
    <2>3. End(cur) = HeapSize
      <3>1. End(cur) \in Nat
        BY <1>1, BlockBounds
      <3>2. QED
        BY <3>1, <1>1, <1>2 DEF Tiling, Linked, NULL
    <2>4. QED
      BY <2>2, <2>3, <1>1, ConstantsAssumption DEF TypeOK
  <1>6. QED
    BY <1>3, <1>4, <1>5 DEF Inv

LEMMA NextInv == Inv /\ [Next]_vars => Inv'
  <1> SUFFICES ASSUME Inv, [Next]_vars PROVE Inv'
    OBVIOUS
  <1>1. ASSUME NEW n \in Requests, kmalloc(n) PROVE Inv'
    BY <1>1, KmallocInv DEF Sizes
  <1>2. ASSUME NEW n \in Requests, NEW a \in Alignments, kmalloc_aligned(n, a) PROVE Inv'
    BY <1>2, KmallocInv DEF Sizes, kmalloc_aligned
  <1>3. ASSUME NEW n \in Requests, NEW k \in Counts, kcalloc(k, n) PROVE Inv'
    BY <1>3, KmallocInv DEF Sizes, kcalloc
  <1>4. ASSUME NEW n \in Requests, NEW ptr \in DOMAIN held, kreallocInPlace(ptr, n) PROVE Inv'
    BY <1>4, KreallocInPlaceInv DEF Sizes
  <1>5. ASSUME NEW n \in Requests, NEW ptr \in DOMAIN held, kreallocMove(ptr, n) PROVE Inv'
    BY <1>5, KreallocMoveInv DEF Sizes
  <1>6. ASSUME NEW ptr \in DOMAIN held, kfree(ptr) PROVE Inv'
    BY <1>6, KfreeInv
  <1>7. CASE merge_free_blocks
    BY <1>7, MergeInv, AdvanceInv, MergeDoneInv DEF merge_free_blocks
  <1>8. CASE UNCHANGED vars
    BY <1>8 DEF vars, Inv, TypeOK, Tiling, Ordered, Linked, Covered, HeldBacked, Coalesced,
                Headers, End, Data, HeaderOf
  <1>9. QED
    BY <1>1, <1>2, <1>3, <1>4, <1>5, <1>6, <1>7, <1>8 DEF Next

-----------------------------------------------------------------------------
\* The inductive invariant holds in every reachable state, for every arena,
\* header, alignment and set of requests.
THEOREM HeapInvariant == Spec => []Inv
  BY InitInv, NextInv, PTL DEF Spec

\* The headers, the cursor and the pointers in use keep the types heap.c gives them.
THEOREM TypeCorrect == Spec => []TypeOK
  <1>1. Inv => TypeOK
    BY DEF Inv
  <1>2. QED
    BY <1>1, HeapInvariant, PTL

\* Splits and merges in any order leave a list that tiles the arena.
THEOREM ListTilesArena == Spec => []Tiling
  <1>1. Inv => Tiling
    BY DEF Inv
  <1>2. QED
    BY <1>1, HeapInvariant, PTL

\* Every pointer in use is backed by an allocated block of the size asked for,
\* and no block is allocated that nobody holds.
THEOREM PointersBacked == Spec => []HeldBacked
  <1>1. Inv => HeldBacked
    BY DEF Inv
  <1>2. QED
    BY <1>1, HeapInvariant, PTL

\* A walk of merge_free_blocks leaves no two free neighbours behind it.
THEOREM NeighboursMerged == Spec => []Coalesced
  <1>1. Inv => Coalesced
    BY DEF Inv
  <1>2. QED
    BY <1>1, HeapInvariant, PTL

\* kmalloc fails only when no stretch of free bytes has room for the block.
LEMMA InvNoFalseExhaustion == Inv => NoFalseExhaustion
  <1> SUFFICES ASSUME Inv, cur = NULL, NEW a \in 0 .. HeapSize, NEW z \in 0 .. HeapSize,
                      a + HeaderSize <= z, Untouched(a, z)
               PROVE  \E b \in Headers : Fits(b, z - a - HeaderSize)
    BY DEF NoFalseExhaustion
  <1> USE ConstantsAssumption
  <1>1. TypeOK /\ Tiling /\ Coalesced
    BY DEF Inv
  <1>2. a \in 0 .. HeapSize - 1
    OBVIOUS
  <1>3. PICK b \in Headers : b <= a /\ a < End(b)
    BY <1>1, <1>2 DEF Tiling, Covered
  <1>4. /\ b \in Nat /\ block[b].size \in Nat /\ End(b) \in Nat /\ End(b) <= HeapSize
        /\ End(b) = b + HeaderSize + block[b].size /\ block[b].is_free \in {0, 1}
    BY <1>1, BlockBounds
  <1>5. block[b].is_free = 1
    BY <1>3, <1>4 DEF Untouched
  <1>6. z <= End(b)
    <2> SUFFICES ASSUME End(b) < z PROVE FALSE
      BY <1>4
    <2> DEFINE n == block[b].next
    <2>1. n \in Headers /\ n = End(b) /\ n # NULL
      BY <1>1, <1>4 DEF Tiling, Linked, NULL, TypeOK
    <2>2. block[n].is_free = 0
      <3>1. block[n].is_free \in {0, 1}
        BY <2>1, <1>1, BlockBounds
      <3>2. QED
        BY <3>1, <2>1, <1>1, <1>5 DEF Coalesced
    <2>3. End(n) \in Nat /\ n < End(n)
      BY <2>1, <1>1, BlockBounds
    <2>4. QED
      BY <2>1, <2>2, <2>3, <1>3, <1>4 DEF Untouched
  <1>7. block[b].size >= z - a - HeaderSize
    BY <1>3, <1>4, <1>6
  <1>8. QED
    BY <1>5, <1>7 DEF Fits

THEOREM NoFalseExhaustionHolds == Spec => []NoFalseExhaustion
  BY InvNoFalseExhaustion, HeapInvariant, PTL

-----------------------------------------------------------------------------
(***************************************************************************)
(* The heap implements the allocator: each action is the allocator's step  *)
(* of the same meaning on the pointers in use, and the iterations of       *)
(* merge_free_blocks are stuttering.                                       *)
(***************************************************************************)

\* A pointer in use has its bytes inside its own block.
LEMMA HeldExtent ==
    ASSUME Inv, NEW p \in DOMAIN held
    PROVE  /\ HeaderOf(p) \in Headers /\ p = HeaderOf(p) + HeaderSize
           /\ p \in Nat /\ held[p] \in Nat /\ HeaderOf(p) < p
           /\ p + held[p] <= End(HeaderOf(p))
           /\ block[HeaderOf(p)].is_free = 0
           /\ held[p] <= block[HeaderOf(p)].size /\ block[HeaderOf(p)].size \in Nat
  <1> USE ConstantsAssumption
  <1>1. TypeOK /\ Tiling /\ HeldBacked
    BY DEF Inv
  <1>2. HeaderOf(p) \in Headers /\ held[p] <= block[HeaderOf(p)].size
        /\ block[HeaderOf(p)].is_free = 0
    BY <1>1 DEF HeldBacked
  <1>3. held[p] \in Sizes /\ p \in 0 .. HeapSize
    BY <1>1 DEF TypeOK
  <1>4. held[p] \in Nat
    BY <1>3, RoundedSize
  <1>5. block[HeaderOf(p)].size \in Nat
        /\ End(HeaderOf(p)) = HeaderOf(p) + HeaderSize + block[HeaderOf(p)].size
    BY <1>1, <1>2, BlockBounds
  <1>6. p = HeaderOf(p) + HeaderSize /\ HeaderOf(p) < p /\ p \in Nat
    BY <1>3 DEF HeaderOf
  <1>7. HeaderOf(p) \in Nat
    BY <1>1, <1>2 DEF TypeOK
  <1>8. QED
    BY <1>2, <1>4, <1>5, <1>6, <1>7

\* n bytes at the data of block b are clear of every pointer backed by another block.
LEMMA FreshInBlock ==
    ASSUME Inv, NEW b \in Headers, NEW n \in Nat, n <= block[b].size,
           NEW S \in SUBSET DOMAIN held, \A q \in S : HeaderOf(q) # b
    PROVE  A!Fresh(Data(b), n, S)
  <1> USE ConstantsAssumption
  <1>1. TypeOK /\ Tiling /\ HeldBacked
    BY DEF Inv
  <1>2. /\ b \in Nat /\ block[b].size \in Nat /\ End(b) <= HeapSize
        /\ Data(b) = b + HeaderSize /\ End(b) = b + HeaderSize + block[b].size
    BY <1>1, BlockBounds
  <1>3. A!InArena(Data(b), n)
    BY <1>2 DEF A!InArena
  <1>4. ASSUME NEW q \in S
        PROVE  Data(b) # q /\ A!Disjoint(Data(b), n, q, held[q])
    <2>1. /\ HeaderOf(q) \in Headers /\ q = HeaderOf(q) + HeaderSize
          /\ q \in Nat /\ held[q] \in Nat /\ HeaderOf(q) < q
          /\ q + held[q] <= End(HeaderOf(q))
      BY HeldExtent
    <2>2. HeaderOf(q) # b
      OBVIOUS
    <2>3. HeaderOf(q) \in Nat /\ End(HeaderOf(q)) \in Nat
      BY <1>1, <2>1, BlockBounds
    <2>4. CASE HeaderOf(q) < b
      <3>1. End(HeaderOf(q)) <= b
        BY <2>1, <2>4, <1>1 DEF Tiling, Ordered
      <3>2. QED
        BY <3>1, <2>1, <2>3, <1>2 DEF A!Disjoint
    <2>5. CASE b < HeaderOf(q)
      <3>1. End(b) <= HeaderOf(q)
        BY <2>1, <2>5, <1>1 DEF Tiling, Ordered
      <3>2. QED
        BY <3>1, <2>1, <2>3, <1>2 DEF A!Disjoint
    <2>6. QED
      BY <2>2, <2>3, <2>4, <2>5, <1>2
  <1>5. QED
    BY <1>3, <1>4 DEF A!Fresh

LEMMA KmallocAllocs ==
    ASSUME Inv, NEW n \in Sizes, kmalloc(n)
    PROVE  A!Next
  <1>1. PICK b \in Headers :
          /\ find_free_block(b, align_size(n))
          /\ held' = [p \in DOMAIN held \cup {Data(b)} |->
                        IF p = Data(b) THEN n ELSE held[p]]
    BY DEF kmalloc
  <1>2. TypeOK /\ Tiling /\ n # 0
    BY DEF Inv, kmalloc
  <1>3. block[b].size \in Nat /\ Data(b) \in 0 .. HeapSize
    BY <1>2, BlockBounds
  <1>4. n \in Nat /\ n > 0 /\ n <= block[b].size
    BY <1>1, <1>2, <1>3, RoundedSize DEF find_free_block, Fits
  <1>5. \A q \in DOMAIN held : HeaderOf(q) # b
    BY <1>1, HeldExtent DEF find_free_block, Fits
  <1>6. A!Fresh(Data(b), n, DOMAIN held)
    BY <1>4, <1>5, FreshInBlock
  <1>7. A!Alloc(Data(b), n)
    BY <1>1, <1>4, <1>6 DEF A!Alloc
  <1>8. QED
    BY <1>3, <1>7 DEF A!Next, A!Place

LEMMA KfreeFrees ==
    ASSUME NEW ptr \in DOMAIN held, kfree(ptr)
    PROVE  A!Next
  <1>1. A!Free(ptr)
    BY DEF kfree, A!Free
  <1>2. QED
    BY <1>1 DEF A!Next

LEMMA KreallocInPlaceResizes ==
    ASSUME Inv, NEW ptr \in DOMAIN held, NEW n \in Sizes, kreallocInPlace(ptr, n)
    PROVE  A!Next
  <1>1. block[HeaderOf(ptr)].size >= n /\ held' = [held EXCEPT ![ptr] = n] /\ n # 0
    BY DEF kreallocInPlace
  <1>2. HeaderOf(ptr) \in Headers /\ ptr = Data(HeaderOf(ptr)) /\ block[HeaderOf(ptr)].size \in Nat
    BY HeldExtent DEF Data
  <1>3. n \in Nat /\ n > 0 /\ n <= block[HeaderOf(ptr)].size
    BY <1>1, <1>2, RoundedSize
  <1>4. \A q \in DOMAIN held \ {ptr} : HeaderOf(q) # HeaderOf(ptr)
    BY HeldExtent
  <1>5. A!Fresh(Data(HeaderOf(ptr)), n, DOMAIN held \ {ptr})
    BY <1>2, <1>3, <1>4, FreshInBlock
  <1>6. A!Resize(ptr, n)
    BY <1>1, <1>2, <1>3, <1>5 DEF A!Resize
  <1>7. QED
    BY <1>6 DEF A!Next

LEMMA KreallocMoveMoves ==
    ASSUME Inv, NEW ptr \in DOMAIN held, NEW n \in Sizes, kreallocMove(ptr, n)
    PROVE  A!Next
  <1>1. PICK b \in Headers :
          /\ find_free_block(b, align_size(n))
          /\ held' = [p \in (DOMAIN held \ {ptr}) \cup {Data(b)} |->
                        IF p = Data(b) THEN n ELSE held[p]]
    BY DEF kreallocMove
  <1>2. TypeOK /\ Tiling /\ block[HeaderOf(ptr)].size < n
    BY DEF Inv, kreallocMove
  <1>3. block[b].size \in Nat /\ Data(b) \in 0 .. HeapSize
    BY <1>2, BlockBounds
  <1>4. n \in Nat /\ n <= block[b].size
    BY <1>1, <1>3, RoundedSize DEF find_free_block, Fits
  <1>5. n > held[ptr]
    BY <1>2, <1>4, HeldExtent
  <1>6. \A q \in DOMAIN held : HeaderOf(q) # b
    BY <1>1, HeldExtent DEF find_free_block, Fits
  <1>7. A!Fresh(Data(b), n, DOMAIN held)
    BY <1>4, <1>6, FreshInBlock
  <1>8. A!Move(ptr, Data(b), n)
    BY <1>1, <1>5, <1>7 DEF A!Move
  <1>9. QED
    BY <1>3, <1>8 DEF A!Next, A!Place

LEMMA StepRefines == Inv /\ [Next]_vars => [A!Next]_held
  <1> SUFFICES ASSUME Inv, [Next]_vars PROVE [A!Next]_held
    OBVIOUS
  <1>1. ASSUME NEW n \in Requests, kmalloc(n) PROVE A!Next
    BY <1>1, KmallocAllocs DEF Sizes
  <1>2. ASSUME NEW n \in Requests, NEW a \in Alignments, kmalloc_aligned(n, a) PROVE A!Next
    BY <1>2, KmallocAllocs DEF Sizes, kmalloc_aligned
  <1>3. ASSUME NEW n \in Requests, NEW k \in Counts, kcalloc(k, n) PROVE A!Next
    BY <1>3, KmallocAllocs DEF Sizes, kcalloc
  <1>4. ASSUME NEW n \in Requests, NEW ptr \in DOMAIN held, kreallocInPlace(ptr, n) PROVE A!Next
    BY <1>4, KreallocInPlaceResizes DEF Sizes
  <1>5. ASSUME NEW n \in Requests, NEW ptr \in DOMAIN held, kreallocMove(ptr, n) PROVE A!Next
    BY <1>5, KreallocMoveMoves DEF Sizes
  <1>6. ASSUME NEW ptr \in DOMAIN held, kfree(ptr) PROVE A!Next
    BY <1>6, KfreeFrees
  <1>7. CASE merge_free_blocks
    BY <1>7 DEF merge_free_blocks
  <1>8. CASE UNCHANGED vars
    BY <1>8 DEF vars
  <1>9. QED
    BY <1>1, <1>2, <1>3, <1>4, <1>5, <1>6, <1>7, <1>8 DEF Next

\* heap.c implements the allocator of Allocator.tla: regions in use never
\* share a byte and stay where they are until their holder gives them up.
THEOREM HeapRefinesAllocator == Spec => RefinesAllocator
  <1>1. Init => A!Init
    BY DEF Init, A!Init
  <1>2. QED
    BY <1>1, StepRefines, HeapInvariant, PTL DEF Spec, RefinesAllocator, A!Spec

-----------------------------------------------------------------------------
\* What tarfs_init needs of the heap: a size kmalloc refuses stays refused
\* through any number of kmallocs.
THEOREM RefusalsStand == Spec => StaysExhausted
  <1> DEFINE Exhausted(n) == \A b \in Headers : ~ Fits(b, n)
  <1> DEFINE Step == \A n \in 0 .. HeapSize :
                       (\E m \in Sizes : kmalloc(m)) /\ Exhausted(n) => Exhausted(n)'
  <1>1. ASSUME Inv, NEW n \in 0 .. HeapSize, NEW m \in Sizes, kmalloc(m), Exhausted(n)
        PROVE  Exhausted(n)'
    <2>1. PICK b \in Headers :
            find_free_block(b, align_size(m)) /\ block' = Allocated(b, align_size(m))
      BY <1>1 DEF kmalloc
    <2>2. Fits(b, align_size(m)) /\ align_size(m) \in Nat
      BY <2>1, RoundedSize DEF find_free_block
    <2>3. TypeOK /\ Tiling /\ n \in Nat
      BY <1>1 DEF Inv
    <2>4. ASSUME NEW c \in DOMAIN block' PROVE ~ (block'[c].is_free = 1 /\ block'[c].size >= n)
      BY <1>1, <2>1, <2>2, <2>3, AllocatedStaysExhausted
    <2>5. QED
      BY <2>4 DEF Headers, Fits
  <1>2. Inv /\ [Next]_vars => [Step]_vars
    BY <1>1
  <1>3. QED
    BY <1>2, HeapInvariant, PTL DEF Spec, StaysExhausted
=============================================================================
