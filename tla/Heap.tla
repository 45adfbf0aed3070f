-------------------------------- MODULE Heap --------------------------------
(***************************************************************************)
(* The kernel heap, src/mm/heap.c: one list of blocks, in the order of     *)
(* their addresses, that tiles the arena.  Allocation is first fit with a  *)
(* split, a free marks the block and then walks the whole list merging     *)
(* neighbours.  The walk is a loop of the code and takes one step of this  *)
(* specification per iteration; `cur' is its cursor, and no other          *)
(* operation runs until it ends, because the kernel calls the heap from    *)
(* one thread and never from an interrupt handler.                         *)
(*                                                                         *)
(* Addresses are offsets from heap_start in bytes.  A call that returns    *)
(* NULL or does nothing (kmalloc(0), no block that fits, kfree(NULL))      *)
(* changes no state: it is a stuttering step.                              *)
(***************************************************************************)
EXTENDS Integers

CONSTANTS
    HeapSize,    \* heap_init's size: bytes of the arena
    HeaderSize,  \* BLOCK_HEADER_SIZE
    AlignSize,   \* ALIGN_SIZE
    SizeMod,     \* 2^w for the width w of size_t
    Requests,    \* sizes clients pass to kmalloc and krealloc
    Alignments,  \* alignments clients pass to kmalloc_aligned
    Counts       \* nmemb of kcalloc

VARIABLES
    block,      \* header address -> its header, for the blocks on the list
    used_size,  \* the statistic behind heap_get_used and heap_get_free
    cur,        \* `current' of merge_free_blocks, NULL when no merge runs
    held        \* the clients' side: pointer in use -> bytes asked for

vars == <<block, used_size, cur, held>>

NULL == -1

-----------------------------------------------------------------------------
\* (n + a - 1) & ~(a - 1) on a size_t
RoundUp(n, a) == (((n + a - 1) % SizeMod) \div a) * a

align_size(n) == RoundUp(n, AlignSize)

\* Every size a client ends up asking kmalloc for.
Sizes == Requests
           \cup {RoundUp(n, a) : n \in Requests, a \in Alignments}
           \cup {k * n : k \in Counts, n \in Requests}

ASSUME ConstantsAssumption ==
    /\ HeapSize \in Nat /\ HeaderSize \in Nat \ {0} /\ AlignSize \in Nat \ {0}
    /\ SizeMod \in Nat /\ HeaderSize < HeapSize /\ HeapSize < SizeMod

\* The callers' side: the sizes asked for are far from the end of size_t, so
\* that neither the rounding nor nmemb * size wraps.
ASSUME RequestsAssumption ==
    \A n \in Sizes : n \in Nat /\ n <= align_size(n) /\ align_size(n) \in Nat

-----------------------------------------------------------------------------
Headers == DOMAIN block
End(b) == b + HeaderSize + block[b].size       \* first byte after block b
Data(b) == b + HeaderSize                      \* the pointer kmalloc returns
HeaderOf(ptr) == ptr - HeaderSize

\* heap_init: one free block over the arena.
Init ==
    /\ block = [b \in {0} |->
                  [size |-> HeapSize - HeaderSize, next |-> NULL, is_free |-> 1]]
    /\ used_size = 0
    /\ cur = NULL
    /\ held = [ptr \in {} |-> 0]

\* Mutants of Fits: the header counted as room, the free mark not looked at.
FitsWithHeader(b, size) == block[b].is_free = 1 /\ block[b].size + HeaderSize >= size
FitsInUse(b, size) == block[b].size >= size

\* The first block of the list that is free and large enough.
Fits(b, size) == block[b].is_free = 1 /\ block[b].size >= size
find_free_block(b, size) ==
    /\ b \in Headers
    /\ Fits(b, size)
    /\ \A c \in Headers : Fits(c, size) => b <= c

\* Mutant of TooLarge: no room asked for the header of the second block.
TooLargeForData(b, size) == block[b].size >= size + AlignSize

\* The list after split_block(b, size) and is_free = 0.
TooLarge(b, size) == block[b].size >= size + HeaderSize + AlignSize

\* Mutant of Allocated: the second block's size forgets its header.
AllocatedHeaderLost(b, size) ==
    LET rest == b + HeaderSize + size
    IN  IF TooLarge(b, size)
        THEN [c \in Headers \cup {rest} |->
                IF c = b
                THEN [size |-> size, next |-> rest, is_free |-> 0]
                ELSE IF c = rest
                THEN [size |-> block[b].size - size, next |-> block[b].next, is_free |-> 1]
                ELSE block[c]]
        ELSE [block EXCEPT ![b] = [@ EXCEPT !.is_free = 0]]

\* Mutant of Allocated: the header of the second block is added to its size.
AllocatedHeaderAdded(b, size) ==
    LET rest == b + HeaderSize + size
    IN  IF TooLarge(b, size)
        THEN [c \in Headers \cup {rest} |->
                IF c = b
                THEN [size |-> size, next |-> rest, is_free |-> 0]
                ELSE IF c = rest
                THEN [size    |-> block[b].size - size + HeaderSize,
                      next    |-> block[b].next,
                      is_free |-> 1]
                ELSE block[c]]
        ELSE [block EXCEPT ![b] = [@ EXCEPT !.is_free = 0]]

Allocated(b, size) ==
    LET rest == b + HeaderSize + size
    IN  IF TooLarge(b, size)
        THEN [c \in Headers \cup {rest} |->
                IF c = b
                THEN [size |-> size, next |-> rest, is_free |-> 0]
                ELSE IF c = rest
                THEN [size    |-> block[b].size - size - HeaderSize,
                      next    |-> block[b].next,
                      is_free |-> 1]
                ELSE block[c]]
        ELSE [block EXCEPT ![b] = [@ EXCEPT !.is_free = 0]]

Marked(list, b) == [list EXCEPT ![b] = [@ EXCEPT !.is_free = 1]]

-----------------------------------------------------------------------------
kmalloc(n) ==
    /\ cur = NULL
    /\ n # 0
    /\ \E b \in Headers :
          /\ find_free_block(b, align_size(n))
          /\ block' = Allocated(b, align_size(n))
          /\ used_size' = (used_size + align_size(n) + HeaderSize) % SizeMod
          /\ held' = [p \in DOMAIN held \cup {Data(b)} |->
                        IF p = Data(b) THEN n ELSE held[p]]
    /\ UNCHANGED cur

kmalloc_aligned(n, alignment) == kmalloc(RoundUp(n, alignment))

kcalloc(nmemb, n) == kmalloc(nmemb * n)

\* Mutant of kfree: the merge starts at the freed block, not at free_list.
kfreeMergeForward(ptr) ==
    /\ cur = NULL
    /\ ptr \in DOMAIN held
    /\ block' = Marked(block, HeaderOf(ptr))
    /\ used_size' = (used_size - (block[HeaderOf(ptr)].size + HeaderSize)) % SizeMod
    /\ held' = [p \in DOMAIN held \ {ptr} |-> held[p]]
    /\ cur' = HeaderOf(ptr)

\* kfree, up to the call of merge_free_blocks, which starts at free_list.
kfree(ptr) ==
    /\ cur = NULL
    /\ ptr \in DOMAIN held
    /\ block' = Marked(block, HeaderOf(ptr))
    /\ used_size' = (used_size - (block[HeaderOf(ptr)].size + HeaderSize)) % SizeMod
    /\ held' = [p \in DOMAIN held \ {ptr} |-> held[p]]
    /\ cur' = 0

\* krealloc of a block that is large enough: the same pointer.
kreallocInPlace(ptr, n) ==
    /\ cur = NULL
    /\ ptr \in DOMAIN held
    /\ n # 0
    /\ block[HeaderOf(ptr)].size >= n
    /\ held' = [held EXCEPT ![ptr] = n]
    /\ UNCHANGED <<block, used_size, cur>>

\* krealloc by a new block, a copy of the old one's bytes and kfree of the old.
kreallocMove(ptr, n) ==
    /\ cur = NULL
    /\ ptr \in DOMAIN held
    /\ n # 0
    /\ block[HeaderOf(ptr)].size < n
    /\ \E b \in Headers :
          /\ find_free_block(b, align_size(n))
          /\ block' = Marked(Allocated(b, align_size(n)), HeaderOf(ptr))
          /\ used_size' = (used_size + align_size(n) - block[HeaderOf(ptr)].size) % SizeMod
          /\ held' = [p \in (DOMAIN held \ {ptr}) \cup {Data(b)} |->
                        IF p = Data(b) THEN n ELSE held[p]]
    /\ cur' = 0

\* Mutant of Merge: the cursor moves on although the merged block may have
\* another free neighbour.
MergeAndMoveOn ==
    /\ block[cur].is_free = 1 /\ block[block[cur].next].is_free = 1
    /\ LET next == block[cur].next
       IN  /\ block' = [b \in Headers \ {next} |->
                          IF b = cur
                          THEN [size    |-> block[cur].size + HeaderSize + block[next].size,
                                next    |-> block[next].next,
                                is_free |-> 1]
                          ELSE block[b]]
           /\ cur' = block[next].next

\* One iteration of merge_free_blocks, or its end.
Merge ==
    /\ block[cur].is_free = 1 /\ block[block[cur].next].is_free = 1
    /\ LET next == block[cur].next
       IN  block' = [b \in Headers \ {next} |->
                       IF b = cur
                       THEN [size    |-> block[cur].size + HeaderSize + block[next].size,
                             next    |-> block[next].next,
                             is_free |-> 1]
                       ELSE block[b]]
    /\ UNCHANGED cur

\* Mutant of Advance: the cursor stays.
AdvanceStuck ==
    /\ ~ (block[cur].is_free = 1 /\ block[block[cur].next].is_free = 1)
    /\ UNCHANGED <<cur, block>>

Advance ==
    /\ ~ (block[cur].is_free = 1 /\ block[block[cur].next].is_free = 1)
    /\ cur' = block[cur].next
    /\ UNCHANGED block

MergeDone ==
    /\ block[cur].next = NULL
    /\ cur' = NULL
    /\ UNCHANGED block

merge_free_blocks ==
    /\ cur # NULL
    /\ MergeDone \/ (block[cur].next # NULL /\ (Merge \/ Advance))
    /\ UNCHANGED <<used_size, held>>

Next ==
    \/ \E n \in Requests :
          \/ kmalloc(n)
          \/ \E a \in Alignments : kmalloc_aligned(n, a)
          \/ \E k \in Counts : kcalloc(k, n)
          \/ \E ptr \in DOMAIN held : kreallocInPlace(ptr, n) \/ kreallocMove(ptr, n)
    \/ \E ptr \in DOMAIN held : kfree(ptr)
    \/ merge_free_blocks

\* The loop of merge_free_blocks runs on: nothing in the kernel preempts it for good.
Spec == Init /\ [][Next]_vars /\ WF_vars(merge_free_blocks)

-----------------------------------------------------------------------------
\* The headers on the list, the cursor, the statistic and the pointers in use
\* have the values heap.c can give them.
BlockHeader == [size : 0 .. HeapSize, next : {NULL} \cup (0 .. HeapSize), is_free : {0, 1}]
TypeOK ==
    /\ Headers \subseteq 0 .. HeapSize
    /\ block \in [Headers -> BlockHeader]
    /\ used_size \in 0 .. SizeMod - 1
    /\ cur \in Headers \cup {NULL}
    /\ DOMAIN held \subseteq 0 .. HeapSize
    /\ held \in [DOMAIN held -> Sizes]

\* The list tiles the arena: it starts at heap_start, each block ends where
\* the next begins, the last one at heap_end, blocks never overlap and no byte
\* is lost, whatever splits and merges happened.
Ordered == \A b, c \in Headers : b < c => End(b) <= c
Linked ==
    \A b \in Headers :
        IF End(b) = HeapSize THEN block[b].next = NULL
        ELSE block[b].next = End(b) /\ End(b) \in Headers
Covered == \A a \in 0 .. HeapSize - 1 : \E b \in Headers : b <= a /\ a < End(b)
Tiling == 0 \in Headers /\ Ordered /\ Linked /\ Covered

\* The pointers in use and the blocks marked allocated are the same, and each
\* block holds at least the bytes its client asked for (also after krealloc).
HeldBacked ==
    /\ \A p \in DOMAIN held :
          /\ HeaderOf(p) \in Headers
          /\ block[HeaderOf(p)].is_free = 0
          /\ held[p] <= block[HeaderOf(p)].size
    /\ \A b \in Headers : block[b].is_free = 0 => Data(b) \in DOMAIN held

\* Two neighbours are both free only where merge_free_blocks has yet to pass:
\* a single walk from the head of the list leaves no pair behind.
Coalesced ==
    \A b \in Headers :
        block[b].next # NULL /\ block[b].is_free = 1 /\ block[block[b].next].is_free = 1
            => cur # NULL /\ cur <= b

\* kmalloc fails for want of memory only: between two calls, any stretch of the
\* arena that no allocated block touches and that has room for a header and n
\* bytes means find_free_block(n) finds a block.
Untouched(a, z) ==
    \A b \in Headers : block[b].is_free = 0 => End(b) <= a \/ z <= b
NoFalseExhaustion ==
    cur = NULL =>
        \A a, z \in 0 .. HeapSize :
            a + HeaderSize <= z /\ Untouched(a, z)
                => \E b \in Headers : Fits(b, z - a - HeaderSize)

\* A size that finds no block finds none after any kmalloc either, only after a
\* kfree or krealloc: tarfs_init mounts no table with an unfilled slot because of
\* this alone (tarfs.c:158), for it does not look at how many slots it filled.
StaysExhausted ==
    [][\A n \in 0 .. HeapSize :
          (\E m \in Sizes : kmalloc(m)) /\ (\A b \in Headers : ~ Fits(b, n))
              => (\A b \in Headers : ~ Fits(b, n))']_vars

\* The heap does what an allocator promises: regions in use never share a byte
\* and move only by krealloc of their own pointer.
A == INSTANCE Allocator WITH ArenaSize <- HeapSize, live <- held
RefinesAllocator == A!Spec

\* merge_free_blocks ends, and with it every kfree and krealloc.
MergeEnds == cur # NULL ~> cur = NULL
=============================================================================
