-------------------------------- MODULE Pmm --------------------------------
(***************************************************************************)
(* The physical memory manager, src/mm/pmm.c: one bit per page of memory,  *)
(* the lowest free page or the lowest run of free pages is handed out.     *)
(* Pages are numbered, page n is at address n * PAGE_SIZE.  Only whole     *)
(* words of the bitmap are searched: the pages of memory beyond the last   *)
(* one are marked free and never handed out.                               *)
(***************************************************************************)
EXTENDS Integers, FiniteSets

CONSTANTS
    WordBits,     \* pages to a word of the bitmap
    MAX_BLOCKS,   \* words of the bitmap
    KernelPages,  \* pages skipped for the kernel, 16 MiB
    MemorySizes   \* pages of memory of the machines modelled, mem_size / PAGE_SIZE

ASSUME PmmAssumption ==
    /\ WordBits \in Nat \ {0} /\ MAX_BLOCKS \in Nat
    /\ KernelPages \in Nat \ {0} /\ MemorySizes \subseteq Nat

VARIABLES
    total_memory,   \* pages of memory
    memory_bitmap,  \* the pages whose bit is set
    used_blocks,    \* the statistic behind pmm_get_used_memory
    held            \* the clients' side: pages they were given and have not freed

pmmVars == <<total_memory, memory_bitmap, used_blocks, held>>

-----------------------------------------------------------------------------
Bits == 0 .. MAX_BLOCKS * WordBits - 1

total_blocks ==
    IF total_memory \div WordBits > MAX_BLOCKS
    THEN MAX_BLOCKS ELSE total_memory \div WordBits

\* The pages find_free_page and find_free_pages look at.
Searched == 0 .. total_blocks * WordBits - 1

\* Memory beyond the kernel's part: what pmm_init clears the bits of.
Available == {page \in Bits : KernelPages <= page /\ page < total_memory}

\* pmm_init.
PmmInit ==
    /\ total_memory \in MemorySizes
    /\ memory_bitmap = Bits \ Available
    /\ used_blocks = KernelPages \div WordBits
    /\ held = {}

Run(page, count) == page .. page + count - 1

IsFree(page, count) ==
    Run(page, count) \subseteq Searched /\ Run(page, count) \cap memory_bitmap = {}

\* The lowest free run; find_free_page is the search for one page.
find_free_pages(page, count) ==
    /\ IsFree(page, count)
    /\ \A other \in Searched : IsFree(other, count) => page <= other
find_free_page(page) == find_free_pages(page, 1)

OutOfMemory == \A page \in Searched : ~ IsFree(page, 1)

-----------------------------------------------------------------------------
\* The bits and the statistic after an allocation; a page more counts as a
\* block more.
Take(page, count) ==
    /\ memory_bitmap' = memory_bitmap \cup Run(page, count)
    /\ used_blocks' = used_blocks + count
    /\ UNCHANGED total_memory

\* pmm_alloc_page, for vmm.c.
pmm_alloc_page(page) == find_free_page(page) /\ Take(page, 1)

\* pmm_alloc_pages, and pmm_alloc_page as the case of one, for other clients.
pmm_alloc_pages(count) ==
    \E page \in Searched :
        /\ find_free_pages(page, count)
        /\ Take(page, count)
        /\ held' = held \cup Run(page, count)

\* Mutant of pmm_free_pages: the page behind the run is freed too.
pmm_free_pagesOneMore(page, count) ==
    /\ Run(page, count) \subseteq held
    /\ memory_bitmap' = memory_bitmap \ Run(page, count + 1)
    /\ used_blocks' = used_blocks - count
    /\ held' = held \ Run(page, count)
    /\ UNCHANGED total_memory

\* A client frees pages it holds, so every bit tested is set.
pmm_free_pages(page, count) ==
    /\ Run(page, count) \subseteq held
    /\ memory_bitmap' = memory_bitmap \ Run(page, count)
    /\ used_blocks' = used_blocks - count
    /\ held' = held \ Run(page, count)
    /\ UNCHANGED total_memory
=============================================================================
