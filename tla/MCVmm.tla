------------------------------- MODULE MCVmm -------------------------------
\* Four entries to a table, and four pages to a word of the bitmap: as in the
\* code, one word of it is enough for the tables of the kernel's identity map.
EXTENDS Vmm

\* Neighbours in one page table, next to the kernel's under the same PD, and a
\* page that needs a PDPT, a PD and a page table of its own.
MCVirtuals == {4, 5, 64}
MCTargets == {30}
MCFlagSets == {{"present"}, {"present", "writable"}}
MCCounts == {1, 2}

\* No page beyond the kernel's in a whole word; a last word that is not whole;
\* more memory than the bitmap has bits for.
MCMemorySizes == {6, 10, 17}
=============================================================================
