--------------------------- MODULE MCKernelMemory ---------------------------
\* Pages of 4 MiB, so that the first 16 are four pages.
EXTENDS KernelMemory

MCVirtuals == {4}
MCTargets == {30}
MCFlagSets == {{"present", "writable"}}
MCCounts == {1}
MCMemorySizes == {12}
=============================================================================
