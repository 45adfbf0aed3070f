------------------------------- MODULE MCHeap -------------------------------
\* The heap with 8-byte words for bytes: a header is 3 words and blocks are
\* sized in steps of 2 words, the proportions of the code (24 and 16 bytes).
\* The arena has room for four blocks of the smallest size; some requests
\* split their block exactly, some leave a remainder too small to split off.
EXTENDS Heap

MCRequests == {0, 1, 4}
MCAlignments == {4}
MCCounts == {2}
=============================================================================
