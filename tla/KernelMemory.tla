---------------------------- MODULE KernelMemory ----------------------------
(***************************************************************************)
(* The heap's arena and the physical pages together: kernel_heap is an     *)
(* array of 16 MiB in the kernel's image, which is loaded at 1 MiB         *)
(* (linker.ld), and pmm_init keeps the first 16 MiB back for the kernel.   *)
(***************************************************************************)
EXTENDS Vmm

CONSTANTS
    LoadPage,  \* first page of the kernel's image
    HeapPages  \* pages of kernel_heap, as many as are kept back

\* The lowest place the linker can give the array: the code's own size only
\* moves it up.
kernel_heap == Run(LoadPage, HeapPages)

\* "Reserve memory for kernel heap" (kernel.c:18): no page of the array is
\* given to anyone else.
HeapReserved == kernel_heap \cap (held \cup TablePages) = {}
=============================================================================
