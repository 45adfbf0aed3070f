-------------------------------- MODULE Vmm --------------------------------
(***************************************************************************)
(* The virtual memory manager, src/mm/vmm.c, over the physical one: page   *)
(* tables of four levels in pages of memory, made on demand.  A call of    *)
(* vmm_map_page takes one step per level: a failed allocation leaves the   *)
(* tables made so far in place.  Nothing else runs between the steps, as   *)
(* the kernel has one thread and no interrupt handler touches memory.      *)
(*                                                                         *)
(* Virtual addresses are page numbers too, the offset in the page is the   *)
(* same on both sides.                                                     *)
(***************************************************************************)
EXTENDS Pmm

CONSTANTS
    Fanout,   \* entries of a table, 512 in the code
    Virtuals, \* virtual pages clients map and unmap
    Targets,  \* physical pages they map them to
    FlagSets, \* flags they pass
    Counts    \* numbers of pages they allocate and free at once

ASSUME VmmAssumption ==
    /\ Fanout \in Nat \ {0}
    /\ Virtuals \subseteq Nat /\ Targets \subseteq Nat /\ Counts \subseteq Nat \ {0}
    /\ FlagSets \subseteq SUBSET {"present", "writable"}

\* The four indices are all of a page's number: 36 bits of it in the code, where
\* addresses have 48 bits.
ASSUME AddressAssumption ==
    Virtuals \cup 0 .. KernelPages - 1 \subseteq 0 .. Fanout * Fanout * Fanout * Fanout - 1

\* The kernel's pages fill words of the bitmap (4096 pages, words of 32), one PD
\* reaches them all, and one word has the pages for the tables that map them:
\* three, and 8 page tables in the code.
ASSUME BootAssumption ==
    /\ KernelPages % WordBits = 0
    /\ KernelPages <= Fanout * Fanout
    /\ 3 + ((KernelPages - 1) \div Fanout + 1) <= WordBits

VARIABLES
    kernel_pml4,  \* page of the top table, NULL before vmm_init allocates it
    memory,       \* contents of the pages a table can be in
    call,         \* the vmm_map_page that is running, NoCall if none
    addr          \* vmm_init's loop: the next page of the identity map

vmmVars == <<kernel_pml4, memory, call, addr>>
vars == <<pmmVars, vmmVars>>

NULL == 0
NotStarted == -1

-----------------------------------------------------------------------------
Shift == <<1, Fanout, Fanout * Fanout, Fanout * Fanout * Fanout>>
Index(virt, level) == (virt \div Shift[level]) % Fanout

TOP == 4  \* the PML4; 3 is the PDPT, 2 the PD, 1 the PT

Flags == {"present", "writable"}
Zero == [frame |-> 0, flags |-> {}]
Entry(frame, flags) == [frame |-> frame, flags |-> flags]

\* A cleared table, and a page nobody cleared: what is in it looks like entries.
Cleared == [i \in 0 .. Fanout - 1 |-> Zero]
Junk == [i \in 0 .. Fanout - 1 |-> Entry(KernelPages, Flags)]

Present(entry) == "present" \in entry.flags

\* The entry of table for virt, and the table it leads to.
EntryAt(table, virt, level) == memory[table][Index(virt, level)]
Down(table, virt, level) ==
    IF table # NULL /\ Present(EntryAt(table, virt, level))
    THEN EntryAt(table, virt, level).frame
    ELSE NULL

\* The page table vmm_unmap_page and vmm_get_physical_address navigate to.
PageTable(virt) ==
    LET pdpt == Down(kernel_pml4, virt, 4)
        pd   == Down(pdpt, virt, 3)
    IN  Down(pd, virt, 2)

\* What the page tables say of a virtual page.
Translation(virt) ==
    IF PageTable(virt) = NULL THEN Zero ELSE EntryAt(PageTable(virt), virt, 1)

NoCall == [level |-> 0]

Init ==
    /\ PmmInit
    /\ kernel_pml4 = NULL
    /\ memory = [page \in Available |-> Junk]
    /\ call = NoCall
    /\ addr = NotStarted

-----------------------------------------------------------------------------
\* Mutant of vmm_init: the identity map starts at the second page.
vmm_initSecondPage ==
    /\ addr = NotStarted
    /\ \/ \E page \in Searched :
             /\ pmm_alloc_page(page)
             /\ kernel_pml4' = page
             /\ memory' = [memory EXCEPT ![page] = Cleared]
             /\ addr' = 1
       \/ /\ OutOfMemory
          /\ addr' = KernelPages
          /\ UNCHANGED <<total_memory, memory_bitmap, used_blocks, kernel_pml4, memory>>
    /\ UNCHANGED <<held, call>>

\* vmm_init allocates and clears the top table, or gives up.
vmm_init ==
    /\ addr = NotStarted
    /\ \/ \E page \in Searched :
             /\ pmm_alloc_page(page)
             /\ kernel_pml4' = page
             /\ memory' = [memory EXCEPT ![page] = Cleared]
             /\ addr' = 0
       \/ /\ OutOfMemory
          /\ addr' = KernelPages
          /\ UNCHANGED <<total_memory, memory_bitmap, used_blocks, kernel_pml4, memory>>
    /\ UNCHANGED <<held, call>>

\* vmm_map_page is called, and its walk starts at the top table.
Start(virt, entry) ==
    /\ call = NoCall
    /\ kernel_pml4 # NULL
    /\ call' = [level |-> TOP, table |-> kernel_pml4, virt |-> virt, entry |-> entry]
    /\ UNCHANGED <<pmmVars, kernel_pml4, memory>>

\* The identity map of the kernel's pages; what vmm_map_page returns is not looked at.
MapIdentity ==
    /\ 0 <= addr /\ addr < KernelPages
    /\ Start(addr, Entry(addr, Flags))
    /\ addr' = addr + 1

Booted == addr = KernelPages
vmm_map_page ==
    /\ Booted
    /\ \E virt \in Virtuals, frame \in Targets, flags \in FlagSets :
          Start(virt, Entry(frame, flags))
    /\ UNCHANGED addr

\* get_or_create_table: the table is there; a new one; no page for it.
Walking == call.level > 1
Slot == EntryAt(call.table, call.virt, call.level)
GetTable ==
    /\ Walking
    /\ Present(Slot)
    /\ call' = [call EXCEPT !.level = @ - 1, !.table = Slot.frame]
    /\ UNCHANGED <<pmmVars, kernel_pml4, memory, addr>>

\* Mutants of CreateTable: the new table is not cleared; its page is not marked.
CreateTableUncleared ==
    /\ Walking
    /\ ~ Present(Slot)
    /\ \E page \in Searched :
          /\ pmm_alloc_page(page)
          /\ memory' = [memory EXCEPT
                          ![call.table][Index(call.virt, call.level)] = Entry(page, Flags)]
          /\ call' = [call EXCEPT !.level = @ - 1, !.table = page]
    /\ UNCHANGED <<held, kernel_pml4, addr>>
CreateTableUnmarked ==
    /\ Walking
    /\ ~ Present(Slot)
    /\ \E page \in Searched :
          /\ find_free_page(page)
          /\ memory' = [memory EXCEPT
                          ![page] = Cleared,
                          ![call.table][Index(call.virt, call.level)] = Entry(page, Flags)]
          /\ call' = [call EXCEPT !.level = @ - 1, !.table = page]
    /\ UNCHANGED <<pmmVars, kernel_pml4, addr>>

CreateTable ==
    /\ Walking
    /\ ~ Present(Slot)
    /\ \E page \in Searched :
          /\ pmm_alloc_page(page)
          /\ memory' = [memory EXCEPT
                          ![page] = Cleared,
                          ![call.table][Index(call.virt, call.level)] = Entry(page, Flags)]
          /\ call' = [call EXCEPT !.level = @ - 1, !.table = page]
    /\ UNCHANGED <<held, kernel_pml4, addr>>

NoTable ==
    /\ Walking
    /\ ~ Present(Slot)
    /\ OutOfMemory
    /\ call' = NoCall
    /\ UNCHANGED <<pmmVars, kernel_pml4, memory, addr>>

\* The walk has reached the page table: the entry is stored, whatever was there.
StoreEntry ==
    /\ call.level = 1
    /\ memory' = [memory EXCEPT ![call.table][Index(call.virt, 1)] = call.entry]
    /\ call' = NoCall
    /\ UNCHANGED <<pmmVars, kernel_pml4, addr>>

Idle == Booted /\ call = NoCall

\* Mutant of vmm_unmap_page: the entry that leads to the page table is cleared.
vmm_unmap_pageTable(virt) ==
    /\ Idle
    /\ PageTable(virt) # NULL
    /\ LET pdpt == Down(kernel_pml4, virt, 4)
       IN  memory' = [memory EXCEPT ![Down(pdpt, virt, 3)][Index(virt, 2)] = Zero]
    /\ UNCHANGED <<pmmVars, kernel_pml4, call, addr>>

vmm_unmap_page(virt) ==
    /\ Idle
    /\ PageTable(virt) # NULL
    /\ memory' = [memory EXCEPT ![PageTable(virt)][Index(virt, 1)] = Zero]
    /\ UNCHANGED <<pmmVars, kernel_pml4, call, addr>>

\* The physical pages of other clients.
ClientPages ==
    /\ Idle
    /\ \E count \in Counts :
          \/ pmm_alloc_pages(count)
          \/ \E page \in held : pmm_free_pages(page, count)
    /\ UNCHANGED vmmVars

Next ==
    \/ vmm_init
    \/ MapIdentity
    \/ vmm_map_page
    \/ GetTable \/ CreateTable \/ NoTable \/ StoreEntry
    \/ \E virt \in Virtuals : vmm_unmap_page(virt)
    \/ ClientPages

Spec == Init /\ [][Next]_vars

-----------------------------------------------------------------------------
\* The bitmap, the tables and the walk have the values the code gives them.
Table == [0 .. Fanout - 1 -> [frame : Nat, flags : SUBSET Flags]]
Calls == [level : 1 .. TOP, table : Available, virt : Nat,
          entry : [frame : Nat, flags : SUBSET Flags]]
TypeOK ==
    /\ total_memory \in MemorySizes
    /\ memory_bitmap \subseteq Bits
    /\ used_blocks \in Nat
    /\ held \subseteq Available
    /\ kernel_pml4 \in Available \cup {NULL}
    /\ memory \in [Available -> Table]
    /\ call \in Calls \cup {NoCall}
    /\ addr \in NotStarted .. KernelPages

\* The pages that hold the tables of one level, from the top down.
Below(tables) ==
    {memory[t][i].frame : t \in tables, i \in 0 .. Fanout - 1} \ {0}
PML4s == {kernel_pml4} \ {NULL}
PDPTs == Below(PML4s)
PDs == Below(PDPTs)
PTs == Below(PDs)
TablePages == PML4s \cup PDPTs \cup PDs \cup PTs

\* The pages marked used are the kernel's, the ones clients hold and the ones
\* tables are in, and no page has two uses: a client never gets a page table's
\* page, nor a table a client's.
PagesAccounted ==
    /\ TypeOK
    /\ Available \cap memory_bitmap = held \cup TablePages
    /\ held \cap TablePages = {}

\* No table is reached on two ways, whatever maps failed half-way: two virtual
\* pages share a table only by their common leading indices.
NoSharedTable ==
    LET Above == PML4s \cup PDPTs \cup PDs
    IN  /\ kernel_pml4 \notin PDPTs \cup PDs \cup PTs
        /\ \A t, u \in Above, i, j \in 0 .. Fanout - 1 :
              Present(memory[t][i]) /\ memory[u][j] = memory[t][i] => t = u /\ i = j

\* When vmm_init is done the kernel's pages are mapped to themselves ("Identity
\* mapped first 16MB", vmm.c:55): a memory that has a page for the top table has
\* the pages for the others, as only whole words of the bitmap are searched.
IdentityMapped ==
    kernel_pml4 # NULL /\ Idle =>
        \A page \in (0 .. KernelPages - 1) \ Virtuals :
            Translation(page) = Entry(page, Flags)

\* The tables do what an address space promises: mapping or unmapping a page,
\* and making the tables for it, changes that page's translation and no other.
M == INSTANCE AddressMap
        WITH Pages    <- (0 .. KernelPages - 1) \cup Virtuals,
             Entries  <- {Entry(frame, flags) : frame \in Targets \cup 0 .. KernelPages - 1,
                                                flags \in FlagSets \cup {Flags}},
             Unmapped <- Zero,
             map      <- [v \in (0 .. KernelPages - 1) \cup Virtuals |-> Translation(v)]
RefinesAddressMap == M!Spec
=============================================================================
