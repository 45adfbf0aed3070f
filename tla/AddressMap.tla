----------------------------- MODULE AddressMap -----------------------------
(***************************************************************************)
(* What an address space promises: each virtual page has an entry of its   *)
(* own, which changes only when that page is mapped or unmapped.           *)
(***************************************************************************)
CONSTANTS
    Pages,    \* virtual pages
    Entries,  \* what a page can be mapped to
    Unmapped  \* the entry of a page nothing is mapped to

VARIABLE map

Init == map = [v \in Pages |-> Unmapped]

Map(v, e) == map' = [map EXCEPT ![v] = e]
Unmap(v) == map' = [map EXCEPT ![v] = Unmapped]

Next == \E v \in Pages : Unmap(v) \/ \E e \in Entries : Map(v, e)

Spec == Init /\ [][Next]_map
=============================================================================
