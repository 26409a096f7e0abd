---------------------------- MODULE AddressSpace ----------------------------
(***************************************************************************)
(* What vm_map_pages promises (kernel/include/mm/vm.h): an address space   *)
(* is a map from virtual pages to translations; a call names pages and the *)
(* translation each is to get, and changes exactly those pages, one at a   *)
(* time.  Some pages may be stale, because the directory was never cleared *)
(* (kernel/mm/kvm.c): of them nothing is known, and a call that reaches    *)
(* one loses the address space.  Vm.tla is the code, with its page tables, *)
(* and implements this.                                                    *)
(***************************************************************************)
CONSTANTS VPage,         \* the virtual pages
          Translation,   \* what a page may be mapped to
          Unmapped

VARIABLES map,    \* the translation of every virtual page that is not stale
          todo,   \* the pages a call still has to map, and to what
          stale,  \* the pages nothing is known of
          lost    \* a call has reached one of them

IsJob(f) == DOMAIN f \subseteq VPage /\ \A p \in DOMAIN f : f[p] \in Translation

Init ==
  /\ stale \subseteq VPage
  /\ DOMAIN map = VPage \ stale
  /\ \A p \in VPage \ stale : map[p] \in Translation \cup {Unmapped}
  /\ DOMAIN todo = {}
  /\ ~lost

Request ==
  /\ ~lost
  /\ DOMAIN todo = {}
  /\ IsJob(todo')
  /\ UNCHANGED <<map, stale, lost>>

MapOne ==
  /\ ~lost
  /\ \E p \in DOMAIN todo \ stale :
       /\ map' = [map EXCEPT ![p] = todo[p]]
       /\ todo' = [q \in DOMAIN todo \ {p} |-> todo[q]]
  /\ UNCHANGED <<stale, lost>>

\* Nothing is promised of the map from here on.
Lose ==
  /\ ~lost /\ lost'
  /\ DOMAIN todo \cap stale # {}

Next == Request \/ MapOne \/ Lose

Spec == Init /\ [][Next]_<<map, todo, stale, lost>>

=============================================================================
