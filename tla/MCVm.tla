-------------------------------- MODULE MCVm --------------------------------
(***************************************************************************)
(* Vm on 16 virtual pages of two bytes: four directory slots of four pages *)
(* each, the upper two slots the kernel half, and three allocator pages (a *)
(* directory and two tables).                                              *)
(***************************************************************************)
EXTENDS Vm

CONSTANT Requests   \* the calls of vm_map_pages that are made

\* Word 0 of a recycled page, 0xDEADBEAF: far above RAM, with the reserved bit.
MCMagic == [frame |-> 30, flags |-> Flag]

\* Memory that holds one word everywhere, and memory that is zero but for the
\* last word of each page.
Filled(entry) == [p \in Page |-> [i \in Index |-> entry]]

Stale(entry) == [p \in Page |-> [i \in Index |-> IF i = 3 THEN entry ELSE Zero]]

\* RAM is zero, or holds words that are no present entries, or present ones: that
\* lead out of RAM, to the directory, to a page that is free, or map 4 MB.
MCGarbage ==
  { Filled(Zero), Filled([frame |-> 28, flags |-> {"RW"}]),
    Filled([frame |-> 28, flags |-> {"P", "RW", "US"}]),
    Stale([frame |-> 2, flags |-> {"P", "RW"}]),
    Stale([frame |-> 4, flags |-> {"P", "US"}]),
    Stale([frame |-> 16, flags |-> {"P", "RW", "PS"}]) }

Ask(vaddr, paddr, size, permissions) ==
  [vaddr |-> vaddr, paddr |-> paddr, size |-> size, permissions |-> permissions]

\* In every slot; aligned or not; one page, several, none; across two slots;
\* two that overlap with other frames and rights; just below the end of
\* memory, and up to it, where the end of the range is 0.
MCRequests ==
  { Ask(16, 0, 4, {"RW"}), Ask(17, 8, 2, {}), Ask(20, 4, 6, {"RW", "US"}),
    Ask(24, 16, 3, {}), Ask(30, 2, 1, {"RW"}), Ask(8, 12, 0, {"US"}),
    Ask(13, 20, 4, {"US"}), Ask(22, 10, 4, {"US"}), Ask(0, 6, 2, {"RW"}), Ask(18, 3, 2, {"RW"}),
    Ask(30, 4, 2, {"RW"}) }

ASSUME RequestsAssumption == Requests \subseteq Request

\* MapSpec of Vm for these requests.
Next == MapNext(Requests)

Spec == Init /\ [][Next]_vars

=============================================================================
