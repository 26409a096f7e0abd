------------------------------- MODULE MCKvm -------------------------------
(***************************************************************************)
(* Kvm with two-byte pages and eight-entry tables: the window after        *)
(* KERNEL_BASE is eight pages, one of them the devices' memory, and every  *)
(* place of .data and of the end of the kernel in it is tried.             *)
(***************************************************************************)
EXTENDS Kvm

\* Word 0 of a recycled page, 0xDEADBEAF: far above RAM, with the reserved bit.
MCMagic == [frame |-> 126, flags |-> Flag]

\* Memory that holds one word everywhere, and memory that is zero but for one
\* word of each page.
Filled(entry) == [p \in Page |-> [i \in Index |-> entry]]

Stale(slot, entry) == [p \in Page |-> [i \in Index |-> IF i = slot THEN entry ELSE Zero]]

\* RAM is zero, or holds words that are no present entries, or present ones.  In
\* the slot of the kernel: that lead out of RAM, to a page of the kernel, to the
\* last page of RAM.  In another slot of the kernel half: a table.  Below: 4 MB.
MCGarbage ==
  { Filled(Zero), Filled([frame |-> 28, flags |-> {"RW"}]),
    Stale(4, [frame |-> 28, flags |-> {"P", "RW", "US"}]),
    Stale(4, [frame |-> 2, flags |-> {"P", "RW"}]),
    Stale(4, [frame |-> 14, flags |-> {"P", "RW", "PS"}]),
    Stale(5, [frame |-> 12, flags |-> {"P", "RW"}]),
    Stale(3, [frame |-> 32, flags |-> {"P", "RW", "PS"}]) }

=============================================================================
