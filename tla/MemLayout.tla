------------------------------ MODULE MemLayout ------------------------------
(***************************************************************************)
(* Addresses: arch/i386/include/memlayout.h and the paging helpers of      *)
(* arch/i386/include/x86.h.  An address is a number below ADDRSPACE (u32). *)
(*                                                                         *)
(* The code's numbers are PGSIZE = 4096 and NENTRIES = 1024, the entries   *)
(* of a page directory and of a page table.  One directory entry spans     *)
(* NENTRIES pages (4 MB, the SPAN), and NENTRIES of them all of memory, so *)
(* every other number follows from those two.                              *)
(***************************************************************************)
EXTENDS Integers

CONSTANTS
  PGSIZE,      \* X86_PAGESZ
  NENTRIES,    \* X86_PDT_NENTRIES
  EXTENDED     \* X86_EXTENDED_MEMORY: the kernel is loaded from 1 MB on

SPAN      == NENTRIES * PGSIZE
ADDRSPACE == NENTRIES * SPAN
Address   == 0..(ADDRSPACE - 1)

KERNEL_BASE == ADDRSPACE \div 2
KERNEL_LINK == KERNEL_BASE + EXTENDED

ASSUME LayoutAssumption ==
  /\ PGSIZE \in Nat \ {0}
  /\ NENTRIES \in Nat \ {0, 1} /\ NENTRIES % 2 = 0
  /\ EXTENDED \in Nat /\ EXTENDED % PGSIZE = 0

MM_PHYSADDR(va) == (va - KERNEL_BASE) % ADDRSPACE
MM_VIRTADDR(pa) == (pa + KERNEL_BASE) % ADDRSPACE

MM_PAGEDOWN(address) == address - (address % PGSIZE)
MM_PAGEUP(address)   == MM_PAGEDOWN((address + PGSIZE - 1) % ADDRSPACE)

mm_is_page_aligned(address) == address % PGSIZE = 0

X86_PD_INDEX(va) == (va \div SPAN) % NENTRIES
X86_PT_INDEX(va) == (va \div PGSIZE) % NENTRIES

\* The addresses of the pages that lie from one address up to another.
PagesIn(from, to) == {a \in from..(to - 1) : mm_is_page_aligned(a)}

=============================================================================
