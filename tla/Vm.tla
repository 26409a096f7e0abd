---------------------------------- MODULE Vm ----------------------------------
(***************************************************************************)
(* Mapping pages: vm_map_pages and vm_map_page_ of kernel/mm/kvm.c, on the *)
(* two-level tables of the i386 (arch/i386/include/x86.h), with the page   *)
(* allocator as the queue that Pages.tla implements.                       *)
(*                                                                         *)
(* A page used as a directory or a table is NENTRIES words.  A word is an  *)
(* entry: a frame (the physical address X86_PTE_ADDR keeps) and the flags  *)
(* the code or the processor look at.  The code runs with interrupts off,  *)
(* but the processor walks the tables at any time, so vm_map_page_ is a    *)
(* step for a new table and a step for the entry in it.                    *)
(*                                                                         *)
(* kvm_create never clears the directory, so its words are what RAM held:  *)
(* anything (Garbage).  linked is a history variable: the slots that       *)
(* vm_map_page_ has put a table in.  Any other present slot is stale.      *)
(***************************************************************************)
EXTENDS Integers, Sequences, FiniteSets, MemLayout

CONSTANTS
  RamStart,   \* the first page the allocator can hand out
  RamEnd,     \* the address after the last one
  NoPage,     \* no directory yet
  Magic,      \* 0xDEADBEAF as an entry: its frame, and P, RW, US and PS
  Garbage     \* what the memory may hold when the kernel starts

Page  == PagesIn(RamStart, RamEnd)
Frame == PagesIn(0, ADDRSPACE)
Flag  == {"P", "RW", "US", "PS"}
Entry == [frame : Frame, flags : SUBSET Flag]
Index == 0..(NENTRIES - 1)

Zero == [frame |-> 0, flags |-> {}]

\* Bit 21 of an entry, which must be clear in that of a 4 MB page.
Reserved(entry) == entry.frame % SPAN >= SPAN \div 2

ASSUME VmAssumption ==
  /\ RamStart \in Nat /\ RamEnd \in Nat /\ RamEnd + PGSIZE <= ADDRSPACE
  /\ KERNEL_BASE <= RamStart /\ NENTRIES > 2
  /\ mm_is_page_aligned(RamStart) /\ RamStart + PGSIZE <= RamEnd
  /\ NoPage \notin Page
  /\ Magic \in Entry /\ Magic.flags = Flag /\ KERNEL_BASE <= Magic.frame
  /\ Reserved(Magic)
  /\ Garbage \subseteq [Page -> [Index -> Entry]]

VARIABLES
  words,      \* the words of every page the allocator manages
  free,       \* the allocator's queue
  out,        \* the pages handed out
  directory,  \* the page vm_map_pages works on, or NoPage
  linked,     \* history: the slots of the directory that got a table
  call,       \* the vm_map_pages in progress, or NoCall
  status      \* "running", or why the kernel can go no further

vars == <<words, free, out, directory, linked, call, status>>

FQ == INSTANCE FrameQueue WITH Frame <- Page, queue <- free, out <- out

-----------------------------------------------------------------------------
(* The tables. *)

\* Mutant: the present bit is forgotten.
TableEntryAbsent(table) == [frame |-> MM_PHYSADDR(table), flags |-> {"RW", "US"}]

TableEntry(table) == [frame |-> MM_PHYSADDR(table), flags |-> {"P", "RW", "US"}]

PageEntry(paddr, permissions) == [frame |-> paddr, flags |-> permissions \cup {"P"}]

\* What kpalloc leaves in a page: the magic number, the two list pointers
\* that list_del clears, and the words nobody wrote.
Recycled(page) == [page EXCEPT ![0] = Magic, ![1] = Zero, ![2] = Zero]

ZeroPage == [i \in Index |-> Zero]

Unmapped == [frame |-> -1, rights |-> {}]

\* The processor's walk, with CR4.PSE and CR0.WP set as entry.S sets them.  A
\* 4 MB page whose entry has the reserved bit set is a page fault; its other low
\* bits, address bits from 32 on, are left out.
Walk(va) ==
  LET e     == words[directory][X86_PD_INDEX(va)]
      table == MM_VIRTADDR(e.frame)
      pte   == words[table][X86_PT_INDEX(va)]
  IN  IF directory = NoPage \/ "P" \notin e.flags
      THEN Unmapped
      ELSE IF "PS" \in e.flags /\ Reserved(e)
      THEN Unmapped
      ELSE IF "PS" \in e.flags
      THEN [frame |-> e.frame - (e.frame % SPAN) + MM_PAGEDOWN(va % SPAN),
            rights |-> e.flags \cap {"RW", "US"}]
      ELSE IF table \notin Page \/ "P" \notin pte.flags
      THEN Unmapped
      ELSE [frame |-> pte.frame, rights |-> e.flags \cap pte.flags \cap {"RW", "US"}]

-----------------------------------------------------------------------------
NoCall == [vaddr |-> 0, from |-> 0, size |-> 0, permissions |-> {}, curr |-> 0,
           last |-> 0, paddr |-> 0, total_maps |-> 0, busy |-> FALSE]

Call == [vaddr : Address, from : Address, size : Address, permissions : SUBSET {"RW", "US"},
         curr : Nat, last : Nat, paddr : Address, total_maps : Nat, busy : BOOLEAN]

\* The directory is the page kvm_create has just taken from the allocator.
Init ==
  /\ directory = RamStart
  /\ linked = {}
  /\ \E ram \in Garbage : words = [ram EXCEPT ![RamStart] = Recycled(@)]
  /\ free = [i \in 1..((RamEnd - RamStart) \div PGSIZE - 1) |-> RamStart + i * PGSIZE]
  /\ out = {directory}
  /\ call = NoCall
  /\ status = "running"

-----------------------------------------------------------------------------
(* vm_map_pages *)

begin(vaddr, paddr, size, permissions, last) ==
  /\ status = "running" /\ directory # NoPage /\ ~call.busy
  /\ call' = [vaddr |-> vaddr, from |-> paddr, size |-> size,
              permissions |-> permissions, total_maps |-> 0, busy |-> TRUE,
              curr |-> MM_PAGEDOWN(vaddr), paddr |-> paddr, last |-> last]
  /\ UNCHANGED <<words, free, out, directory, linked, status>>

\* Mutant: the end of the range is rounded down.
vm_map_pages_short(vaddr, paddr, size, permissions) ==
  begin(vaddr, paddr, size, permissions, MM_PAGEDOWN((vaddr + size) % ADDRSPACE))

vm_map_pages(vaddr, paddr, size, permissions) ==
  begin(vaddr, paddr, size, permissions, MM_PAGEUP((vaddr + size) % ADDRSPACE))

InLoop == status = "running" /\ call.busy /\ call.curr < call.last

\* Mutant: the assertion is left out.
NoAlignmentTest == TRUE

PageAligned == mm_is_page_aligned(call.curr) /\ mm_is_page_aligned(call.paddr)

DirEntry == words[directory][X86_PD_INDEX(call.curr)]

vm_map_page_assert ==
  /\ InLoop /\ ~PageAligned
  /\ status' = "align_assert"
  /\ UNCHANGED <<words, free, out, directory, linked, call>>

new_table(content) ==
  /\ InLoop /\ PageAligned
  /\ "P" \notin DirEntry.flags
  /\ FQ!Alloc
  /\ words' = [words EXCEPT
                 ![Head(free)] = content,
                 ![directory] = [@ EXCEPT ![X86_PD_INDEX(call.curr)] = TableEntry(Head(free))]]
  /\ linked' = linked \cup {X86_PD_INDEX(call.curr)}
  /\ UNCHANGED <<directory, call, status>>

\* Mutant: the new table is not zeroed.
vm_map_page_table_dirty == new_table(Recycled(words[Head(free)]))

\* The directory entry is not present: a page from kpalloc, zeroed, then linked.
vm_map_page_table == new_table(ZeroPage)

\* No page left: kpalloc goes through the null page (Pages!kpalloc_exhausted).
vm_map_page_exhausted ==
  /\ InLoop /\ PageAligned
  /\ "P" \notin DirEntry.flags
  /\ free = <<>>
  /\ status' = "null_page"
  /\ UNCHANGED <<words, free, out, directory, linked, call>>

\* The store into the table that a present entry of the directory leads to.
page_table == MM_VIRTADDR(DirEntry.frame)

store_entry ==
  /\ InLoop /\ PageAligned
  /\ "P" \in DirEntry.flags
  /\ IF page_table \in Page
     THEN words' = [words EXCEPT ![page_table] =
                     [@ EXCEPT ![X86_PT_INDEX(call.curr)] =
                                 PageEntry(call.paddr, call.permissions)]]
     ELSE words' = words
  /\ UNCHANGED <<free, out, directory, linked>>

\* The store, and the end of the loop's body.
vm_map_page_entry ==
  /\ X86_PD_INDEX(call.curr) \in linked
  /\ store_entry
  /\ call' = [call EXCEPT !.curr = @ + PGSIZE,
                          !.paddr = (@ + PGSIZE) % ADDRSPACE,
                          !.total_maps = @ + 1]
  /\ UNCHANGED status

\* A stale entry is taken for a table all the same.  The store may land in a
\* free page's list pointers, in a table, in the kernel or outside, and the
\* model ends here.
vm_map_page_stray ==
  /\ X86_PD_INDEX(call.curr) \notin linked
  /\ store_entry
  /\ status' = "stray_store"
  /\ UNCHANGED call

vm_map_pages_return ==
  /\ status = "running" /\ call.busy /\ ~(call.curr < call.last)
  /\ call' = NoCall
  /\ UNCHANGED <<words, free, out, directory, linked, status>>

MapStep ==
  \/ vm_map_page_assert
  \/ vm_map_page_table
  \/ vm_map_page_exhausted
  \/ vm_map_page_entry
  \/ vm_map_page_stray
  \/ vm_map_pages_return

\* The calls there can be.
Request == [vaddr : Address, paddr : Address, size : Address, permissions : SUBSET {"RW", "US"}]

\* vm_map_pages is called for any of the requests, again and again, each time
\* when the call before has returned.
MapNext(requests) ==
  \/ \E r \in requests : vm_map_pages(r.vaddr, r.paddr, r.size, r.permissions)
  \/ MapStep

MapSpec(requests) == Init /\ [][MapNext(requests)]_vars

-----------------------------------------------------------------------------
(* Properties. *)

TypeOK ==
  /\ words \in [Page -> [Index -> Entry]]
  /\ free \in Seq(Page)
  /\ out \subseteq Page
  /\ directory \in Page \cup {NoPage}
  /\ linked \subseteq Index
  /\ call \in Call
  /\ status \in {"running", "align_assert", "null_page", "stray_store"}

\* The table of a slot of the directory.
TableOf(i) == MM_VIRTADDR(words[directory][i].frame)

\* The pages of the slots that hold a present word of RAM's.
StalePages ==
  {p \in Frame : /\ directory # NoPage
                 /\ X86_PD_INDEX(p) \notin linked
                 /\ "P" \in words[directory][X86_PD_INDEX(p)].flags}

Strayed == status = "stray_store"

\* reserved: pages that are out and were never kpalloc's to hand out.
TablesDisjoint(reserved) ==
  directory # NoPage =>
    /\ \A i, j \in linked : TableOf(i) = TableOf(j) => i = j
    /\ \A i \in linked : TableOf(i) # directory /\ TableOf(i) \notin reserved
    /\ \A i \in 1..Len(free) : free[i] \notin out
    /\ out = reserved \cup {directory} \cup {TableOf(i) : i \in linked}

\* Until a stale word of the directory is used: no two slots that vm_map_page_
\* filled share a page table, no table is the directory or a free page, and the
\* allocator's pages that are out are the directory and its tables, none lost.
TablesPrivate == ~Strayed => TablesDisjoint({})

\* What the caller asked for, when the range does not run off the top of the
\* address space.
To(frame, permissions) ==
  [frame |-> frame % ADDRSPACE, rights |-> permissions]

Asked == PagesIn(MM_PAGEDOWN(call.vaddr), call.vaddr + call.size)

Returning == status = "running" /\ call.busy /\ ~(call.curr < call.last)

AskedIsMapped ==
  \A p \in Asked :
    Walk(p) = To(call.from + (p - MM_PAGEDOWN(call.vaddr)), call.permissions)

\* When vm_map_pages returns, every page that holds a byte of the range is
\* translated to its frame with the permissions asked for, even where an
\* earlier call had mapped it otherwise, and the count it returns is theirs.
MappedAsAsked ==
  Returning /\ call.vaddr + call.size + PGSIZE <= ADDRSPACE
    => AskedIsMapped /\ call.total_maps = Cardinality(Asked)

\* What the processor sees where no word is stale, and the pages the call still
\* has to map.
WalkMap == [p \in Frame \ StalePages |-> Walk(p)]

Todo == [p \in IF call.busy /\ mm_is_page_aligned(call.paddr)
               THEN PagesIn(call.curr, call.last) ELSE {} |->
           To(call.paddr + (p - call.curr), call.permissions)]

\* vm_map_pages implements the address space: whatever steps it takes on the
\* tables, the processor sees the pages of the call change one by one and no
\* other page change at all, unless the call reaches a page of a stale slot.
AS == INSTANCE AddressSpace WITH
        VPage <- Frame,
        Translation <- [frame : Frame, rights : SUBSET {"RW", "US"}],
        map <- WalkMap,
        todo <- Todo,
        stale <- StalePages,
        lost <- Strayed

AddressSpaceSpec == AS!Spec

=============================================================================
