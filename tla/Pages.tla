-------------------------------- MODULE Pages --------------------------------
(***************************************************************************)
(* The physical page allocator, kernel/mm/pages.c, on the list of          *)
(* utils/include/list.h.                                                   *)
(*                                                                         *)
(* A free page is its own list entry: its first words are a struct page    *)
(* (magic number and list_head).  The heap of ListHead therefore lies in   *)
(* the pages themselves, and whoever holds a page may leave anything in    *)
(* those words.  A page is named by its address; its list_head is named    *)
(* by the page.  pr_freepages is the registry's own list_head.             *)
(*                                                                         *)
(* The callers of the allocator are the environment.  They follow the one  *)
(* rule the code relies on and cannot check: a page is given back only by  *)
(* a caller that holds it.                                                 *)
(*                                                                         *)
(* The registry's spinlock does nothing (its operations are empty macros,  *)
(* and pr_shoud_lock is never set), and the only caller runs with          *)
(* interrupts off, so each function is one step; kpfree_range is a call,   *)
(* one step per page, and a return.                                        *)
(***************************************************************************)
EXTENDS ListHead, MemLayout

CONSTANTS
  RamStart,      \* the first page that can ever be on the free list
  RamEnd,        \* the address after the last one
  pr_freepages,  \* the list head inside registry_
  Junk           \* what a caller may leave in the words of a page it holds

Page == PagesIn(RamStart, RamEnd)
Node == Page \cup {pr_freepages}

ASSUME PagesAssumption ==
  /\ RamStart \in Nat \ {0}
  /\ RamEnd \in Nat /\ RamEnd + PGSIZE <= ADDRSPACE
  /\ NULL = 0
  /\ pr_freepages \notin Int
  /\ Junk \subseteq Node \cup {NULL}

VARIABLES
  heap,     \* the list_head of every page, and of the registry
  magic,    \* magic[p]: the first word of p is 0xDEADBEAF
  status,   \* "running", or why the kernel can go no further
  range,    \* the kpfree_range in progress, or NoRange
  fifo,     \* history: the pages on the free list, oldest first
  held      \* history: the pages the callers hold

vars == <<heap, magic, status, range, fifo, held>>

-----------------------------------------------------------------------------
NoRange == [start |-> 0, curr |-> 0, last |-> 0, before |-> {}, busy |-> FALSE]

\* LIST_HEAD_INIT, and RAM that holds anything.
Init ==
  /\ heap \in [next : [Node -> Junk \cup {pr_freepages}], prev : [Node -> Junk \cup {pr_freepages}]]
  /\ heap.next[pr_freepages] = pr_freepages /\ heap.prev[pr_freepages] = pr_freepages
  /\ magic = [p \in Page |-> FALSE]
  /\ status = "running"
  /\ range = NoRange
  /\ fifo = <<>>
  /\ held = Page

Idle == status = "running" /\ ~range.busy

-----------------------------------------------------------------------------
(* kpalloc *)

kpalloc ==
  LET page == list_first_entry_or_null(heap, pr_freepages)
  IN  /\ Idle
      /\ page # NULL
      /\ heap' = list_del(heap, page)
      /\ fifo' = Tail(fifo)
      /\ IF magic[page]
         THEN held' = held \cup {page} /\ status' = status
         ELSE held' = held /\ status' = "magic_assert"
      /\ UNCHANGED <<magic, range>>

\* The list is empty: list_del(&page->free_list) runs before the test of page
\* and reads through the null page.
kpalloc_exhausted ==
  /\ Idle
  /\ list_first_entry_or_null(heap, pr_freepages) = NULL
  /\ status' = "null_page"
  /\ UNCHANGED <<heap, magic, range, fifo, held>>

-----------------------------------------------------------------------------
(* kpfree *)

append(page) ==
  /\ heap' = list_add_tail(heap, page, pr_freepages)
  /\ fifo' = Append(fifo, page)
  /\ held' = held \ {page}

\* Mutant: the magic number is not stored.
give_back_unmarked(page) == append(page) /\ UNCHANGED magic

\* What kpfree does with an address that passes its assertion.
give_back(page) == append(page) /\ magic' = [magic EXCEPT ![page] = TRUE]

\* The assertion of kpfree lets the address pass.
valid(address) == address # NULL /\ mm_is_page_aligned(address)

\* The whole of kpfree.
free_page(address) ==
  IF valid(address)
  THEN give_back(address) /\ status' = status
  ELSE status' = "address_assert" /\ UNCHANGED <<heap, magic, fifo, held>>

kpfree(address) ==
  /\ Idle
  /\ valid(address) => address \in held
  /\ free_page(address)
  /\ UNCHANGED range

-----------------------------------------------------------------------------
(* kpfree_range *)

range_call(start, first, last) ==
  /\ Idle
  /\ PagesIn(first, last) \subseteq held
  /\ range' = [start |-> start, curr |-> first, last |-> last, before |-> held,
                busy |-> TRUE]
  /\ UNCHANGED <<heap, magic, status, fifo, held>>

\* Mutant: start is rounded down.
kpfree_range_down(start, end) == range_call(start, MM_PAGEDOWN(start), MM_PAGEUP(end))

\* The call: every page it is going to free is held by the caller.
kpfree_range(start, end) == range_call(start, MM_PAGEUP(start), MM_PAGEUP(end))

range_step(more) ==
  /\ status = "running"
  /\ range.busy
  /\ more
  /\ free_page(range.curr)
  /\ range' = [range EXCEPT !.curr = @ + PGSIZE]

range_return(over) ==
  /\ status = "running"
  /\ range.busy
  /\ over
  /\ range' = NoRange
  /\ UNCHANGED <<heap, magic, status, fifo, held>>

\* Mutants: the page at last is freed as well; the loop ends only when its
\* cursor meets last.
kpfree_range_step_over    == range_step(range.curr <= range.last)
kpfree_range_return_equal == range_return(range.curr = range.last)

kpfree_range_step   == range_step(range.curr < range.last)
kpfree_range_return == range_return(~(range.curr < range.last))

-----------------------------------------------------------------------------
\* A caller writes the words of a page it holds.
WritePage(page, next, prev) ==
  /\ Idle
  /\ page \in held
  /\ magic' = [magic EXCEPT ![page] = FALSE]
  /\ heap' = SetPrev(SetNext(heap, page, next), page, prev)
  /\ UNCHANGED <<status, range, fifo, held>>

Next ==
  \/ kpalloc
  \/ kpalloc_exhausted
  \/ \E address \in 0..RamEnd : kpfree(address)
  \/ \E start, end \in RamStart..RamEnd : kpfree_range(start, end)
  \/ kpfree_range_step
  \/ kpfree_range_return
  \/ \E page \in Page, next, prev \in Junk : WritePage(page, next, prev)

Spec == Init /\ [][Next]_vars

FairSpec == Spec /\ WF_vars(kpfree_range_step) /\ WF_vars(kpfree_range_return)

-----------------------------------------------------------------------------
(* Properties. *)

\* Every variable keeps its type.
TypeOK ==
  /\ heap \in Heap(Node)
  /\ magic \in [Page -> BOOLEAN]
  /\ status \in {"running", "magic_assert", "null_page", "address_assert"}
  /\ range \in [start : Nat, curr : Nat, last : Nat, before : SUBSET Page,
               busy : BOOLEAN]
  /\ fifo \in Seq(Page)
  /\ held \subseteq Page

\* The pointers that kpalloc and kpfree leave in the pages form one ring
\* through the registry, in both directions, with every free page on it once
\* and in the order in which the pages came back.
FreeListWhole ==
  /\ Ring(heap, pr_freepages, fifo)
  /\ Distinct(fifo)

\* A page is on the free list or with a caller, never both and never neither:
\* kpalloc hands no page out twice and kpfree loses none.
FreeOrHeld == \A p \in Page : p \in held <=> ~\E i \in 1..Len(fifo) : fifo[i] = p

\* The assertion of kpalloc on the magic number never fails, whatever the
\* callers wrote into the pages while they held them.
MagicAssertHolds == status # "magic_assert"

\* While kpfree_range runs it has given back exactly the whole pages from
\* start up to its cursor: in particular never the page that also holds
\* bytes below start (for kvm_init, the last page of the kernel's .bss).
RangeExact ==
  range.busy => held = range.before \ {p \in Page : range.start <= p /\ p < range.curr}

\* A call of kpfree_range returns.
RangeReturns == range.busy ~> ~range.busy

\* The allocator is a first-in first-out queue of page frames.
FQ == INSTANCE FrameQueue WITH Frame <- Page, queue <- fifo, out <- held

FrameQueueSpec == FQ!Spec

=============================================================================
