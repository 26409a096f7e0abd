------------------------------ MODULE KvmProofs ------------------------------
(***************************************************************************)
(* vm_map_pages keeps the tables of a directory private, maps what it is   *)
(* asked to map, and implements AddressSpace, for every page size, table   *)
(* size and allocator memory, whatever the calls ask.  The kernel's        *)
(* address space is built with it without touching the kernel, and         *)
(* translates exactly the kernel, for every place of .data, of the boot    *)
(* directory and of the end of the kernel.  The first part is about Vm,    *)
(* and cites nothing of Kvm.                                               *)
(*                                                                         *)
(* The argument about memory: a page comes from the allocator, so it is    *)
(* not out; what is out is the directory, the tables that vm_map_page_ put *)
(* in its slots (linked), and the pages that were never the allocator's to *)
(* hand out (reserved: none in Vm, the kernel's image in Kvm).  A linked   *)
(* slot is therefore a table of its own.  Any other slot holds what RAM    *)
(* held, the allocator's magic number among it: when it is not present, it *)
(* translates nothing until a table is put in it; when it is, its pages    *)
(* are stale, no step changes it, and the step that takes it for a table   *)
(* is the last.  A new table is then invisible to the processor's walk,    *)
(* and a new entry changes the walk of one page.                           *)
(*                                                                         *)
(* The argument about the kernel's translations: the three calls of        *)
(* vm_map_pages are one walk from the start of the kernel half to the end  *)
(* of the kernel.  Below the Frontier every page has its translation, from *)
(* it on no page has one; a step in the loop moves the frontier by the     *)
(* page whose entry it stores, and two pages do not share an entry.        *)
(***************************************************************************)
EXTENDS Kvm, MemLayoutLemmas, FiniteSetTheorems

TypeInv == TypeOK /\ (call.busy => directory # NoPage)

QueueInv ==
  /\ \A i, j \in 1..Len(free) : free[i] = free[j] => i = j
  /\ \A i \in 1..Len(free) : free[i] \notin out

\* What the directory holds, and what is out.
Tables(reserved) ==
  directory # NoPage =>
    /\ directory \notin reserved
    /\ \A i \in linked : words[directory][i].flags = {"P", "RW", "US"}
    /\ TablesDisjoint(reserved)

\* No stale word has been used.
VmInv(reserved) == ~Strayed /\ TypeInv /\ QueueInv /\ Tables(reserved)

\* What a step leaves alone.
Kept(reserved) == reserved \subseteq out' /\ \A p \in reserved : words'[p] = words[p]

\* Where a call started.
First == MM_PAGEDOWN(call.vaddr)

\* How far a call has got.
CallInv ==
  call.busy =>
    /\ call.last = MM_PAGEUP((call.vaddr + call.size) % ADDRSPACE)
    /\ mm_is_page_aligned(call.curr) /\ First <= call.curr
    /\ call.curr = First \/ call.curr <= call.last
    /\ call.paddr = (call.from + (call.curr - First)) % ADDRSPACE
    /\ call.total_maps * PGSIZE = call.curr - First
    /\ \A p \in PagesIn(First, call.curr) :
         X86_PD_INDEX(p) \in linked /\ Walk(p) = To(call.from + (p - First), call.permissions)

-----------------------------------------------------------------------------
(* Addresses. *)

\* A page of the allocator comes back from its physical address, which is that
\* of a frame.
LEMMA Virtual ==
  \A p \in Page : p \in Frame /\ MM_PHYSADDR(p) \in Frame /\ MM_VIRTADDR(MM_PHYSADDR(p)) = p
<1>1. /\ ADDRSPACE \in Nat \ {0} /\ KERNEL_BASE \in Nat /\ ADDRSPACE = KERNEL_BASE + KERNEL_BASE
      /\ PGSIZE \in Nat \ {0} /\ mm_is_page_aligned(KERNEL_BASE)
  BY HalfSpace
<1>2. \A p \in Page : p \in Int /\ KERNEL_BASE <= p /\ p < ADDRSPACE /\ mm_is_page_aligned(p)
  BY <1>1, VmAssumption DEF Page, PagesIn
<1>3. ASSUME NEW p \in Page
      PROVE  p \in Frame /\ MM_PHYSADDR(p) \in Frame /\ MM_VIRTADDR(MM_PHYSADDR(p)) = p
  <2>1. p - KERNEL_BASE \in 0..(ADDRSPACE - 1) /\ p \in 0..(ADDRSPACE - 1)
    BY <1>1, <1>2
  <2>2. MM_PHYSADDR(p) = p - KERNEL_BASE
    BY <1>1, <2>1, SmallMod DEF MM_PHYSADDR
  <2>3. (p - KERNEL_BASE) + KERNEL_BASE = p
    BY <1>1, <1>2
  <2>4. mm_is_page_aligned(p - KERNEL_BASE)
    BY <1>1, <1>2, AlignedSum
  <2>5. p \in Frame /\ MM_PHYSADDR(p) \in Frame
    BY <1>2, <2>1, <2>2, <2>4 DEF Frame, PagesIn
  <2>. QED
    BY <1>1, <2>1, <2>2, <2>3, <2>5, SmallMod DEF MM_VIRTADDR
<1>. QED
  BY <1>3

\* Indices are indices.
LEMMA Indices ==
  /\ \A a \in Int : X86_PD_INDEX(a) \in Index /\ X86_PT_INDEX(a) \in Index
  /\ {0, 1, 2} \subseteq Index
<1>1. NENTRIES \in Nat \ {0} /\ SPAN \in Nat \ {0} /\ PGSIZE \in Nat \ {0} /\ NENTRIES > 2
  BY HalfSpace, VmAssumption
<1>2. \A a \in Int : a \div SPAN \in Int /\ a \div PGSIZE \in Int
  BY <1>1, DivMod
<1>3. \A b \in Int : b % NENTRIES \in 0..(NENTRIES - 1)
  BY <1>1, DivMod
<1>. QED
  BY <1>1, <1>2, <1>3 DEF X86_PD_INDEX, X86_PT_INDEX, Index

\* Two pages do not share an entry.
LEMMA OneEntry ==
  ASSUME NEW p \in Frame, NEW q \in Frame,
         X86_PD_INDEX(p) = X86_PD_INDEX(q), X86_PT_INDEX(p) = X86_PT_INDEX(q)
  PROVE  p = q
<1>1. p \in Address /\ q \in Address /\ mm_is_page_aligned(p) /\ mm_is_page_aligned(q)
  BY DEF Frame, PagesIn, Address
<1>. QED
  BY <1>1, PageIndex

\* The end of a range is a page boundary of memory.
LEMMA RangeEnd ==
  ASSUME NEW a \in Int
  PROVE  MM_PAGEUP(a) \in Address /\ mm_is_page_aligned(MM_PAGEUP(a))
<1>1. PGSIZE \in Nat \ {0} /\ ADDRSPACE \in Nat \ {0}
  BY HalfSpace
<1>2. PICK b \in Address : b = (a + PGSIZE - 1) % ADDRSPACE
  <2>1. a + PGSIZE - 1 \in Int
    BY <1>1
  <2>. QED
    BY <2>1, AddressMod
<1>3. b \in Int /\ 0 <= b /\ b < ADDRSPACE
  BY <1>1, <1>2 DEF Address
<1>4. MM_PAGEDOWN(b) \in Int /\ mm_is_page_aligned(MM_PAGEDOWN(b)) /\ MM_PAGEDOWN(b) <= b
  BY <1>3, PageDown
<1>5. 0 <= MM_PAGEDOWN(b)
  <2>1. CASE MM_PAGEDOWN(b) < 0
    <3>1. MM_PAGEDOWN(b) + PGSIZE <= 0
      <4>1. PICK d \in Int : d = MM_PAGEDOWN(b) /\ d % PGSIZE = 0 /\ d < 0
        BY <1>4, <2>1 DEF mm_is_page_aligned
      <4>2. 0 % PGSIZE = 0
        BY <1>1
      <4>. QED
        BY <1>1, <4>1, <4>2, AlignedGap
    <3>2. b < MM_PAGEDOWN(b) + PGSIZE
      BY <1>3, PageDown
    <3>. QED
      BY <1>1, <1>3, <1>4, <3>1, <3>2
  <2>. QED
    BY <1>4, <2>1
<1>. QED
  BY <1>1, <1>2, <1>3, <1>4, <1>5 DEF MM_PAGEUP, Address

-----------------------------------------------------------------------------
(* The stores. *)

\* A step that leaves memory alone.
LEMMA VmStill ==
  ASSUME NEW reserved, VmInv(reserved), UNCHANGED <<words, free, out, directory, linked>>,
         call' \in Call,
         call'.busy => directory # NoPage,
         status' \in {"running", "align_assert", "null_page"}
  PROVE  VmInv(reserved)' /\ StalePages' = StalePages /\ \A p : Walk(p)' = Walk(p)
<1>1. \A i : TableOf(i)' = TableOf(i)
  BY DEF TableOf
<1>2. TypeInv' /\ QueueInv' /\ ~Strayed'
  BY DEF VmInv, TypeInv, TypeOK, Call, QueueInv, Strayed
<1>3. Tables(reserved)'
  BY <1>1 DEF VmInv, Tables, TablesDisjoint
<1>4. StalePages' = StalePages /\ \A p : Walk(p)' = Walk(p)
  BY DEF Walk, StalePages
<1>. QED
  BY <1>2, <1>3, <1>4 DEF VmInv

\* A page from the allocator was not out.
LEMMA AllocTakes ==
  ASSUME TypeInv, QueueInv, FQ!Alloc
  PROVE  /\ Head(free) \in Page /\ Head(free) \notin out
         /\ out' = out \cup {Head(free)} /\ out' \subseteq Page
         /\ free' \in Seq(Page) /\ QueueInv'
<1>1. free # <<>> /\ free' = Tail(free) /\ out' = out \cup {Head(free)}
  BY DEF FQ!Alloc
<1>2. free \in Seq(Page) /\ out \subseteq Page
  BY DEF TypeInv, TypeOK, Call
<1>3. PICK n \in Nat \ {0} : n = Len(free)
  BY <1>1, <1>2
<1>4. /\ Head(free) = free[1] /\ Tail(free) \in Seq(Page) /\ Len(Tail(free)) = n - 1
      /\ \A i \in 1..(n - 1) : Tail(free)[i] = free[i + 1]
      /\ \A i \in 1..n : free[i] \in Page
  BY <1>1, <1>2, <1>3
<1>5. \A i, j \in 1..n : free[i] = free[j] => i = j
  BY <1>3 DEF QueueInv
<1>6. \A i \in 1..n : free[i] \notin out
  BY <1>3 DEF QueueInv
<1>7. \A i \in 1..(n - 1) : i + 1 \in 1..n /\ i + 1 # 1
  BY <1>3
<1>8. QueueInv'
  <2>1. \A i, j \in 1..(n - 1) : free'[i] = free'[j] => i = j
    <3>. TAKE i, j \in 1..(n - 1)
    <3>1. i + 1 \in 1..n /\ j + 1 \in 1..n /\ (i + 1 = j + 1 => i = j)
      BY <1>7
    <3>. QED
      BY <1>1, <1>4, <1>5, <3>1
  <2>2. \A i \in 1..(n - 1) : free'[i] \notin out'
    <3>. TAKE i \in 1..(n - 1)
    <3>1. i + 1 \in 1..n /\ i + 1 # 1 /\ 1 \in 1..n
      BY <1>3, <1>7
    <3>2. free[i + 1] # free[1]
      BY <1>5, <3>1
    <3>. QED
      BY <1>1, <1>4, <1>6, <3>1, <3>2
  <2>. QED
    BY <1>1, <1>4, <2>1, <2>2 DEF QueueInv
<1>. QED
  BY <1>1, <1>2, <1>3, <1>4, <1>6, <1>8

\* A slot that got a table leads to it.
LEMMA Slot ==
  ASSUME NEW reserved, VmInv(reserved), directory # NoPage, NEW i \in linked
  PROVE  /\ i \in Index /\ words[directory][i].flags = {"P", "RW", "US"}
         /\ TableOf(i) \in Page /\ TableOf(i) \in out /\ TableOf(i) # directory
         /\ TableOf(i) \notin reserved
BY DEF VmInv, Tables, TablesDisjoint, TypeInv, TypeOK

\* The slot of a page that is not stale has a table, or nothing.
LEMMA Fresh ==
  ASSUME directory # NoPage, NEW p \in Frame, p \notin StalePages
  PROVE  X86_PD_INDEX(p) \in linked \/ "P" \notin words[directory][X86_PD_INDEX(p)].flags
BY DEF StalePages

\* What vm_map_page_ stores for a new table, and where.
TableStored(reserved, h, d, k) ==
  /\ d = directory /\ d # NoPage /\ k = X86_PD_INDEX(call.curr) /\ k \notin linked
  /\ h = Head(free) /\ h \notin out /\ out' = out \cup {h}
  /\ "P" \notin words[d][k].flags
  /\ d # h /\ d \in out /\ d \notin reserved /\ h \notin reserved
  /\ words' = [words EXCEPT ![h] = ZeroPage, ![d] = [@ EXCEPT ![k] = TableEntry(h)]]
  /\ words'[h] = ZeroPage
  /\ words'[d] = [words[d] EXCEPT ![k] = TableEntry(h)]
  /\ \A p \in Page \ {h, d} : words'[p] = words[p]
  /\ \A i \in Index \ {k} : words'[d][i] = words[d][i]
  /\ words'[d][k] = TableEntry(h)
  /\ linked' = linked \cup {k}
  /\ (\A i \in linked : TableOf(i)' = TableOf(i)) /\ TableOf(k)' = h

LEMMA NewTableStores ==
  ASSUME NEW reserved, VmInv(reserved), vm_map_page_table
  PROVE  \E h, d \in Page, k \in Index : TableStored(reserved, h, d, k)
<1>1. /\ InLoop /\ "P" \notin DirEntry.flags /\ FQ!Alloc
      /\ words' = [words EXCEPT ![Head(free)] = ZeroPage,
                    ![directory] = [@ EXCEPT ![X86_PD_INDEX(call.curr)] = TableEntry(Head(free))]]
      /\ linked' = linked \cup {X86_PD_INDEX(call.curr)} /\ UNCHANGED directory
  BY DEF vm_map_page_table, new_table
<1>2. TypeInv /\ QueueInv /\ Tables(reserved)
  BY DEF VmInv
<1>3. PICK h \in Page : h = Head(free) /\ h \notin out /\ out' = out \cup {h}
  BY <1>1, <1>2, AllocTakes
<1>4. PICK k \in Index : k = X86_PD_INDEX(call.curr)
  BY <1>2, Indices DEF TypeInv, TypeOK, Call
<1>5. PICK d \in Page : d = directory /\ directory # NoPage
  BY <1>1, <1>2 DEF InLoop, TypeInv, TypeOK, Call
<1>6. d # h /\ d \in out /\ d \notin reserved /\ h \notin reserved
  BY <1>2, <1>3, <1>5 DEF Tables, TablesDisjoint
<1>7. /\ words' = [words EXCEPT ![h] = ZeroPage, ![d] = [@ EXCEPT ![k] = TableEntry(h)]]
      /\ words'[h] = ZeroPage
      /\ words'[d] = [words[d] EXCEPT ![k] = TableEntry(h)]
      /\ \A p \in Page \ {h, d} : words'[p] = words[p]
  BY <1>1, <1>2, <1>3, <1>4, <1>5, <1>6 DEF TypeInv, TypeOK, Call
<1>8. /\ \A i \in Index \ {k} : words'[d][i] = words[d][i]
      /\ words'[d][k] = TableEntry(h)
  BY <1>2, <1>7 DEF TypeInv, TypeOK, Call
<1>9. k \notin linked /\ "P" \notin words[d][k].flags
  BY <1>1, <1>2, <1>4, <1>5 DEF DirEntry, Tables
<1>10. linked' = linked \cup {k}
  BY <1>1, <1>4
<1>11. (\A i \in linked : TableOf(i)' = TableOf(i)) /\ TableOf(k)' = h
  <2>1. \A i \in linked : i \in Index \ {k}
    BY <1>2, <1>9 DEF TypeInv, TypeOK
  <2>2. TableEntry(h).frame = MM_PHYSADDR(h)
    BY DEF TableEntry
  <2>. QED
    BY <1>1, <1>5, <1>8, <2>1, <2>2, Virtual DEF TableOf
<1>. QED
  BY <1>3, <1>4, <1>5, <1>6, <1>7, <1>8, <1>9, <1>10, <1>11 DEF TableStored

LEMMA NewTableInv ==
  ASSUME NEW reserved, VmInv(reserved), vm_map_page_table
  PROVE  /\ VmInv(reserved)' /\ (reserved \subseteq out => Kept(reserved))
         /\ StalePages' = StalePages
<1>1. FQ!Alloc /\ UNCHANGED <<directory, call, status>>
  BY DEF vm_map_page_table, new_table
<1>2. TypeInv /\ QueueInv /\ Tables(reserved)
  BY DEF VmInv
<1>0. PICK h, d \in Page, k \in Index : TableStored(reserved, h, d, k)
  BY NewTableStores
<1>3. /\ d = directory /\ d # NoPage /\ k \notin linked
      /\ h \notin out /\ out' = out \cup {h}
      /\ d # h /\ d \in out /\ d \notin reserved /\ h \notin reserved
      /\ words' = [words EXCEPT ![h] = ZeroPage, ![d] = [@ EXCEPT ![k] = TableEntry(h)]]
      /\ \A p \in Page \ {h, d} : words'[p] = words[p]
      /\ words'[h] = ZeroPage
      /\ \A i \in Index \ {k} : words'[d][i] = words[d][i]
      /\ words'[d][k] = TableEntry(h)
      /\ linked' = linked \cup {k}
      /\ (\A i \in linked : TableOf(i)' = TableOf(i)) /\ TableOf(k)' = h
  BY <1>0 DEF TableStored
<1>4. Zero \in Entry /\ TableEntry(h) \in Entry
  <2>1. 0 \in Frame
    <3>1. PGSIZE \in Nat \ {0} /\ ADDRSPACE \in Nat \ {0}
      BY HalfSpace
    <3>. QED
      BY <3>1 DEF Frame, PagesIn, mm_is_page_aligned
  <2>. QED
    BY <2>1, Virtual DEF Zero, TableEntry, Entry, Flag
<1>5. words' \in [Page -> [Index -> Entry]]
  <2>1. ZeroPage \in [Index -> Entry]
    BY <1>4 DEF ZeroPage
  <2>2. [words[d] EXCEPT ![k] = TableEntry(h)] \in [Index -> Entry]
    BY <1>2, <1>4 DEF TypeInv, TypeOK, Call
  <2>. QED
    BY <1>2, <1>3, <2>1, <2>2 DEF TypeInv, TypeOK, Call
<1>6. TypeInv' /\ QueueInv'
  BY <1>1, <1>2, <1>3, <1>5, AllocTakes DEF TypeInv, TypeOK, Call
<1>7. StalePages' = StalePages
  <2>1. "P" \notin words[d][k].flags
    BY <1>0 DEF TableStored
  <2>2. \A p \in Frame : X86_PD_INDEX(p) \in Index
    BY Indices DEF Frame, PagesIn
  <2>. QED
    BY <1>1, <1>3, <2>1, <2>2 DEF StalePages
<1>8. \A i \in linked : TableOf(i) \in out
  BY <1>2, <1>3 DEF Tables, TablesDisjoint
<1>9. TablesDisjoint(reserved)'
  <2>1. \A i, j \in linked' : TableOf(i)' = TableOf(j)' => i = j
    BY <1>2, <1>3, <1>8 DEF Tables, TablesDisjoint
  <2>2. \A i \in linked' : TableOf(i)' # directory' /\ TableOf(i)' \notin reserved
    BY <1>1, <1>2, <1>3 DEF Tables, TablesDisjoint
  <2>3. \A i \in 1..Len(free') : free'[i] \notin out'
    BY <1>6 DEF QueueInv
  <2>4. out' = reserved \cup {directory'} \cup {TableOf(i)' : i \in linked'}
    <3>1. out = reserved \cup {directory} \cup {TableOf(i) : i \in linked}
      BY <1>2, <1>3 DEF Tables, TablesDisjoint
    <3>2. {TableOf(i)' : i \in linked'} = {TableOf(i) : i \in linked} \cup {h}
      BY <1>3
    <3>. QED
      BY <1>1, <1>3, <3>1, <3>2
  <2>. QED
    BY <2>1, <2>2, <2>3, <2>4 DEF TablesDisjoint
<1>10. Tables(reserved)'
  <2>1. TableEntry(h).flags = {"P", "RW", "US"}
    BY DEF TableEntry
  <2>2. \A i \in linked' : words'[d][i].flags = {"P", "RW", "US"}
    BY <1>2, <1>3, <2>1 DEF Tables, TypeInv, TypeOK
  <2>. QED
    BY <1>1, <1>2, <1>3, <1>9, <2>2 DEF Tables
<1>11. reserved \subseteq out => Kept(reserved)
  BY <1>2, <1>3 DEF Kept, TypeInv, TypeOK, Call
<1>12. ~Strayed'
  BY <1>1 DEF VmInv, Strayed
<1>. QED
  BY <1>6, <1>7, <1>10, <1>11, <1>12 DEF VmInv

\* What vm_map_page_ stores for a page, and where.
EntryStored(reserved, t, d, k, j) ==
  /\ d = directory /\ d # NoPage
  /\ k = X86_PD_INDEX(call.curr) /\ j = X86_PT_INDEX(call.curr)
  /\ k \in linked /\ t = TableOf(k)
  /\ t \notin reserved /\ t # d /\ t \in out
  /\ words' = [words EXCEPT ![t] = [@ EXCEPT ![j] = PageEntry(call.paddr, call.permissions)]]
  /\ \A p \in Page \ {t} : words'[p] = words[p]
  /\ words'[t] = [words[t] EXCEPT ![j] = PageEntry(call.paddr, call.permissions)]
  /\ linked' = linked /\ \A i \in linked : TableOf(i)' = TableOf(i)

LEMMA NewEntryStores ==
  ASSUME NEW reserved, VmInv(reserved), vm_map_page_entry
  PROVE  \E t, d \in Page, k, j \in Index : EntryStored(reserved, t, d, k, j)
<1>1. InLoop /\ X86_PD_INDEX(call.curr) \in linked /\ UNCHANGED <<directory, linked>>
  BY DEF vm_map_page_entry, store_entry
<1>2. TypeInv /\ Tables(reserved)
  BY DEF VmInv
<1>3. PICK k, j \in Index : k = X86_PD_INDEX(call.curr) /\ j = X86_PT_INDEX(call.curr)
  BY <1>2, Indices DEF TypeInv, TypeOK, Call
<1>4. PICK d \in Page : d = directory /\ d # NoPage
  BY <1>1, <1>2 DEF InLoop, TypeInv, TypeOK, Call
<1>5. k \in linked /\ \A i \in linked : TableOf(i) \in Page
  BY <1>1, <1>3, <1>4, Slot
<1>6. PICK t \in Page :
        /\ t = TableOf(k) /\ t \notin reserved /\ t # d /\ t \in out /\ t = page_table
  BY <1>3, <1>4, <1>5, Slot DEF page_table, DirEntry, TableOf
<1>7. /\ words' = [words EXCEPT ![t] = [@ EXCEPT ![j] = PageEntry(call.paddr, call.permissions)]]
      /\ \A p \in Page \ {t} : words'[p] = words[p]
      /\ words'[t] = [words[t] EXCEPT ![j] = PageEntry(call.paddr, call.permissions)]
  BY <1>2, <1>3, <1>6 DEF vm_map_page_entry, store_entry, TypeInv, TypeOK, Call
<1>8. linked' = linked /\ \A i \in linked : TableOf(i)' = TableOf(i)
  BY <1>1, <1>4, <1>6, <1>7 DEF TableOf
<1>. QED
  BY <1>3, <1>4, <1>5, <1>6, <1>7, <1>8 DEF EntryStored

\* The call after an entry is stored.
LEMMA NextPage ==
  ASSUME TypeInv, vm_map_page_entry
  PROVE  /\ call'.curr = call.curr + PGSIZE /\ call'.paddr = (call.paddr + PGSIZE) % ADDRSPACE
         /\ call'.total_maps = call.total_maps + 1
         /\ call'.vaddr = call.vaddr /\ call'.from = call.from /\ call'.size = call.size
         /\ call'.permissions = call.permissions /\ call'.last = call.last /\ call'.busy = call.busy
         /\ call' \in Call
<1>1. /\ call' = [call EXCEPT !.curr = @ + PGSIZE, !.paddr = (@ + PGSIZE) % ADDRSPACE,
                              !.total_maps = @ + 1]
  BY DEF vm_map_page_entry
<1> DEFINE a == [call EXCEPT !.curr = @ + PGSIZE]
           b == [a EXCEPT !.paddr = (@ + PGSIZE) % ADDRSPACE]
           c == [b EXCEPT !.total_maps = @ + 1]
           Same(x, y) == /\ x.vaddr = y.vaddr /\ x.from = y.from /\ x.size = y.size
                         /\ x.permissions = y.permissions /\ x.last = y.last /\ x.busy = y.busy
<1>2. PGSIZE \in Nat /\ ADDRSPACE \in Nat \ {0}
  BY HalfSpace
<1>3. call \in Call
  BY DEF TypeInv, TypeOK, Call
<1>4. a \in Call /\ a.curr = call.curr + PGSIZE /\ a.paddr = call.paddr
      /\ a.total_maps = call.total_maps /\ Same(a, call)
  <2>1. call.curr + PGSIZE \in Nat
    BY <1>2, <1>3 DEF Call
  <2>. QED
    BY <1>3, <2>1 DEF Call
<1>5. b \in Call /\ b.curr = a.curr /\ b.paddr = (a.paddr + PGSIZE) % ADDRSPACE
      /\ b.total_maps = a.total_maps /\ Same(b, a)
  <2>. HIDE DEF a
  <2>1. a.paddr + PGSIZE \in Int
    BY <1>2, <1>4 DEF Address, Call
  <2>2. (a.paddr + PGSIZE) % ADDRSPACE \in Address
    BY <2>1, AddressMod
  <2>. QED
    BY <1>4, <2>2 DEF Call
<1>6. c \in Call /\ c.curr = b.curr /\ c.paddr = b.paddr /\ c.total_maps = b.total_maps + 1
      /\ Same(c, b)
  <2>. HIDE DEF b
  <2>. QED
    BY <1>5 DEF Call
<1>7. call' = c
  BY <1>1, Zenon
<1>. HIDE DEF a, b, c
<1>. QED
  BY <1>4, <1>5, <1>6, <1>7

LEMMA NewEntryInv ==
  ASSUME NEW reserved, VmInv(reserved), vm_map_page_entry
  PROVE  /\ VmInv(reserved)' /\ (reserved \subseteq out => Kept(reserved))
         /\ StalePages' = StalePages
<1>1. InLoop /\ PageAligned /\ UNCHANGED <<free, out, directory, linked, status>>
  BY DEF vm_map_page_entry, store_entry
<1>2. TypeInv /\ QueueInv /\ Tables(reserved)
  BY DEF VmInv
<1>0. PICK t, d \in Page, k, j \in Index : EntryStored(reserved, t, d, k, j)
  BY NewEntryStores
<1>3. /\ d = directory /\ d # NoPage
      /\ t \notin reserved /\ t # d /\ t \in out
      /\ words' = [words EXCEPT ![t] = [@ EXCEPT ![j] = PageEntry(call.paddr, call.permissions)]]
      /\ \A p \in Page \ {t} : words'[p] = words[p]
      /\ linked' = linked /\ \A i \in linked : TableOf(i)' = TableOf(i)
  BY <1>0 DEF EntryStored
<1>4. words' \in [Page -> [Index -> Entry]]
  <2>1. call.paddr \in Frame /\ call.permissions \in SUBSET {"RW", "US"}
    BY <1>1, <1>2 DEF TypeInv, TypeOK, Call, PageAligned, Frame, PagesIn, Address
  <2>2. PageEntry(call.paddr, call.permissions) \in Entry
    BY <2>1 DEF PageEntry, Entry, Flag
  <2>. QED
    BY <1>2, <1>3, <2>2 DEF TypeInv, TypeOK, Call
<1>5. TypeInv' /\ QueueInv'
  BY <1>1, <1>2, <1>4, NextPage DEF TypeInv, TypeOK, Call, QueueInv
<1>6. StalePages' = StalePages
  BY <1>1, <1>3 DEF StalePages
<1>7. Tables(reserved)'
  BY <1>1, <1>2, <1>3 DEF Tables, TablesDisjoint
<1>8. reserved \subseteq out => Kept(reserved)
  BY <1>1, <1>2, <1>3 DEF Kept, TypeInv, TypeOK, Call
<1>9. ~Strayed'
  BY <1>1 DEF VmInv, Strayed
<1>. QED
  BY <1>5, <1>6, <1>7, <1>8, <1>9 DEF VmInv

\* The store through a stale word leaves words in memory.
LEMMA StrayTypes ==
  ASSUME TypeInv, vm_map_page_stray
  PROVE  TypeInv' /\ Strayed'
<1>1. PageAligned /\ UNCHANGED <<free, out, directory, linked, call>> /\ Strayed'
  BY DEF vm_map_page_stray, store_entry, Strayed
<1>2. PICK j \in Index : j = X86_PT_INDEX(call.curr)
  BY Indices DEF TypeInv, TypeOK, Call
<1>3. PageEntry(call.paddr, call.permissions) \in Entry
  <2>1. call.paddr \in Frame /\ call.permissions \in SUBSET {"RW", "US"}
    BY <1>1 DEF TypeInv, TypeOK, Call, PageAligned, Frame, PagesIn, Address
  <2>. QED
    BY <2>1 DEF PageEntry, Entry, Flag
<1>4. words' \in [Page -> [Index -> Entry]]
  <2>1. words \in [Page -> [Index -> Entry]]
    BY DEF TypeInv, TypeOK
  <2>2. CASE page_table \in Page
    <3>1. PICK t \in Page : t = page_table
      BY <2>2
    <3>2. words' = [words EXCEPT ![t] = [@ EXCEPT ![j] = PageEntry(call.paddr, call.permissions)]]
      BY <1>2, <3>1 DEF vm_map_page_stray, store_entry
    <3>. QED
      BY <1>3, <2>1, <3>2
  <2>3. CASE page_table \notin Page
    BY <2>1, <2>3 DEF vm_map_page_stray, store_entry
  <2>. QED
    BY <2>2, <2>3
<1>. QED
  BY <1>1, <1>4 DEF TypeInv, TypeOK, Strayed

-----------------------------------------------------------------------------
(* The processor's walk. *)

\* A table of zeros changes no translation.
LEMMA TableWalk ==
  ASSUME NEW reserved, VmInv(reserved), vm_map_page_table, NEW p \in Frame, p \notin StalePages
  PROVE  Walk(p)' = Walk(p)
<1>1. UNCHANGED directory /\ TypeInv
  BY DEF vm_map_page_table, new_table, VmInv
<1>0. PICK h, d \in Page, k \in Index : TableStored(reserved, h, d, k)
  BY NewTableStores
<1>2. /\ d = directory /\ d # NoPage /\ h \notin out /\ d # h /\ "P" \notin words[d][k].flags
      /\ words'[h] = ZeroPage
      /\ \A q \in Page \ {h, d} : words'[q] = words[q]
      /\ \A i \in Index \ {k} : words'[d][i] = words[d][i]
      /\ words'[d][k] = TableEntry(h)
  BY <1>0 DEF TableStored
<1>3. PICK i, j \in Index : i = X86_PD_INDEX(p) /\ j = X86_PT_INDEX(p)
  BY Indices DEF Frame, PagesIn
<1>4. CASE i = k
  <2>1. Walk(p) = Unmapped
    BY <1>2, <1>3, <1>4 DEF Walk
  <2>2. /\ words'[d][i].flags = {"P", "RW", "US"} /\ MM_VIRTADDR(words'[d][i].frame) = h
        /\ "P" \notin words'[h][j].flags
    BY <1>2, <1>4, Virtual DEF TableEntry, ZeroPage, Zero
  <2>3. Walk(p)' = Unmapped
    BY <1>1, <1>2, <1>3, <2>2 DEF Walk
  <2>. QED
    BY <2>1, <2>3
<1>5. CASE i # k
  <2>1. words'[d][i] = words[d][i]
    BY <1>2, <1>5
  <2>2. CASE i \in linked
    <3>1. PICK t \in Page \ {h, d} : t = MM_VIRTADDR(words[d][i].frame)
      BY <1>2, <2>2, Slot DEF TableOf
    <3>. QED
      BY <1>1, <1>2, <1>3, <2>1, <3>1 DEF Walk
  <2>3. CASE i \notin linked
    <3>1. "P" \notin words[d][i].flags
      BY <1>2, <1>3, <2>3, Fresh
    <3>. QED
      BY <1>1, <1>2, <1>3, <2>1, <3>1 DEF Walk
  <2>. QED
    BY <2>2, <2>3
<1>. QED
  BY <1>4, <1>5

\* An entry changes the translation of its page, to what the call asks, and of
\* no other.
LEMMA EntryWalk ==
  ASSUME NEW reserved, VmInv(reserved), vm_map_page_entry, call.curr \in Frame,
         NEW p \in Frame, p \notin StalePages
  PROVE  Walk(p)' = IF p = call.curr THEN [frame |-> call.paddr, rights |-> call.permissions] ELSE Walk(p)
<1>1. UNCHANGED directory /\ TypeInv
  BY DEF vm_map_page_entry, store_entry, VmInv
<1>0. PICK t, d \in Page, k, j \in Index : EntryStored(reserved, t, d, k, j)
  BY NewEntryStores
<1>2. /\ d = directory /\ d # NoPage
      /\ k = X86_PD_INDEX(call.curr) /\ j = X86_PT_INDEX(call.curr)
      /\ k \in linked /\ t = TableOf(k) /\ t # d
      /\ \A q \in Page \ {t} : words'[q] = words[q]
      /\ words'[t] = [words[t] EXCEPT ![j] = PageEntry(call.paddr, call.permissions)]
  BY <1>0 DEF EntryStored
<1>3. PICK i, n \in Index : i = X86_PD_INDEX(p) /\ n = X86_PT_INDEX(p)
  BY Indices DEF Frame, PagesIn
<1>4. words'[d] = words[d]
  BY <1>2
<1>5. /\ words[t] \in [Index -> Entry]
      /\ words'[t][j] = PageEntry(call.paddr, call.permissions)
      /\ \A m \in Index \ {j} : words'[t][m] = words[t][m]
  BY <1>1, <1>2 DEF TypeInv, TypeOK, Call
<1>6. CASE p = call.curr
  <2>1. words[d][i].flags = {"P", "RW", "US"} /\ MM_VIRTADDR(words[d][i].frame) = t
    BY <1>2, <1>3, <1>6, Slot DEF TableOf
  <2>2. call.permissions \in SUBSET {"RW", "US"}
    BY <1>1 DEF TypeInv, TypeOK, Call
  <2>3. /\ "P" \in words'[t][j].flags /\ words'[t][j].frame = call.paddr
        /\ {"P", "RW", "US"} \cap words'[t][j].flags \cap {"RW", "US"} = call.permissions
    BY <1>5, <2>2 DEF PageEntry
  <2>4. "P" \in words[d][i].flags /\ "PS" \notin words[d][i].flags /\ t \in Page
    BY <2>1
  <2>5. Walk(p)' = [frame |-> words'[t][j].frame,
                    rights |-> words[d][i].flags \cap words'[t][j].flags \cap {"RW", "US"}]
    BY <1>1, <1>2, <1>3, <1>4, <1>6, <2>1, <2>3, <2>4 DEF Walk
  <2>. QED
    BY <1>6, <2>1, <2>3, <2>5
<1>7. CASE p # call.curr
  <2>1. CASE i \notin linked
    <3>1. "P" \notin words[d][i].flags
      BY <1>2, <1>3, <2>1, Fresh
    <3>. QED
      BY <1>1, <1>2, <1>3, <1>4, <1>7, <3>1 DEF Walk
  <2>2. CASE i \in linked
    <3>1. PICK s \in Page : s = TableOf(i) /\ s = MM_VIRTADDR(words[d][i].frame)
      BY <1>2, <2>2, Slot DEF TableOf
    <3>2. words'[s][n] = words[s][n]
      <4>1. CASE s # t
        BY <1>2, <4>1
      <4>2. CASE s = t
        <5>1. i = k
          BY <1>2, <2>2, <3>1, <4>2 DEF VmInv, Tables, TablesDisjoint
        <5>2. n # j
          BY <1>2, <1>3, <1>7, <5>1, OneEntry
        <5>. QED
          BY <1>5, <4>2, <5>2
      <4>. QED
        BY <4>1, <4>2
    <3>. QED
      BY <1>1, <1>2, <1>3, <1>4, <1>7, <3>1, <3>2 DEF Walk
  <2>. QED
    BY <2>1, <2>2
<1>. QED
  BY <1>6, <1>7

-----------------------------------------------------------------------------
(* The call. *)

\* Which page a call works on, while it has pages left.
LEMMA Current ==
  ASSUME TypeInv, CallInv, InLoop
  PROVE  /\ call.curr \in Frame /\ call.curr + PGSIZE <= call.last
         /\ mm_is_page_aligned(call.last) /\ call.last \in Address
         /\ mm_is_page_aligned(call.curr + PGSIZE)
<1>1. PICK g, m \in Nat \ {0} : g = PGSIZE /\ m = ADDRSPACE
  BY HalfSpace
<1>2. call.vaddr \in Address /\ call.size \in Address /\ call.curr \in Nat /\ call.last \in Nat
  BY DEF TypeInv, TypeOK, Call
<1>3. call.last \in Address /\ mm_is_page_aligned(call.last)
  <2>1. (call.vaddr + call.size) % ADDRSPACE \in Int
    <3>1. call.vaddr + call.size \in Int
      BY <1>2 DEF Address
    <3>. QED
      BY <3>1, AddressMod DEF Address
  <2>. QED
    BY <2>1, RangeEnd DEF CallInv, InLoop
<1>4. mm_is_page_aligned(call.curr) /\ call.curr < call.last
  BY DEF CallInv, InLoop
<1>5. call.curr + g <= call.last
  BY <1>1, <1>2, <1>3, <1>4, AlignedGap DEF mm_is_page_aligned
<1>6. mm_is_page_aligned(call.curr + g)
  BY <1>1, <1>2, <1>4, AlignedStep DEF mm_is_page_aligned
<1>7. call.curr \in Frame
  BY <1>1, <1>2, <1>3, <1>4 DEF Frame, PagesIn, Address
<1>. QED
  BY <1>1, <1>3, <1>5, <1>6, <1>7

\* The pages of a range, one after the other.
LEMMA NextBoundary ==
  ASSUME NEW c \in Int, NEW p \in Int, mm_is_page_aligned(c), mm_is_page_aligned(p)
  PROVE  (p < c + PGSIZE <=> p <= c) /\ (c + PGSIZE <= p <=> c < p)
<1>1. PICK g \in Nat \ {0} : g = PGSIZE
  BY HalfSpace
<1>2. c < p => c + g <= p
  BY <1>1, AlignedGap DEF mm_is_page_aligned
<1>. QED
  BY <1>1, <1>2

LEMMA LastInRange ==
  ASSUME NEW from \in Int, NEW c \in Int, mm_is_page_aligned(c), from <= c
  PROVE  PagesIn(from, c + PGSIZE) = PagesIn(from, c) \cup {c} /\ c \notin PagesIn(from, c)
<1>1. PGSIZE \in Nat \ {0}
  BY HalfSpace
<1>2. \A p \in Int : mm_is_page_aligned(p) => (p < c + PGSIZE <=> p <= c)
  BY NextBoundary
<1>. QED
  BY <1>1, <1>2 DEF PagesIn

LEMMA FirstInRange ==
  ASSUME NEW c \in Int, NEW to \in Int, mm_is_page_aligned(c), c < to
  PROVE  PagesIn(c, to) = PagesIn(c + PGSIZE, to) \cup {c} /\ c \notin PagesIn(c + PGSIZE, to)
<1>1. PGSIZE \in Nat \ {0}
  BY HalfSpace
<1>2. \A p \in Int : mm_is_page_aligned(p) => (c + PGSIZE <= p <=> c < p)
  BY NextBoundary
<1>. QED
  BY <1>1, <1>2 DEF PagesIn

\* A frame moved on by whole pages, in two parts or in one.
LEMMA FrameMoves ==
  ASSUME NEW a \in Int, NEW b \in Int, NEW permissions
  PROVE  To((a % ADDRSPACE) + b, permissions) = To(a + b, permissions)
BY HalfSpace, ModShift DEF To

\* One page more.
LEMMA CountOne ==
  ASSUME NEW n \in Int, NEW g \in Int, NEW d \in Int, n * g = d
  PROVE  (n + 1) * g = d + g
OBVIOUS

LEMMA BeginCall ==
  ASSUME NEW r \in Request, vm_map_pages(r.vaddr, r.paddr, r.size, r.permissions)
  PROVE  /\ CallInv' /\ ~call.busy /\ call'.busy /\ directory # NoPage
         /\ call' \in Call
<1>1. /\ ~call.busy /\ directory # NoPage
      /\ call' = [vaddr |-> r.vaddr, from |-> r.paddr, size |-> r.size,
                  permissions |-> r.permissions, total_maps |-> 0, busy |-> TRUE,
                  curr |-> MM_PAGEDOWN(r.vaddr), paddr |-> r.paddr,
                  last |-> MM_PAGEUP((r.vaddr + r.size) % ADDRSPACE)]
  BY DEF vm_map_pages, begin
<1>2. PICK v, p, s \in Address : v = r.vaddr /\ p = r.paddr /\ s = r.size
  BY DEF Request
<1>3. v \in Nat /\ p \in Int /\ s \in Int
  BY <1>2, HalfSpace DEF Address
<1>4. PICK f \in Int : f = MM_PAGEDOWN(v) /\ mm_is_page_aligned(f)
  BY <1>3, PageDown
<1>5. f \in Nat
  <2>1. f = v - (v % PGSIZE) /\ v % PGSIZE <= v
    BY <1>3, <1>4, HalfSpace DEF MM_PAGEDOWN
  <2>. QED
    BY <1>3, <1>4, <2>1, HalfSpace
<1>6. MM_PAGEUP((v + s) % ADDRSPACE) \in Nat
  <2>1. v + s \in Int
    BY <1>3
  <2>2. (v + s) % ADDRSPACE \in Int
    BY <2>1, AddressMod DEF Address
  <2>. QED
    BY <2>2, RangeEnd DEF Address
<1>7. r.permissions \in SUBSET {"RW", "US"}
  BY DEF Request
<1>8. (p + (f - f)) % ADDRSPACE = p
  <2>1. p + (f - f) = p
    BY <1>3, <1>4
  <2>. QED
    BY <1>2, <1>3, <2>1, AddressMod
<1>9. PagesIn(f, f) = {}
  BY <1>4 DEF PagesIn
<1>10. 0 * PGSIZE = f - f
  BY <1>4, HalfSpace
<1>11. CallInv'
  <2>1. /\ call'.curr = f /\ First' = f /\ call'.vaddr = v /\ call'.size = s /\ call'.from = p
        /\ call'.paddr = p /\ call'.total_maps = 0
        /\ call'.last = MM_PAGEUP((v + s) % ADDRSPACE)
    BY <1>1, <1>2, <1>4 DEF First
  <2>2. f <= f
    BY <1>4
  <2>3. \A q \in PagesIn(First', call'.curr) :
          /\ X86_PD_INDEX(q) \in linked'
          /\ Walk(q)' = To(call'.from + (q - First'), call'.permissions)
    BY <1>9, <2>1
  <2>4. call'.last = MM_PAGEUP((call'.vaddr + call'.size) % ADDRSPACE)
    BY <2>1
  <2>5. call'.paddr = (call'.from + (call'.curr - First')) % ADDRSPACE
    BY <1>8, <2>1
  <2>6. call'.total_maps * PGSIZE = call'.curr - First'
    BY <1>10, <2>1
  <2>7. mm_is_page_aligned(call'.curr) /\ First' <= call'.curr /\ call'.curr = First'
    BY <1>4, <2>1, <2>2
  <2>. QED
    BY <2>3, <2>4, <2>5, <2>6, <2>7, Zenon DEF CallInv
<1>. QED
  BY <1>1, <1>2, <1>4, <1>5, <1>6, <1>7, <1>11 DEF Call

\* The step that maps a page of the call.
LEMMA MapsOne ==
  ASSUME NEW reserved, VmInv(reserved), CallInv, vm_map_page_entry
  PROVE  CallInv'
<1>1. /\ InLoop /\ TypeInv /\ call.busy /\ X86_PD_INDEX(call.curr) \in linked /\ linked' = linked
  BY DEF vm_map_page_entry, store_entry, VmInv, InLoop
<1>2. /\ call.curr \in Frame /\ call.curr + PGSIZE <= call.last /\ mm_is_page_aligned(call.curr + PGSIZE)
  BY <1>1, Current
<1>3. PICK f, c, l, g, m, n, o \in Int :
        /\ f = First /\ c = call.curr /\ l = call.last /\ g = PGSIZE /\ m = ADDRSPACE
        /\ n = call.total_maps /\ o = call.from
  <2>1. First \in Int
    BY <1>1, PageDown DEF First, TypeInv, TypeOK, Call, Address
  <2>2. call.curr \in Int /\ call.last \in Int /\ call.total_maps \in Int /\ call.from \in Int
    BY <1>1 DEF TypeInv, TypeOK, Call, Address
  <2>. QED
    BY <2>1, <2>2, HalfSpace
<1>4. /\ l = MM_PAGEUP((call.vaddr + call.size) % ADDRSPACE)
      /\ mm_is_page_aligned(c) /\ f <= c /\ c + g <= l /\ mm_is_page_aligned(c + g)
      /\ call.paddr = (o + (c - f)) % m /\ n * g = c - f
      /\ \A p \in PagesIn(f, c) :
           X86_PD_INDEX(p) \in linked /\ Walk(p) = To(o + (p - f), call.permissions)
  BY <1>1, <1>2, <1>3 DEF CallInv
<1>5. /\ call'.curr = c + g /\ call'.last = l /\ call'.paddr = (call.paddr + g) % m
      /\ call'.total_maps = n + 1 /\ call'.from = o /\ call'.permissions = call.permissions
      /\ call'.vaddr = call.vaddr /\ call'.size = call.size /\ First' = f
  BY <1>1, <1>3, NextPage DEF First
<1>6. (call.paddr + g) % m = (o + ((c + g) - f)) % m
  <2>1. PICK x \in Int : x = o + (c - f) /\ x + g = o + ((c + g) - f)
    <3>1. o + (c - f) \in Int /\ (o + (c - f)) + g = o + ((c + g) - f)
      BY <1>3
    <3>. QED
      BY <3>1
  <2>2. ((x % m) + g) % m = (x + g) % m
    BY <1>3, HalfSpace, ModShift
  <2>. QED
    BY <1>4, <2>1, <2>2
<1>7. (n + 1) * g = (c + g) - f /\ f <= c + g
  <2>1. (n + 1) * g = (c - f) + g
    <3>1. c - f \in Int
      BY <1>3
    <3>. QED
      BY <1>3, <1>4, <3>1, CountOne
  <2>2. (c - f) + g = (c + g) - f /\ f <= c + g
    BY <1>3, <1>4, HalfSpace
  <2>. QED
    BY <2>1, <2>2
<1>8. ASSUME NEW p \in PagesIn(f, c + g)
      PROVE  X86_PD_INDEX(p) \in linked' /\ Walk(p)' = To(o + (p - f), call.permissions)
  <2>1. p \in PagesIn(f, c) \/ p = c
    <3>1. PagesIn(f, c + PGSIZE) = PagesIn(f, c) \cup {c}
      BY <1>3, <1>4, LastInRange
    <3>. QED
      BY <1>3, <1>8, <3>1
  <2>2. CASE p = c
    <3>1. Walk(c)' = [frame |-> call.paddr, rights |-> call.permissions]
      <4>1. c \notin StalePages
        BY <1>1, <1>3 DEF StalePages
      <4>. QED
        BY <1>2, <1>3, <4>1, EntryWalk
    <3>. QED
      BY <1>1, <1>3, <1>4, <2>2, <3>1 DEF To
  <2>3. CASE p \in PagesIn(f, c)
    <3>1. p \in Frame /\ p # c
      <4>1. PICK v \in Int : v = p /\ f <= v /\ v < c /\ mm_is_page_aligned(v)
        BY <1>3, <2>3 DEF PagesIn
      <4>2. 0 <= f
        <5>1. call.vaddr \in Nat /\ PGSIZE \in Nat \ {0}
          BY <1>1, HalfSpace DEF TypeInv, TypeOK, Call, Address
        <5>2. call.vaddr % PGSIZE <= call.vaddr
          BY <5>1
        <5>. QED
          BY <1>3, <5>1, <5>2 DEF First, MM_PAGEDOWN
      <4>3. c < ADDRSPACE
        BY <1>2, <1>3 DEF Frame, PagesIn
      <4>. QED
        BY <1>3, <4>1, <4>2, <4>3, HalfSpace DEF Frame, PagesIn
    <3>2. p \notin StalePages
      BY <1>4, <2>3 DEF StalePages
    <3>3. Walk(p)' = Walk(p)
      BY <1>2, <1>3, <3>1, <3>2, EntryWalk
    <3>. QED
      BY <1>1, <1>4, <2>3, <3>3
  <2>. QED
    BY <2>1, <2>2, <2>3
<1>. QED
  BY <1>3, <1>4, <1>5, <1>6, <1>7, <1>8 DEF CallInv

LEMMA NoCallType ==
  /\ NoCall \in Call
  /\ ~NoCall.busy
<1>1. 0 \in Address
  BY HalfSpace DEF Address
<1>. QED
  BY <1>1 DEF NoCall, Call

\* What a step of a call does to memory and to the call, but for a stray store.
LEMMA StepInv ==
  ASSUME NEW reserved, VmInv(reserved), MapStep, ~vm_map_page_stray
  PROVE  /\ VmInv(reserved)' /\ (reserved \subseteq out => Kept(reserved))
         /\ StalePages' = StalePages
         /\ CallInv => CallInv'
<1>1. CASE vm_map_page_assert \/ vm_map_page_exhausted
  <2>1. UNCHANGED <<words, free, out, directory, linked, call>>
        /\ status' \in {"running", "align_assert", "null_page"}
    BY <1>1 DEF vm_map_page_assert, vm_map_page_exhausted
  <2>2. VmInv(reserved)' /\ StalePages' = StalePages /\ \A p : Walk(p)' = Walk(p)
    BY <2>1, VmStill DEF VmInv, TypeInv, TypeOK, Call
  <2>. QED
    BY <2>1, <2>2 DEF CallInv, First, Kept
<1>2. CASE vm_map_pages_return
  <2>1. UNCHANGED <<words, free, out, directory, linked, status>> /\ call' = NoCall
    BY <1>2 DEF vm_map_pages_return
  <2>2. NoCall \in Call /\ ~NoCall.busy
    BY NoCallType
  <2>3. VmInv(reserved)' /\ StalePages' = StalePages
    BY <2>1, <2>2, VmStill DEF VmInv, TypeInv, TypeOK, Call, Strayed
  <2>. QED
    BY <2>1, <2>2, <2>3 DEF CallInv, Kept
<1>3. CASE vm_map_page_table
  <2>1. UNCHANGED call /\ linked \subseteq linked'
    BY <1>3 DEF vm_map_page_table, new_table
  <2>2. VmInv(reserved)' /\ (reserved \subseteq out => Kept(reserved)) /\ StalePages' = StalePages
    BY <1>3, NewTableInv
  <2>3. ASSUME CallInv PROVE CallInv'
    <3>1. \A p \in PagesIn(First, call.curr) : call.busy => p \in Frame
      <4>. SUFFICES ASSUME NEW p \in PagesIn(First, call.curr), call.busy PROVE p \in Frame
        OBVIOUS
      <4>1. InLoop /\ TypeInv
        BY <1>3 DEF vm_map_page_table, new_table, VmInv
      <4>2. call.curr \in Frame
        BY <2>3, <4>1, Current
      <4>3. call.vaddr \in Nat /\ PGSIZE \in Nat \ {0}
        BY <4>1, HalfSpace DEF TypeInv, TypeOK, Call, Address
      <4>4. First \in Int /\ 0 <= First
        <5>1. call.vaddr % PGSIZE <= call.vaddr /\ call.vaddr % PGSIZE \in Int
          BY <4>3
        <5>. QED
          BY <4>3, <5>1 DEF First, MM_PAGEDOWN
      <4>. QED
        BY <4>2, <4>4, HalfSpace DEF Frame, PagesIn
    <3>2. \A p \in PagesIn(First, call.curr) : call.busy => Walk(p)' = Walk(p)
      <4>. SUFFICES ASSUME NEW p \in PagesIn(First, call.curr), call.busy PROVE Walk(p)' = Walk(p)
        OBVIOUS
      <4>1. p \notin StalePages
        BY <2>3 DEF CallInv, StalePages
      <4>. QED
        BY <1>3, <3>1, <4>1, TableWalk
    <3>. QED
      BY <2>1, <2>3, <3>2 DEF CallInv, First
  <2>. QED
    BY <2>2, <2>3
<1>4. CASE vm_map_page_entry
  BY <1>4, NewEntryInv, MapsOne
<1>. QED
  BY <1>1, <1>2, <1>3, <1>4 DEF MapStep

-----------------------------------------------------------------------------
(* The start. *)

\* What kpalloc leaves in a page.
LEMMA RecycledType ==
  ASSUME NEW w \in [Index -> Entry]
  PROVE  Recycled(w) \in [Index -> Entry]
<1>1. Zero \in Entry /\ Magic \in Entry
  BY HalfSpace, VmAssumption DEF Zero, Entry, Frame, PagesIn, mm_is_page_aligned
<1>. QED
  BY <1>1 DEF Recycled

\* The queue at the start: the allocator's pages but the first, in order.
LEMMA FreeInit ==
  ASSUME Init
  PROVE  /\ free \in Seq(Page) /\ QueueInv /\ RamStart \in Page
         /\ \A i \in 1..Len(free) : free[i] # RamStart
<1>1. PICK g, s, e \in Nat : g = PGSIZE /\ g # 0 /\ s = RamStart /\ e = RamEnd /\ s + g <= e
  BY HalfSpace, VmAssumption
<1>2. PICK q, r \in Int : q = (e - s) \div g /\ r \in 0..(g - 1) /\ e - s = g * q + r
  <2>1. e - s \in Int
    BY <1>1
  <2>. QED
    BY <1>1, <2>1, Divided
<1>3. q >= 1
  <2>1. CASE q <= 0
    <3>1. g * q <= 0
      BY <1>1, <1>2, <2>1
    <3>. QED
      BY <1>1, <1>2, <3>1
  <2>. QED
    BY <1>2, <2>1
<1>4. PICK n \in Nat : n = q - 1
  BY <1>2, <1>3
<1>5. free = [i \in 1..n |-> s + i * g] /\ out = {RamStart}
  BY <1>1, <1>2, <1>4 DEF Init
<1>6. mm_is_page_aligned(s) /\ s < e
  BY <1>1, VmAssumption
<1>7. ASSUME NEW i \in 1..n PROVE s + i * g \in Page /\ s + i * g # s
  <2>1. i * g \in Nat /\ i * g >= g
    BY <1>1, <1>4
  <2>2. g * q = g * n + g /\ i * g <= g * n
    BY <1>1, <1>4
  <2>3. mm_is_page_aligned(i * g)
    <3>1. i * g = g * i /\ i \in Int
      BY <1>1, <1>4
    <3>2. (g * i) % g = 0
      BY <1>1, <3>1, MultMod
    <3>. QED
      BY <1>1, <3>1, <3>2 DEF mm_is_page_aligned
  <2>4. mm_is_page_aligned(s + i * g)
    BY <1>1, <1>6, <2>1, <2>3, AlignedSum
  <2>5. s + i * g < e
    <3>1. g * n \in Int /\ g * q \in Int
      BY <1>1, <1>2, <1>4
    <3>. QED
      BY <1>1, <1>2, <2>1, <2>2, <3>1
  <2>. QED
    BY <1>1, <2>1, <2>4, <2>5 DEF Page, PagesIn
<1>8. \A i, j \in 1..n : s + i * g = s + j * g => i = j
  <2>. SUFFICES ASSUME NEW i \in 1..n, NEW j \in 1..n, s + i * g = s + j * g PROVE i = j
    OBVIOUS
  <2>1. i * g = j * g
    BY <1>1, <1>4
  <2>. QED
    BY <1>1, <1>4, <2>1
<1>9. free \in Seq(Page) /\ Len(free) = n
  BY <1>5, <1>7
<1>10. s \in Page
  BY <1>1, <1>6 DEF Page, PagesIn
<1>. QED
  BY <1>1, <1>5, <1>7, <1>8, <1>9, <1>10 DEF QueueInv

LEMMA VmInit == ASSUME Init PROVE VmInv({}) /\ CallInv
<1>1. /\ free \in Seq(Page) /\ QueueInv /\ RamStart \in Page
      /\ \A i \in 1..Len(free) : free[i] # RamStart
  BY FreeInit
<1>2. PICK ram \in Garbage :
        /\ directory = RamStart /\ out = {directory} /\ linked = {} /\ call = NoCall
        /\ status = "running" /\ words = [ram EXCEPT ![RamStart] = Recycled(@)]
  BY DEF Init
<1>3. Recycled(ram[RamStart]) \in [Index -> Entry] /\ ram \in [Page -> [Index -> Entry]]
  BY <1>1, <1>2, RecycledType, VmAssumption
<1>4. words \in [Page -> [Index -> Entry]]
  BY <1>1, <1>2, <1>3
<1>5. NoCall \in Call /\ ~NoCall.busy
  BY NoCallType
<1>6. TypeInv
  BY <1>1, <1>2, <1>4, <1>5 DEF TypeInv, TypeOK
<1>7. Tables({})
  BY <1>1, <1>2 DEF Tables, TablesDisjoint, QueueInv
<1>8. CallInv /\ ~Strayed
  BY <1>2, <1>5 DEF CallInv, Strayed
<1>. QED
  BY <1>1, <1>6, <1>7, <1>8 DEF VmInv

\* With no table yet, a page translates to nothing, or is stale.
LEMMA WalkInit ==
  ASSUME Init, NEW p \in Frame, p \notin StalePages
  PROVE  Walk(p) = Unmapped
<1>1. directory # NoPage /\ linked = {}
  <2>1. RamStart \in Page /\ directory = RamStart /\ linked = {}
    BY FreeInit DEF Init
  <2>. QED
    BY <2>1, VmAssumption
<1>. QED
  BY <1>1, Fresh DEF Walk

-----------------------------------------------------------------------------
(* All steps. *)

\* Until a stale word is used, and from then on.
VmSafe == TypeInv /\ (Strayed \/ (VmInv({}) /\ CallInv))

LEMMA Stutter ==
  ASSUME VmSafe, UNCHANGED vars
  PROVE  VmSafe' /\ WalkMap' = WalkMap /\ Todo' = Todo /\ StalePages' = StalePages /\ status' = status
<1>1. UNCHANGED <<words, free, out, directory, linked, call, status>>
  BY DEF vars
<1>2. StalePages' = StalePages /\ \A p : Walk(p)' = Walk(p)
  BY <1>1 DEF StalePages, Walk
<1>3. TypeInv' /\ (Strayed => Strayed')
  BY <1>1 DEF VmSafe, TypeInv, TypeOK, Strayed
<1>4. ASSUME VmInv({}), CallInv PROVE VmInv({})' /\ CallInv'
  <2>1. status \in {"running", "align_assert", "null_page"} /\ call \in Call
        /\ (call.busy => directory # NoPage)
    BY <1>4 DEF VmInv, TypeInv, TypeOK, Strayed
  <2>2. VmInv({})'
    BY <1>1, <1>4, <2>1, VmStill
  <2>. QED
    BY <1>1, <1>2, <1>4, <2>2 DEF CallInv, First
<1>5. VmSafe'
  <2>1. CASE Strayed
    BY <1>3, <2>1 DEF VmSafe
  <2>2. CASE VmInv({}) /\ CallInv
    BY <1>3, <1>4, <2>2 DEF VmSafe
  <2>. QED
    BY <2>1, <2>2 DEF VmSafe
<1>. QED
  BY <1>1, <1>2, <1>5 DEF WalkMap, Todo

\* After a stray store the model takes no step.
LEMMA StrayEnds ==
  ASSUME NEW requests, Strayed, [MapNext(requests)]_vars
  PROVE  UNCHANGED vars
BY DEF MapNext, MapStep, vm_map_pages, begin, vm_map_page_assert, vm_map_page_table, new_table,
   vm_map_page_exhausted, vm_map_page_entry, vm_map_page_stray, store_entry, vm_map_pages_return,
   InLoop, Strayed

LEMMA Inductive ==
  ASSUME NEW requests \in SUBSET Request
  PROVE  VmSafe /\ [MapNext(requests)]_vars => VmSafe'
<1>. SUFFICES ASSUME VmSafe, [MapNext(requests)]_vars PROVE VmSafe'
  OBVIOUS
<1>1. CASE Strayed \/ UNCHANGED vars
  BY <1>1, StrayEnds, Stutter
<1>2. CASE ~Strayed /\ MapNext(requests)
  <2>1. VmInv({}) /\ CallInv /\ TypeInv
    BY <1>2 DEF VmSafe
  <2>2. ASSUME NEW r \in requests, vm_map_pages(r.vaddr, r.paddr, r.size, r.permissions)
        PROVE  VmSafe'
    <3>1. /\ CallInv' /\ directory # NoPage /\ call' \in Call
      BY <2>2, BeginCall
    <3>2. UNCHANGED <<words, free, out, directory, linked, status>> /\ status = "running"
      BY <2>2 DEF vm_map_pages, begin
    <3>3. status' \in {"running", "align_assert", "null_page"} /\ (call'.busy => directory # NoPage)
      BY <3>1, <3>2
    <3>4. VmInv({})'
      BY <2>1, <3>1, <3>2, <3>3, VmStill
    <3>5. TypeInv'
      BY <3>4 DEF VmInv
    <3>. QED
      BY <3>1, <3>4, <3>5 DEF VmSafe
  <2>3. CASE vm_map_page_stray
    BY <2>1, <2>3, StrayTypes DEF VmSafe
  <2>4. CASE MapStep /\ ~vm_map_page_stray
    BY <2>1, <2>4, StepInv DEF VmSafe, VmInv
  <2>. QED
    BY <1>2, <2>2, <2>3, <2>4 DEF MapNext
<1>. QED
  BY <1>1, <1>2

LEMMA Invariance ==
  ASSUME NEW requests \in SUBSET Request
  PROVE  MapSpec(requests) => []VmSafe
<1>1. Init => VmSafe
  BY VmInit DEF VmSafe, VmInv
<1>2. VmSafe /\ [MapNext(requests)]_vars => VmSafe'
  BY Inductive
<1>. QED
  BY <1>1, <1>2, PTL DEF MapSpec

-----------------------------------------------------------------------------
(* What a finished call has mapped. *)

\* A run of pages has as many pages as its length says.
LEMMA PageCount ==
  ASSUME NEW from \in Int, NEW n \in Nat, mm_is_page_aligned(from)
  PROVE  Cardinality(PagesIn(from, from + n * PGSIZE)) = n
<1>1. PICK g \in Nat \ {0} : g = PGSIZE
  BY HalfSpace
<1> DEFINE to == from + n * g
           f == [i \in 1..n |-> from + (i - 1) * g]
<1>2. ASSUME NEW i \in 1..n PROVE from + (i - 1) * g \in PagesIn(from, to)
  <2>1. (i - 1) * g \in Nat /\ (i - 1) * g + g = i * g /\ i * g <= n * g
    BY <1>1
  <2>2. mm_is_page_aligned((i - 1) * g)
    <3>1. (i - 1) * g = g * (i - 1) /\ i - 1 \in Int
      BY <1>1
    <3>2. (g * (i - 1)) % g = 0
      BY <1>1, <3>1, MultMod
    <3>. QED
      BY <1>1, <3>1, <3>2 DEF mm_is_page_aligned
  <2>3. mm_is_page_aligned(from + (i - 1) * g)
    BY <1>1, <2>1, <2>2, AlignedSum
  <2>4. n * g \in Int /\ i * g \in Int
    BY <1>1
  <2>5. from + (i - 1) * g \in from..(to - 1)
    BY <1>1, <2>1, <2>4
  <2>. QED
    BY <2>3, <2>5 DEF PagesIn
<1>3. ASSUME NEW i \in 1..n, NEW j \in 1..n, from + (i - 1) * g = from + (j - 1) * g PROVE i = j
  <2>1. (i - 1) * g = (j - 1) * g
    BY <1>1, <1>3
  <2>. QED
    BY <1>1, <2>1
<1>4. ASSUME NEW p \in PagesIn(from, to) PROVE \E i \in 1..n : from + (i - 1) * g = p
  <2>1. p \in Int /\ from <= p /\ p < to /\ mm_is_page_aligned(p)
    BY <1>1 DEF PagesIn
  <2>2. PICK c \in Int : c = p - from /\ mm_is_page_aligned(c)
    <3>1. p - from \in Int /\ mm_is_page_aligned(p - from)
      BY <2>1, AlignedSum
    <3>. QED
      BY <3>1
  <2>3. PICK q \in Int, r \in 0..(g - 1) : q = c \div g /\ r = c % g /\ c = g * q + r
    BY <1>1, <2>2, Divided
  <2>4. c = g * q /\ 0 <= c /\ c < n * g
    <3>1. r = 0
      BY <1>1, <2>2, <2>3 DEF mm_is_page_aligned
    <3>2. g * q \in Int /\ n * g \in Int
      BY <1>1, <2>3
    <3>. QED
      BY <2>1, <2>2, <2>3, <3>1, <3>2
  <2>5. 0 <= q
    <3>1. CASE q <= -1
      <4>1. g * q <= -g
        BY <1>1, <2>3, <3>1
      <4>. QED
        BY <1>1, <2>2, <2>4, <4>1
    <3>. QED
      BY <2>3, <3>1
  <2>6. q < n
    <3>1. CASE q >= n
      <4>1. g * q >= g * n /\ g * n = n * g
        BY <1>1, <2>3, <3>1
      <4>2. g * n \in Int
        BY <1>1
      <4>. QED
        BY <2>2, <2>4, <4>1, <4>2
    <3>. QED
      BY <2>3, <3>1
  <2>7. q + 1 \in 1..n
    BY <2>3, <2>5, <2>6
  <2>8. from + ((q + 1) - 1) * g = p
    <3>1. ((q + 1) - 1) * g = g * q
      BY <1>1, <2>3
    <3>. QED
      BY <2>1, <2>2, <2>4, <3>1
  <2>. QED
    BY <2>7, <2>8
<1>5. f \in Bijection(1..n, PagesIn(from, to))
  <2>1. f \in [1..n -> PagesIn(from, to)] /\ \A i \in 1..n : f[i] = from + (i - 1) * g
    BY <1>2
  <2>2. \A i, j \in 1..n : f[i] = f[j] => i = j
    BY <1>3, <2>1
  <2>3. \A p \in PagesIn(from, to) : \E i \in 1..n : f[i] = p
    BY <1>4, <2>1
  <2>. HIDE DEF f, to
  <2>. QED
    BY <2>1, <2>2, <2>3 DEF Bijection, Injection, IsInjective, Surjection
<1>6. ExistsBijection(1..n, PagesIn(from, to))
  BY <1>5 DEF ExistsBijection
<1>. QED
  BY <1>1, <1>6, FS_CountingElements

LEMMA ReturnsMapped == ASSUME VmInv({}), CallInv PROVE MappedAsAsked
<1>. SUFFICES ASSUME Returning, call.vaddr + call.size + PGSIZE <= ADDRSPACE
     PROVE  AskedIsMapped /\ call.total_maps = Cardinality(Asked)
  BY DEF MappedAsAsked
<1>1. TypeInv /\ call.busy /\ ~(call.curr < call.last)
  BY DEF VmInv, Returning
<1>2. PICK g, m \in Nat \ {0} : g = PGSIZE /\ m = ADDRSPACE
  BY HalfSpace
<1>3. PICK e, c, l, n \in Nat, v \in Nat, f \in Int :
        /\ e = v + call.size /\ v = call.vaddr /\ c = call.curr /\ l = call.last
        /\ n = call.total_maps /\ f = First
  <2>1. call.vaddr \in Nat /\ call.size \in Nat /\ call.vaddr + call.size \in Nat
    BY <1>1, <1>2 DEF TypeInv, TypeOK, Call, Address
  <2>2. call.curr \in Nat /\ call.last \in Nat /\ call.total_maps \in Nat
    BY <1>1 DEF TypeInv, TypeOK, Call
  <2>3. First \in Int
    BY <2>1, PageDown DEF First
  <2>. QED
    BY <2>1, <2>2, <2>3
<1>4. v >= f /\ v <= e /\ e + g <= m /\ call.size \in Nat
  <2>1. call.size \in Nat
    BY <1>1, <1>2 DEF TypeInv, TypeOK, Call, Address
  <2>2. f <= v
    BY <1>3, PageDown DEF First
  <2>. QED
    BY <1>2, <1>3, <2>1, <2>2
<1>5. l = MM_PAGEUP(e)
  <2>1. e % m = e
    <3>1. e \in 0..(m - 1)
      BY <1>2, <1>3, <1>4
    <3>. QED
      BY <1>2, <3>1, SmallMod
  <2>. QED
    BY <1>1, <1>2, <1>3, <2>1 DEF CallInv
<1>6. e <= l
  BY <1>2, <1>3, <1>4, <1>5, PageUp
<1>7. c = l
  BY <1>1, <1>3, <1>4, <1>6 DEF CallInv
<1>8. Asked = PagesIn(f, e)
  BY <1>3 DEF Asked, First
<1>9. PagesIn(f, e) = PagesIn(f, c)
  <2>1. ASSUME NEW p \in Int, mm_is_page_aligned(p), e <= p PROVE l <= p
    BY <1>2, <1>3, <1>4, <1>5, <2>1, NoPageBelowRoundUp
  <2>. QED
    BY <1>3, <1>6, <1>7, <2>1 DEF PagesIn
<1>10. AskedIsMapped
  BY <1>1, <1>3, <1>8, <1>9 DEF CallInv, AskedIsMapped, First
<1>11. mm_is_page_aligned(f) /\ c = f + n * g
  <2>1. n * g = c - f
    BY <1>1, <1>2, <1>3 DEF CallInv
  <2>2. mm_is_page_aligned(f)
    BY <1>3, PageDown DEF First
  <2>. QED
    BY <1>3, <2>1, <2>2
<1>12. Cardinality(PagesIn(f, c)) = n
  BY <1>2, <1>3, <1>11, PageCount
<1>. QED
  BY <1>3, <1>8, <1>9, <1>10, <1>12

-----------------------------------------------------------------------------
(* The abstract address space. *)

\* A request's pages are pages and its frames are frames.
LEMMA JobType ==
  ASSUME NEW c \in Nat, NEW l \in Address, NEW a \in Address, NEW permissions \in SUBSET {"RW", "US"},
         mm_is_page_aligned(c), mm_is_page_aligned(a), NEW p \in PagesIn(c, l)
  PROVE  /\ p \in Frame
         /\ To(a + (p - c), permissions) \in [frame : Frame, rights : SUBSET {"RW", "US"}]
<1>1. PICK m \in Nat \ {0} : m = ADDRSPACE
  BY HalfSpace
<1>2. l \in Nat /\ l < m /\ a \in Int
  BY <1>1 DEF Address
<1>3. p \in Int /\ c <= p /\ p < l /\ mm_is_page_aligned(p)
  BY <1>2 DEF PagesIn
<1>4. p \in Frame
  BY <1>1, <1>2, <1>3 DEF Frame, PagesIn
<1>5. PICK b \in Int : b = a + (p - c) /\ mm_is_page_aligned(b)
  <2>1. PICK x \in Int : x = p - c /\ mm_is_page_aligned(x)
    <3>1. p - c \in Int /\ mm_is_page_aligned(p - c)
      BY <1>2, <1>3, AlignedSum
    <3>. QED
      BY <3>1
  <2>2. a \in Int /\ mm_is_page_aligned(x)
    BY <1>2, <2>1
  <2>3. a + x \in Int
    BY <2>2
  <2>4. mm_is_page_aligned(a + x)
    BY <2>2, AlignedSum
  <2>. QED
    BY <2>1, <2>3, <2>4
<1>6. b % ADDRSPACE \in Frame
  <2>1. b % ADDRSPACE \in Address /\ mm_is_page_aligned(b % ADDRSPACE)
    BY <1>5, AddressMod
  <2>. QED
    BY <2>1 DEF Frame, PagesIn, Address
<1>. QED
  BY <1>4, <1>5, <1>6 DEF To

\* The step that stores an entry maps the first page that is left.
LEMMA StoreMapsOne ==
  ASSUME VmInv({}), CallInv, vm_map_page_entry
  PROVE  AS!MapOne
<1>1. /\ InLoop /\ PageAligned /\ TypeInv /\ call.busy /\ X86_PD_INDEX(call.curr) \in linked
      /\ status' = status /\ ~Strayed
  BY DEF vm_map_page_entry, store_entry, InLoop, VmInv
<1>2. PICK g, m \in Nat \ {0} : g = PGSIZE /\ m = ADDRSPACE
  BY HalfSpace
<1>3. PICK c, l, a \in Nat : c = call.curr /\ l = call.last /\ a = call.paddr /\ a < m
  BY <1>1, <1>2 DEF TypeInv, TypeOK, Call, Address
<1>4. c \in Frame /\ c < l /\ mm_is_page_aligned(c) /\ mm_is_page_aligned(a)
  BY <1>1, <1>3, Current DEF InLoop, PageAligned
<1>5. /\ PagesIn(c, l) = PagesIn(c + PGSIZE, l) \cup {c}
      /\ c \notin PagesIn(c + PGSIZE, l)
  BY <1>3, <1>4, FirstInRange
<1>6. /\ call'.curr = c + g /\ call'.paddr = (a + g) % m /\ call'.last = l
      /\ call'.busy /\ call'.permissions = call.permissions
  BY <1>1, <1>2, <1>3, NextPage
<1>7. mm_is_page_aligned(call'.paddr)
  <2>1. mm_is_page_aligned(g)
    BY <1>2 DEF mm_is_page_aligned
  <2>2. a \in Int /\ g \in Int
    BY <1>2, <1>3
  <2>3. a + g \in Int /\ mm_is_page_aligned(a + g)
    BY <1>4, <2>1, <2>2, AlignedSum
  <2>. QED
    BY <1>2, <1>6, <2>3, AddressMod
<1>8. Todo = [p \in PagesIn(c, l) |-> To(a + (p - c), call.permissions)]
  BY <1>1, <1>3, <1>4 DEF Todo
<1>9. Todo' = [p \in PagesIn(c + g, l) |-> To(((a + g) % m) + (p - (c + g)), call.permissions)]
  BY <1>6, <1>7 DEF Todo
<1>10. Todo[c] = [frame |-> a, rights |-> call.permissions]
  <2>1. a + (c - c) = a /\ a % m = a
    BY <1>2, <1>3
  <2>. QED
    BY <1>2, <1>5, <1>8, <2>1 DEF To
<1>0. StalePages' = StalePages /\ c \notin StalePages
  BY <1>1, <1>3, NewEntryInv DEF StalePages
<1>11. WalkMap' = [WalkMap EXCEPT ![c] = Todo[c]]
  <2>1. \A p \in Frame \ StalePages : Walk(p)' = IF p = c THEN Todo[c] ELSE Walk(p)
    BY <1>3, <1>4, <1>10, EntryWalk
  <2>. QED
    BY <1>0, <2>1 DEF WalkMap
<1>12. ASSUME NEW p \in PagesIn(c + g, l)
       PROVE  To(((a + g) % m) + (p - (c + g)), call.permissions) = To(a + (p - c), call.permissions)
  <2>1. PICK b \in Int : b = p - (c + g)
    BY <1>2, <1>3 DEF PagesIn
  <2>2. PICK x \in Int : x = a + g
    BY <1>2, <1>3
  <2>3. x + b = a + (p - c)
    BY <1>2, <1>3, <2>1, <2>2 DEF PagesIn
  <2>4. To((x % m) + b, call.permissions) = To(x + b, call.permissions)
    BY <1>2, FrameMoves
  <2>. QED
    BY <2>1, <2>2, <2>3, <2>4
<1>13. DOMAIN Todo = PagesIn(c, l) /\ DOMAIN Todo \ {c} = PagesIn(c + g, l)
  BY <1>2, <1>5, <1>8
<1>14. Todo' = [q \in DOMAIN Todo \ {c} |-> Todo[q]]
  <2>1. \A q \in PagesIn(c + g, l) : Todo[q] = To(((a + g) % m) + (q - (c + g)), call.permissions)
    BY <1>2, <1>5, <1>8, <1>12
  <2>. QED
    BY <1>9, <1>13, <2>1
<1>15. c \in DOMAIN Todo \ StalePages
  BY <1>0, <1>5, <1>13
<1>. QED
  BY <1>0, <1>1, <1>11, <1>14, <1>15 DEF AS!MapOne, Strayed

\* A stray store: the call has reached a page of a stale slot.
LEMMA StoreLoses ==
  ASSUME VmInv({}), CallInv, vm_map_page_stray
  PROVE  AS!Lose
<1>1. /\ InLoop /\ PageAligned /\ TypeInv /\ call.busy /\ X86_PD_INDEX(call.curr) \notin linked
      /\ "P" \in DirEntry.flags /\ ~Strayed /\ Strayed'
  BY DEF vm_map_page_stray, store_entry, InLoop, VmInv, Strayed
<1>2. call.curr \in Frame /\ directory # NoPage
  BY <1>1, Current DEF TypeInv
<1>3. call.curr \in StalePages
  BY <1>1, <1>2 DEF StalePages, DirEntry
<1>4. call.curr \in PagesIn(call.curr, call.last)
  BY <1>1, <1>2, HalfSpace DEF InLoop, PagesIn, PageAligned, TypeInv, TypeOK, Call
<1>5. call.curr \in DOMAIN Todo
  BY <1>1, <1>4 DEF Todo, PageAligned
<1>. QED
  BY <1>1, <1>3, <1>5 DEF AS!Lose

LEMMA Refines ==
  ASSUME NEW requests \in SUBSET Request, VmSafe, [MapNext(requests)]_vars
  PROVE  [AS!Next]_<<WalkMap, Todo, StalePages, Strayed>>
<1>0. CASE Strayed \/ UNCHANGED vars
  <2>1. WalkMap' = WalkMap /\ Todo' = Todo /\ StalePages' = StalePages /\ status' = status
    BY <1>0, StrayEnds, Stutter
  <2>. QED
    BY <2>1 DEF Strayed
<1>. SUFFICES ASSUME ~Strayed, MapNext(requests)
     PROVE  [AS!Next]_<<WalkMap, Todo, StalePages, Strayed>>
  BY <1>0
<1>1. VmInv({}) /\ CallInv /\ TypeInv
  BY DEF VmSafe
<1>2. ASSUME NEW r \in requests, vm_map_pages(r.vaddr, r.paddr, r.size, r.permissions)
      PROVE  AS!Request
  <2>1. /\ CallInv' /\ ~call.busy /\ call'.busy
        /\ UNCHANGED <<words, directory, linked, status>>
    BY <1>2, BeginCall DEF vm_map_pages, begin
  <2>2. DOMAIN Todo = {}
    BY <2>1 DEF Todo
  <2>3. WalkMap' = WalkMap /\ StalePages' = StalePages
    BY <2>1 DEF WalkMap, Walk, StalePages
  <2>4. /\ call'.curr \in Nat /\ call'.last \in Address /\ call'.paddr \in Address
        /\ call'.permissions \in SUBSET {"RW", "US"} /\ mm_is_page_aligned(call'.curr)
    <3>1. /\ call'.curr \in Nat /\ call'.paddr \in Address /\ call'.permissions \in SUBSET {"RW", "US"}
          /\ call'.vaddr \in Address /\ call'.size \in Address
      BY <1>2, BeginCall DEF Call
    <3>2. (call'.vaddr + call'.size) % ADDRSPACE \in Int
      <4>1. call'.vaddr + call'.size \in Int
        BY <3>1 DEF Address
      <4>. QED
        BY <4>1, AddressMod DEF Address
    <3>. QED
      BY <2>1, <3>1, <3>2, RangeEnd DEF CallInv
  <2>5. AS!IsJob(Todo')
    <3>1. ASSUME NEW p \in PagesIn(call'.curr, call'.last), mm_is_page_aligned(call'.paddr)
          PROVE  /\ p \in Frame
                 /\ To(call'.paddr + (p - call'.curr), call'.permissions)
                      \in [frame : Frame, rights : SUBSET {"RW", "US"}]
      BY <2>4, <3>1, JobType
    <3>. QED
      BY <3>1 DEF AS!IsJob, Todo
  <2>. QED
    BY <2>1, <2>2, <2>3, <2>5 DEF AS!Request, Strayed
<1>3. CASE vm_map_page_table
  <2>1. \A p \in Frame \ StalePages : Walk(p)' = Walk(p)
    BY <1>1, <1>3, TableWalk
  <2>2. UNCHANGED <<call, status>>
    BY <1>3 DEF vm_map_page_table, new_table
  <2>3. StalePages' = StalePages
    BY <1>1, <1>3, NewTableInv
  <2>. QED
    BY <2>1, <2>2, <2>3 DEF WalkMap, Todo, Strayed
<1>4. CASE vm_map_page_assert \/ vm_map_page_exhausted
  <2>1. UNCHANGED <<words, directory, linked, call>> /\ Strayed' = FALSE /\ Strayed = FALSE
    BY <1>4 DEF vm_map_page_assert, vm_map_page_exhausted, Strayed
  <2>. QED
    BY <2>1 DEF WalkMap, Walk, StalePages, Todo
<1>5. CASE vm_map_pages_return
  <2>1. UNCHANGED <<words, directory, linked, status>> /\ call' = NoCall /\ ~(call.curr < call.last)
    BY <1>5 DEF vm_map_pages_return
  <2>2. WalkMap' = WalkMap /\ StalePages' = StalePages
    BY <2>1 DEF WalkMap, Walk, StalePages
  <2>3. PagesIn(call.curr, call.last) = {}
    BY <1>1, <2>1 DEF PagesIn, TypeInv, TypeOK, Call
  <2>4. ~call'.busy
    BY <2>1 DEF NoCall
  <2>5. DOMAIN Todo = {} /\ DOMAIN Todo' = {} /\ Todo' = Todo
    BY <2>3, <2>4 DEF Todo
  <2>. QED
    BY <2>1, <2>2, <2>5 DEF Strayed
<1>6. CASE vm_map_page_entry
  BY <1>1, <1>6, StoreMapsOne DEF AS!Next
<1>7. CASE vm_map_page_stray
  BY <1>1, <1>7, StoreLoses DEF AS!Next
<1>. QED
  BY <1>2, <1>3, <1>4, <1>5, <1>6, <1>7 DEF MapNext, MapStep, AS!Next

-----------------------------------------------------------------------------
(* The theorems. *)

\* Whatever RAM held and whatever the calls ask, until a stale word of the
\* directory is used no two slots with a table share it, no table is the directory
\* or a free page, and no page is lost.
THEOREM TablesStayPrivate ==
  ASSUME NEW requests \in SUBSET Request
  PROVE  MapSpec(requests) => []TablesPrivate
<1>1. VmSafe => TablesPrivate
  BY DEF VmSafe, VmInv, Tables, TablesPrivate, TablesDisjoint
<1>. QED
  BY <1>1, Invariance, PTL

\* When a call whose range does not run off the top of memory returns, every page
\* that holds a byte of the range is translated as asked, and the count is right.
THEOREM CallsMapWhatTheyAsk ==
  ASSUME NEW requests \in SUBSET Request
  PROVE  MapSpec(requests) => []MappedAsAsked
<1>1. VmSafe => MappedAsAsked
  <2>1. Returning => ~Strayed
    BY DEF Returning, Strayed
  <2>. QED
    BY <2>1, ReturnsMapped DEF VmSafe, MappedAsAsked
<1>. QED
  BY <1>1, Invariance, PTL

\* vm_map_pages implements AddressSpace: to the processor a call changes its own
\* pages, one by one, each to what is asked, and nothing else; new tables and
\* failures do not show.  What RAM held matters only to a call that reaches a page
\* of a stale slot.
THEOREM MappingIsAnAddressSpace ==
  ASSUME NEW requests \in SUBSET Request
  PROVE  MapSpec(requests) => AddressSpaceSpec
<1>1. Init => AS!Init
  <2>. SUFFICES ASSUME Init PROVE AS!Init
    OBVIOUS
  <2>1. DOMAIN Todo = {} /\ ~Strayed
    BY DEF Init, NoCall, Todo, Strayed
  <2>2. \A p \in Frame \ StalePages : Walk(p) = Unmapped
    BY WalkInit
  <2>3. StalePages \subseteq Frame
    BY DEF StalePages
  <2>. QED
    BY <2>1, <2>2, <2>3 DEF AS!Init, WalkMap
<1>2. VmSafe /\ [MapNext(requests)]_vars => [AS!Next]_<<WalkMap, Todo, StalePages, Strayed>>
  BY Refines
<1>. QED
  BY <1>1, <1>2, Invariance, PTL DEF MapSpec, AddressSpaceSpec, AS!Spec

-----------------------------------------------------------------------------
(* The kernel's address space. *)

\* Where there is no directory yet, and where there is one.
Early == {"pse", "cr3", "paging", "jump", "unmap", "free", "create"}
Late  == {"io", "text", "data", "return", "done"}

LayoutInv ==
  /\ data \in PagesIn(KERNEL_LINK + 1, RamEnd)
  /\ end \in (data + 1)..RamEnd
  /\ x86_page_directory \in PagesIn(data, end)

\* What is out before there is a directory.
StageInv ==
  /\ directory = NoPage <=> pc \in Early
  /\ directory = NoPage => linked = {}
  /\ directory = NoPage => IF pc = "create" THEN out = Image ELSE free = <<>> /\ out = Page

MemoryInv == VmInv(Image) /\ LayoutInv /\ StageInv

\* Where the processor runs.
ModeInv ==
  /\ pc \in Early \cup Late
  /\ control \in [pse : BOOLEAN, pg : BOOLEAN, wp : BOOLEAN, cr3 : Address]
  /\ pc # "pse" => control.pse
  /\ pc \notin {"pse", "cr3"} => control.cr3 = MM_PHYSADDR(x86_page_directory)
  /\ control.pg <=> pc \notin {"pse", "cr3", "paging"}
  /\ half = (IF pc \in {"pse", "cr3", "paging", "jump"} THEN "low" ELSE "high")
  /\ lowmapped \in BOOLEAN /\ lowcached \in BOOLEAN
  /\ pc \in {"pse", "cr3", "paging", "jump", "unmap"} => lowmapped

\* The first page of the kernel half with no translation yet.
Frontier ==
  IF call.busy THEN call.curr
  ELSE CASE pc = "io"   -> KERNEL_BASE
         [] pc = "text" -> KERNEL_LINK
         [] pc = "data" -> data
         [] OTHER       -> MM_PAGEUP(end)

\* The call in progress.
PartInv ==
  call.busy =>
    /\ mm_is_page_aligned(call.curr) /\ call.curr <= call.last
    /\ call.paddr = call.curr - KERNEL_BASE
    /\ \/ /\ pc = "text" /\ call.permissions = {"RW"}
          /\ KERNEL_BASE <= call.curr /\ call.last = KERNEL_LINK
       \/ /\ pc = "data" /\ call.permissions = {}
          /\ KERNEL_LINK <= call.curr /\ call.last = data
       \/ /\ pc = "return" /\ call.permissions = {"RW"}
          /\ data <= call.curr /\ call.last = MM_PAGEUP(end)

KernelHalf == {p \in Frame : p >= KERNEL_BASE}

MappedInv ==
  directory # NoPage =>
    \A p \in KernelHalf :
      IF p < Frontier
      THEN X86_PD_INDEX(p) \in linked /\ Walk(p) = KernelTranslation(p)
      ELSE p \in StalePages \/ Walk(p) = Unmapped

\* What kpagedir_ points to is complete.
DoneInv ==
  /\ kpagedir_ \in Page \cup {NoPage}
  /\ kpagedir_ # NoPage => pc = "done"

KernelInv == PartInv /\ MappedInv /\ DoneInv

-----------------------------------------------------------------------------
(* Addresses. *)

LEMMA RamEndAligned == RamEnd \in Nat /\ mm_is_page_aligned(RamEnd)
<1>1. KERNEL_BASE \in Int /\ SPAN \in Int /\ mm_is_page_aligned(KERNEL_BASE) /\ mm_is_page_aligned(SPAN)
  BY HalfSpace
<1>2. mm_is_page_aligned(KERNEL_BASE + SPAN)
  BY <1>1, AlignedSum
<1>. QED
  BY <1>2, KvmAssumption, VmAssumption

\* The parts of the kernel.
LEMMA Bounds ==
  ASSUME LayoutInv
  PROVE  /\ KERNEL_BASE \in Nat /\ KERNEL_LINK \in Nat /\ data \in Nat /\ end \in Nat
         /\ MM_PAGEUP(end) \in Nat /\ RamEnd \in Nat /\ PGSIZE \in Nat \ {0} /\ ADDRSPACE \in Nat \ {0}
         /\ KERNEL_BASE <= KERNEL_LINK /\ KERNEL_LINK < data /\ data < end /\ end <= RamEnd
         /\ end <= MM_PAGEUP(end) /\ MM_PAGEUP(end) <= RamEnd /\ RamEnd + PGSIZE <= ADDRSPACE
         /\ mm_is_page_aligned(KERNEL_BASE) /\ mm_is_page_aligned(KERNEL_LINK)
         /\ mm_is_page_aligned(data) /\ mm_is_page_aligned(MM_PAGEUP(end))
<1>1. /\ KERNEL_BASE \in Nat /\ RamEnd \in Nat /\ PGSIZE \in Nat \ {0} /\ ADDRSPACE \in Nat \ {0}
      /\ RamEnd + PGSIZE <= ADDRSPACE /\ mm_is_page_aligned(RamEnd)
      /\ mm_is_page_aligned(KERNEL_BASE) /\ EXTENDED \in Nat /\ mm_is_page_aligned(EXTENDED)
  BY HalfSpace, RamEndAligned, VmAssumption, LayoutAssumption DEF mm_is_page_aligned
<1>2. KERNEL_LINK \in Nat /\ KERNEL_BASE <= KERNEL_LINK
  BY <1>1 DEF KERNEL_LINK
<1>3. mm_is_page_aligned(KERNEL_LINK)
  BY <1>1, AlignedSum DEF KERNEL_LINK
<1>4. /\ data \in Nat /\ end \in Nat /\ KERNEL_LINK < data /\ data < end /\ end <= RamEnd
      /\ mm_is_page_aligned(data)
  BY <1>1, <1>2 DEF LayoutInv, PagesIn
<1>5. PICK e \in Nat : e = end /\ e + PGSIZE <= ADDRSPACE /\ e <= RamEnd
  BY <1>1, <1>4
<1>6. MM_PAGEUP(e) \in Nat /\ e <= MM_PAGEUP(e) /\ mm_is_page_aligned(MM_PAGEUP(e))
  BY <1>1, <1>5, PageUp
<1>7. MM_PAGEUP(e) <= RamEnd
  BY <1>1, <1>5, NoPageBelowRoundUp
<1>. QED
  BY <1>1, <1>2, <1>3, <1>4, <1>5, <1>6, <1>7

\* A page lies in the image when it lies below the kernel's end, rounded up.
LEMMA ImagePages ==
  ASSUME LayoutInv
  PROVE  /\ Image = PagesIn(KERNEL_BASE, MM_PAGEUP(end))
         /\ Image \subseteq Page
         /\ Image = Page \ PagesIn(MM_PAGEUP(end), RamEnd)
<1>1. PICK b, e, u, r \in Nat :
        /\ b = KERNEL_BASE /\ e = end /\ u = MM_PAGEUP(end) /\ r = RamEnd
        /\ b <= e /\ e <= u /\ u <= r /\ e + PGSIZE <= ADDRSPACE /\ ADDRSPACE \in Nat
  <2>1. KERNEL_BASE <= end /\ end + PGSIZE <= ADDRSPACE
    BY Bounds
  <2>. QED
    BY <2>1, Bounds
<1>2. \A p \in Int : mm_is_page_aligned(p) => (p < e <=> p < u)
  BY <1>1, NoPageBelowRoundUp
<1>3. Image = PagesIn(b, u)
  BY <1>1, <1>2 DEF Image, PagesIn
<1>4. PagesIn(b, u) = Page \ PagesIn(u, r)
  BY <1>1, KvmAssumption DEF Page, PagesIn
<1>. QED
  BY <1>1, <1>3, <1>4

\* The end of the boot window is the end of the allocator's memory.
LEMMA WindowEnd == MM_PAGEUP(MM_VIRTADDR(SPAN)) = RamEnd
<1>1. /\ KERNEL_BASE \in Nat /\ SPAN \in Nat /\ RamEnd \in Nat /\ PGSIZE \in Nat \ {0}
      /\ ADDRSPACE \in Nat \ {0} /\ RamEnd + PGSIZE <= ADDRSPACE /\ mm_is_page_aligned(RamEnd)
  BY HalfSpace, RamEndAligned, VmAssumption
<1>2. SPAN + KERNEL_BASE = RamEnd /\ RamEnd \in 0..(ADDRSPACE - 1)
  BY <1>1, KvmAssumption
<1>3. MM_VIRTADDR(SPAN) = RamEnd
  BY <1>1, <1>2, SmallMod DEF MM_VIRTADDR
<1>4. MM_PAGEUP(RamEnd) \in Nat /\ RamEnd <= MM_PAGEUP(RamEnd)
  BY <1>1, PageUp
<1>5. MM_PAGEUP(RamEnd) <= RamEnd
  BY <1>1, NoPageBelowRoundUp
<1>. QED
  BY <1>1, <1>3, <1>4, <1>5

\* The pages of a range, counted.
LEMMA PageAt ==
  ASSUME NEW first \in Nat, NEW last \in Nat, first <= last,
         mm_is_page_aligned(first), mm_is_page_aligned(last)
  PROVE  /\ (last - first) \div PGSIZE \in Nat
         /\ \A i \in 1..((last - first) \div PGSIZE) :
              /\ first + (i - 1) * PGSIZE \in PagesIn(first, last)
              /\ \A j \in 1..((last - first) \div PGSIZE) :
                   first + (i - 1) * PGSIZE = first + (j - 1) * PGSIZE => i = j
<1>1. PICK g \in Nat \ {0} : g = PGSIZE
  BY LayoutAssumption
<1>2. PICK f \in Int : first = g * f
  BY <1>1, DivMod DEF mm_is_page_aligned
<1>3. PICK n \in Int : n = (last - first) \div g /\ g * n <= last - first /\ last - first < g * n + g
  <2>1. PICK c \in Int : c = last - first
    OBVIOUS
  <2>2. PICK n \in Int, r \in 0..(g - 1) : n = c \div g /\ r = c % g /\ c = g * n + r
    BY <1>1, Divided
  <2>. QED
    BY <1>1, <2>1, <2>2
<1>4. n \in Nat
  BY <1>1, <1>3
<1>5. ASSUME NEW i \in 1..n PROVE first + (i - 1) * g \in PagesIn(first, last)
  <2>1. first + (i - 1) * g = g * (f + (i - 1)) /\ f + (i - 1) \in Int
    BY <1>1, <1>2, <1>4
  <2>2. (g * (f + (i - 1))) % g = 0
    BY <1>1, <2>1, MultMod
  <2>3. (i - 1) * g \in Nat /\ (i - 1) * g + g = g * i /\ g * i <= g * n
    BY <1>1, <1>4
  <2>4. first + (i - 1) * g \in first..(last - 1)
    BY <1>1, <1>3, <2>3
  <2>. QED
    BY <1>1, <2>1, <2>2, <2>4 DEF PagesIn, mm_is_page_aligned
<1>6. ASSUME NEW i \in 1..n, NEW j \in 1..n, first + (i - 1) * g = first + (j - 1) * g PROVE i = j
  <2>1. (i - 1) * g = (j - 1) * g
    BY <1>1, <1>4, <1>6
  <2>. QED
    BY <1>1, <1>4, <2>1
<1>. QED
  BY <1>1, <1>3, <1>4, <1>5, <1>6

-----------------------------------------------------------------------------
(* Memory. *)

\* The image never changes, so what holds for its pages holds for the image.
LEMMA SameImage ==
  ASSUME NEW reserved, reserved = Image, UNCHANGED end, VmInv(reserved)'
  PROVE  VmInv(Image)'
<1>1. Image' = reserved
  BY DEF Image
<1>. QED
  BY <1>1 DEF VmInv, Tables, TablesDisjoint

LEMMA ImageIsOut == ASSUME MemoryInv PROVE Image \subseteq Page /\ Image \subseteq out
<1>1. Image \subseteq Page
  BY ImagePages DEF MemoryInv
<1>. QED
  BY <1>1 DEF MemoryInv, VmInv, Tables, TablesDisjoint, StageInv

LEMMA StillInv ==
  ASSUME MemoryInv, UNCHANGED <<words, free, out, directory, linked, layout>>,
         call' \in Call, call'.busy => directory # NoPage,
         status' \in {"running", "align_assert", "null_page"},
         pc \in Early <=> pc' \in Early, pc = "create" <=> pc' = "create"
  PROVE  MemoryInv' /\ Kept(Image) /\ StalePages' = StalePages /\ \A p : Walk(p)' = Walk(p)
<1>1. PICK reserved : reserved = Image
  OBVIOUS
<1>2. VmInv(reserved)
  BY <1>1 DEF MemoryInv
<1>3. VmInv(reserved)' /\ StalePages' = StalePages /\ \A p : Walk(p)' = Walk(p)
  BY <1>2, VmStill
<1>4. VmInv(Image)'
  BY <1>1, <1>3, SameImage DEF layout
<1>5. LayoutInv' /\ StageInv'
  BY DEF MemoryInv, LayoutInv, StageInv, Image, layout
<1>6. Kept(Image)
  BY ImageIsOut DEF Kept
<1>. QED
  BY <1>3, <1>4, <1>5, <1>6 DEF MemoryInv

\* What MemoryInv says of the call.
LEMMA CallType ==
  ASSUME MemoryInv
  PROVE  /\ call \in Call /\ (call.busy => directory # NoPage)
         /\ status \in {"running", "align_assert", "null_page"}
BY DEF MemoryInv, VmInv, TypeInv, TypeOK, Strayed

LEMMA MappingInv ==
  ASSUME MemoryInv, MapStep, ~vm_map_page_stray, UNCHANGED <<layout, pc>>
  PROVE  MemoryInv' /\ Kept(Image)
<1>1. PICK reserved : reserved = Image
  OBVIOUS
<1>2. VmInv(reserved) /\ reserved \subseteq out
  BY <1>1, ImageIsOut DEF MemoryInv
<1>3. VmInv(reserved)' /\ Kept(reserved)
  BY <1>2, StepInv
<1>4. VmInv(Image)' /\ Kept(Image)
  BY <1>1, <1>3, SameImage DEF layout, Kept
<1>5. call.busy /\ UNCHANGED directory
  BY DEF MapStep, vm_map_page_assert, vm_map_page_table, new_table, vm_map_page_exhausted,
     vm_map_page_entry, store_entry, vm_map_pages_return, InLoop
<1>6. directory # NoPage
  BY <1>5, CallType
<1>7. LayoutInv' /\ StageInv'
  BY <1>5, <1>6 DEF MemoryInv, LayoutInv, StageInv, layout
<1>. QED
  BY <1>4, <1>7 DEF MemoryInv

LEMMA BeginInv ==
  ASSUME MemoryInv,
         NEW vaddr \in Address, NEW paddr \in Address, NEW size \in Address,
         NEW permissions \in SUBSET {"RW", "US"},
         vm_map_pages(vaddr, paddr, size, permissions),
         UNCHANGED layout, pc \in Late, pc' \in Late
  PROVE  /\ MemoryInv' /\ Kept(Image) /\ StalePages' = StalePages /\ \A p : Walk(p)' = Walk(p)
         /\ UNCHANGED <<directory, linked>> /\ ~call.busy /\ call'.busy /\ call'.permissions = permissions
         /\ call'.curr = MM_PAGEDOWN(vaddr) /\ call'.paddr = paddr
         /\ call'.last = MM_PAGEUP((vaddr + size) % ADDRSPACE)
<1>1. PICK r \in Request :
        r.vaddr = vaddr /\ r.paddr = paddr /\ r.size = size /\ r.permissions = permissions
  <2>. DEFINE r == [vaddr |-> vaddr, paddr |-> paddr, size |-> size, permissions |-> permissions]
  <2>1. r \in Request
    BY DEF Request
  <2>. QED
    BY <2>1
<1>2. vm_map_pages(r.vaddr, r.paddr, r.size, r.permissions)
  BY <1>1
<1>3. call' \in Call /\ directory # NoPage
  BY <1>2, BeginCall
<1>4. /\ UNCHANGED <<words, free, out, directory, linked, status>> /\ ~call.busy
      /\ call' = [vaddr |-> vaddr, from |-> paddr, size |-> size, permissions |-> permissions,
                  total_maps |-> 0, busy |-> TRUE, curr |-> MM_PAGEDOWN(vaddr), paddr |-> paddr,
                  last |-> MM_PAGEUP((vaddr + size) % ADDRSPACE)]
  BY DEF vm_map_pages, begin
<1>5. pc \notin Early /\ pc' \notin Early /\ pc # "create" /\ pc' # "create"
  BY DEF Early, Late
<1>6. MemoryInv' /\ Kept(Image) /\ StalePages' = StalePages /\ \A p : Walk(p)' = Walk(p)
  BY <1>3, <1>4, <1>5, CallType, StillInv
<1>. QED
  BY <1>4, <1>6

LEMMA FreeInv == ASSUME MemoryInv, kvm_init_free PROVE MemoryInv' /\ Kept(Image)
<1>1. /\ pc = "free" /\ pc' = "create" /\ give_pages(MM_PAGEUP(end), RamEnd)
      /\ UNCHANGED <<words, directory, linked, call, status, data, end, x86_page_directory>>
  BY WindowEnd DEF kvm_init_free, kpfree_range, layout, At
<1>2. VmInv(Image) /\ LayoutInv /\ StageInv
  BY DEF MemoryInv
<1>3. directory = NoPage /\ out = Page /\ linked = {}
  BY <1>1, <1>2 DEF StageInv, Early
<1>4. PICK first \in Nat :
        /\ first = MM_PAGEUP(end) /\ mm_is_page_aligned(first) /\ KERNEL_BASE <= first
        /\ first <= RamEnd /\ Image = Page \ PagesIn(first, RamEnd)
  <2>1. KERNEL_BASE <= MM_PAGEUP(end)
    BY <1>2, Bounds
  <2>. QED
    BY <1>2, <2>1, Bounds, ImagePages
<1>5. RamEnd \in Nat /\ mm_is_page_aligned(RamEnd) /\ KERNEL_BASE \in Nat
  BY HalfSpace, RamEndAligned
<1>6. PICK n \in Nat : n = (RamEnd - first) \div PGSIZE
  BY <1>4, <1>5, PageAt
<1>7. /\ free' = [i \in 1..n |-> first + (i - 1) * PGSIZE]
      /\ out' = Image
  BY <1>1, <1>3, <1>4, <1>6 DEF give_pages
<1>8. \A i \in 1..n :
        /\ first + (i - 1) * PGSIZE \in PagesIn(first, RamEnd)
        /\ \A j \in 1..n : first + (i - 1) * PGSIZE = first + (j - 1) * PGSIZE => i = j
  BY <1>4, <1>5, <1>6, PageAt
<1>9. PagesIn(first, RamEnd) \subseteq Page
  BY <1>4, <1>5, KvmAssumption DEF Page, PagesIn
<1>10. free' \in Seq(Page) /\ Len(free') = n
  BY <1>7, <1>8, <1>9
<1>11. QueueInv'
  BY <1>4, <1>7, <1>8, <1>10 DEF QueueInv
<1>12. TypeInv' /\ ~Strayed' /\ LayoutInv'
  <2>1. TypeInv /\ ~Strayed
    BY <1>2 DEF VmInv
  <2>2. ~Strayed'
    BY <1>1, <2>1 DEF Strayed
  <2>3. out' \in SUBSET Page
    BY <1>4, <1>7
  <2>4. TypeInv'
    BY <1>1, <1>10, <2>1, <2>3 DEF TypeInv, TypeOK
  <2>5. LayoutInv'
    BY <1>1, <1>2 DEF LayoutInv
  <2>. QED
    BY <2>2, <2>4, <2>5
<1>13. Image' = Image
  BY <1>1 DEF Image
<1>14. Tables(Image)' /\ StageInv'
  <2>1. directory' = NoPage /\ linked' = {} /\ pc' = "create" /\ out' = Image'
    BY <1>1, <1>3, <1>7, <1>13
  <2>2. Tables(Image)'
    BY <2>1 DEF Tables
  <2>3. StageInv'
    BY <2>1 DEF StageInv, Early
  <2>. QED
    BY <2>2, <2>3
<1>15. Kept(Image)
  BY <1>1, <1>7 DEF Kept
<1>16. VmInv(Image)'
  BY <1>11, <1>12, <1>14 DEF VmInv
<1>. QED
  BY <1>12, <1>14, <1>15, <1>16 DEF MemoryInv

\* The new directory has no table yet.
LEMMA CreateInv ==
  ASSUME MemoryInv, kvm_create
  PROVE  /\ MemoryInv' /\ Kept(Image)
         /\ directory' # NoPage /\ linked' = {}
<1>1. /\ pc = "create" /\ pc' = "io" /\ ~call.busy /\ FQ!Alloc /\ directory' = Head(free)
      /\ words' = [words EXCEPT ![Head(free)] = Recycled(@)]
      /\ UNCHANGED <<linked, call, status, data, end, x86_page_directory>>
  BY DEF kvm_create, layout, At
<1>2. TypeInv /\ QueueInv /\ LayoutInv /\ StageInv /\ ~Strayed
  BY DEF MemoryInv, VmInv
<1>3. PICK h \in Page : h = Head(free) /\ h \notin out /\ out' = out \cup {h}
  BY <1>1, <1>2, AllocTakes
<1>4. directory = NoPage /\ out = Image /\ linked = {} /\ directory' = h /\ h # NoPage
  BY <1>1, <1>2, <1>3, VmAssumption DEF StageInv, Early
<1>5. words' \in [Page -> [Index -> Entry]] /\ \A p \in Page \ {h} : words'[p] = words[p]
  <2>1. Recycled(words[h]) \in [Index -> Entry]
    BY <1>2, RecycledType DEF TypeInv, TypeOK
  <2>. QED
    BY <1>1, <1>2, <1>3, <2>1 DEF TypeInv, TypeOK
<1>6. Image' = Image
  BY <1>1 DEF Image
<1>7. TypeInv' /\ LayoutInv' /\ QueueInv' /\ ~Strayed'
  <2>1. /\ out' \subseteq Page /\ free' \in Seq(Page) /\ QueueInv'
    BY <1>1, <1>2, AllocTakes
  <2>. QED
    BY <1>1, <1>2, <1>3, <1>4, <1>5, <2>1 DEF TypeInv, TypeOK, LayoutInv, Strayed
<1>8. TablesDisjoint(Image)'
  BY <1>1, <1>3, <1>4, <1>6, <1>7 DEF TablesDisjoint, QueueInv
<1>9. Tables(Image)'
  BY <1>1, <1>3, <1>4, <1>6, <1>8 DEF Tables
<1>10. StageInv'
  BY <1>1, <1>4 DEF StageInv, Early
<1>11. Kept(Image)
  BY <1>3, <1>4, <1>5, ImageIsOut DEF Kept
<1>. QED
  BY <1>1, <1>4, <1>7, <1>9, <1>10, <1>11 DEF MemoryInv, VmInv

-----------------------------------------------------------------------------
(* The three calls. *)

\* What each call asks for, and where it ends: at the start of the next.
LEMMA Parts ==
  ASSUME LayoutInv
  PROVE  /\ KERNEL_BASE \in Address /\ KERNEL_LINK \in Address /\ data \in Address
         /\ 0 \in Address /\ EXTENDED \in Address /\ MM_PHYSADDR(data) \in Address
         /\ MM_PHYSADDR(data) - EXTENDED \in Address /\ end - data \in Address
         /\ EXTENDED = KERNEL_LINK - KERNEL_BASE /\ MM_PHYSADDR(data) = data - KERNEL_BASE
         /\ \A a \in {KERNEL_BASE, KERNEL_LINK, data} : MM_PAGEDOWN(a) = a
         /\ MM_PAGEUP((KERNEL_BASE + EXTENDED) % ADDRSPACE) = KERNEL_LINK
         /\ MM_PAGEUP((KERNEL_LINK + (MM_PHYSADDR(data) - EXTENDED)) % ADDRSPACE) = data
         /\ MM_PAGEUP((data + (end - data)) % ADDRSPACE) = MM_PAGEUP(end)
<1>1. PICK b, l, dt, e, m, g, x \in Nat :
        /\ b = KERNEL_BASE /\ l = KERNEL_LINK /\ dt = data /\ e = end
        /\ m = ADDRSPACE /\ m # 0 /\ g = PGSIZE /\ g # 0 /\ x = EXTENDED
        /\ b <= l /\ l < dt /\ dt < e /\ e + g <= m /\ l = b + x
        /\ mm_is_page_aligned(b) /\ mm_is_page_aligned(l) /\ mm_is_page_aligned(dt)
  <2>1. end + PGSIZE <= ADDRSPACE
    BY Bounds
  <2>2. EXTENDED \in Nat /\ KERNEL_LINK = KERNEL_BASE + EXTENDED
    BY LayoutAssumption DEF KERNEL_LINK
  <2>. QED
    BY <2>1, <2>2, Bounds
<1>2. PICK f \in Nat : f = dt - b /\ f \in 0..(m - 1)
  BY <1>1
<1>3. MM_PHYSADDR(data) = f
  BY <1>1, <1>2, SmallMod DEF MM_PHYSADDR
<1>4. \A a \in {b, l, dt} : MM_PAGEDOWN(a) = a
  BY <1>1 DEF MM_PAGEDOWN, mm_is_page_aligned
<1>5. l % m = l /\ dt % m = dt /\ e % m = e
  <2>1. l \in 0..(m - 1) /\ dt \in 0..(m - 1) /\ e \in 0..(m - 1)
    BY <1>1
  <2>. QED
    BY <1>1, <2>1, SmallMod
<1>6. ASSUME NEW a \in {l, dt} PROVE MM_PAGEUP(a) = a
  <2>1. a \in Nat /\ a + PGSIZE <= ADDRSPACE /\ ADDRSPACE \in Nat /\ mm_is_page_aligned(a)
    BY <1>1
  <2>2. MM_PAGEUP(a) \in Nat /\ a <= MM_PAGEUP(a)
    BY <2>1, PageUp
  <2>3. MM_PAGEUP(a) <= a
    BY <2>1, NoPageBelowRoundUp
  <2>. QED
    BY <2>1, <2>2, <2>3
<1>7. b + x = l /\ l + (f - x) = dt /\ dt + (e - dt) = e
  BY <1>1, <1>2
<1>8. /\ MM_PAGEUP((b + x) % m) = l /\ MM_PAGEUP((l + (f - x)) % m) = dt
      /\ MM_PAGEUP((dt + (e - dt)) % m) = MM_PAGEUP(e)
  BY <1>5, <1>6, <1>7
<1>9. /\ b \in Address /\ l \in Address /\ dt \in Address /\ 0 \in Address /\ x \in Address
      /\ f \in Address /\ f - x \in Address /\ e - dt \in Address
  BY <1>1, <1>2 DEF Address
<1>. QED
  BY <1>1, <1>2, <1>3, <1>4, <1>8, <1>9

\* The step that begins a call, and the call.
Begins(here, there, vaddr, last, permissions) ==
  /\ pc = here /\ pc' = there /\ ~call.busy /\ call'.busy
  /\ call'.curr = vaddr /\ call'.paddr = vaddr - KERNEL_BASE /\ call'.last = last
  /\ call'.permissions = permissions

LEMMA BeginPart ==
  ASSUME MemoryInv, kvm_create_io \/ kvm_create_text \/ kvm_create_data
  PROVE  /\ MemoryInv' /\ Kept(Image) /\ StalePages' = StalePages /\ \A p : Walk(p)' = Walk(p)
         /\ UNCHANGED <<directory, linked, layout, mode, low, kpagedir_>>
         /\ \/ Begins("io", "text", KERNEL_BASE, KERNEL_LINK, {"RW"})
            \/ Begins("text", "data", KERNEL_LINK, data, {})
            \/ Begins("data", "return", data, MM_PAGEUP(end), {"RW"})
<1>1. LayoutInv
  BY DEF MemoryInv
<1>2. KERNEL_BASE \in Nat /\ KERNEL_LINK \in Nat /\ data \in Nat
  BY <1>1, Bounds
<1>3. CASE kvm_create_io
  <2>1. /\ pc = "io" /\ pc' = "text" /\ pc \in Late /\ pc' \in Late
        /\ vm_map_pages(KERNEL_BASE, 0, EXTENDED, {"RW"})
        /\ UNCHANGED <<layout, mode, low, kpagedir_>>
    BY <1>3 DEF kvm_create_io, create_io, At, Late
  <2>2. /\ MemoryInv' /\ Kept(Image) /\ StalePages' = StalePages /\ \A p : Walk(p)' = Walk(p)
        /\ UNCHANGED <<directory, linked>> /\ ~call.busy /\ call'.busy /\ call'.permissions = {"RW"}
        /\ call'.curr = MM_PAGEDOWN(KERNEL_BASE) /\ call'.paddr = 0
        /\ call'.last = MM_PAGEUP((KERNEL_BASE + EXTENDED) % ADDRSPACE)
    BY <1>1, <2>1, Parts, BeginInv
  <2>3. Begins("io", "text", KERNEL_BASE, KERNEL_LINK, {"RW"})
    BY <1>1, <1>2, <2>1, <2>2, Parts DEF Begins
  <2>. QED
    BY <2>1, <2>2, <2>3
<1>4. CASE kvm_create_text
  <2>1. /\ pc = "text" /\ pc' = "data" /\ pc \in Late /\ pc' \in Late
        /\ vm_map_pages(KERNEL_LINK, EXTENDED, MM_PHYSADDR(data) - EXTENDED, {})
        /\ UNCHANGED <<layout, mode, low, kpagedir_>>
    BY <1>4 DEF kvm_create_text, At, Late
  <2>2. /\ MemoryInv' /\ Kept(Image) /\ StalePages' = StalePages /\ \A p : Walk(p)' = Walk(p)
        /\ UNCHANGED <<directory, linked>> /\ ~call.busy /\ call'.busy /\ call'.permissions = {}
        /\ call'.curr = MM_PAGEDOWN(KERNEL_LINK) /\ call'.paddr = EXTENDED
        /\ call'.last = MM_PAGEUP((KERNEL_LINK + (MM_PHYSADDR(data) - EXTENDED)) % ADDRSPACE)
    BY <1>1, <2>1, Parts, BeginInv
  <2>3. Begins("text", "data", KERNEL_LINK, data, {})
    BY <1>1, <1>2, <2>1, <2>2, Parts DEF Begins
  <2>. QED
    BY <2>1, <2>2, <2>3
<1>5. CASE kvm_create_data
  <2>1. /\ pc = "data" /\ pc' = "return" /\ pc \in Late /\ pc' \in Late
        /\ vm_map_pages(data, MM_PHYSADDR(data), end - data, {"RW"})
        /\ UNCHANGED <<layout, mode, low, kpagedir_>>
    BY <1>5 DEF kvm_create_data, create_data, At, Late
  <2>2. /\ MemoryInv' /\ Kept(Image) /\ StalePages' = StalePages /\ \A p : Walk(p)' = Walk(p)
        /\ UNCHANGED <<directory, linked>> /\ ~call.busy /\ call'.busy /\ call'.permissions = {"RW"}
        /\ call'.curr = MM_PAGEDOWN(data) /\ call'.paddr = MM_PHYSADDR(data)
        /\ call'.last = MM_PAGEUP((data + (end - data)) % ADDRSPACE)
    BY <1>1, <2>1, Parts, BeginInv
  <2>3. Begins("data", "return", data, MM_PAGEUP(end), {"RW"})
    BY <1>1, <1>2, <2>1, <2>2, Parts DEF Begins
  <2>. QED
    BY <2>1, <2>2, <2>3
<1>. QED
  BY <1>3, <1>4, <1>5

-----------------------------------------------------------------------------
(* All steps. *)

LEMMA MemoryInit == ASSUME BootInit PROVE MemoryInv
<1>1. TypeInv /\ ~Strayed
  BY VmAssumption, NoCallType DEF BootInit, TypeInv, TypeOK, Strayed
<1>2. QueueInv /\ LayoutInv
  BY DEF BootInit, QueueInv, LayoutInv
<1>3. Tables(Image) /\ StageInv
  BY DEF BootInit, Tables, StageInv, Early
<1>. QED
  BY <1>1, <1>2, <1>3 DEF MemoryInv, VmInv

\* The steps that leave memory and the calls alone.
Aside ==
  \/ start_pse \/ start_cr3 \/ start_paging \/ higher_half \/ kvm_init_unmap
  \/ kvm_create_exhausted \/ kvm_init_return \/ tlb_drop \/ tlb_load

LEMMA AsideStep ==
  ASSUME Aside
  PROVE  /\ UNCHANGED <<words, free, out, directory, linked, call, layout>>
         /\ status' \in {status, "null_page"}
         /\ pc \in Early <=> pc' \in Early
         /\ pc = "create" <=> pc' = "create"
BY DEF Aside, start_pse, start_cr3, start_paging, set_control, higher_half, go_on_in, kvm_init_unmap,
   kvm_create_exhausted, kvm_init_return, tlb_drop, tlb_load, At, vars, Early

LEMMA AsideInv ==
  ASSUME MemoryInv, Aside
  PROVE  MemoryInv' /\ Kept(Image) /\ StalePages' = StalePages /\ \A p : Walk(p)' = Walk(p)
<1>1. call' \in Call /\ (call'.busy => directory # NoPage)
  BY AsideStep, CallType
<1>2. status' \in {"running", "align_assert", "null_page"}
  BY AsideStep, CallType
<1>. QED
  BY <1>1, <1>2, AsideStep, StillInv

LEMMA Cases ==
  BootNext <=> \/ Aside
               \/ kvm_init_free \/ kvm_create
               \/ kvm_create_io \/ kvm_create_text \/ kvm_create_data
               \/ mapping
BY DEF BootNext, KernelStep, Aside

LEMMA MemoryStep == ASSUME MemoryInv, BootNext, ~vm_map_page_stray PROVE MemoryInv' /\ Kept(Image)
<1>1. CASE Aside
  BY <1>1, AsideInv
<1>2. CASE kvm_init_free
  BY <1>2, FreeInv
<1>3. CASE kvm_create
  BY <1>3, CreateInv
<1>4. CASE kvm_create_io \/ kvm_create_text \/ kvm_create_data
  BY <1>4, BeginPart
<1>5. CASE mapping
  BY <1>5, MappingInv DEF mapping
<1>. QED
  BY <1>1, <1>2, <1>3, <1>4, <1>5, Cases

\* Only _start and kvm_init_unmap touch the processor's mode and the boot directory.
LEMMA ModeStep == ASSUME LayoutInv, ModeInv, [BootNext]_bvars PROVE LayoutInv' /\ ModeInv'
<1>. USE DEF layout, mode, low, At, ModeInv, Early, Late
<1>1. MM_PHYSADDR(x86_page_directory) \in Address
  <2>1. x86_page_directory - KERNEL_BASE \in Int
    BY Bounds DEF LayoutInv, PagesIn
  <2>. QED
    BY <2>1, AddressMod DEF MM_PHYSADDR
<1>2. UNCHANGED layout
  BY DEF start_pse, start_cr3, start_paging, set_control, higher_half, go_on_in, kvm_init_unmap,
     kvm_create_exhausted, kvm_init_return, tlb_drop, tlb_load, kvm_init_free, kvm_create,
     kvm_create_io, create_io, kvm_create_text, kvm_create_data, create_data, mapping,
     BootNext, KernelStep, bvars
<1>3. LayoutInv' /\ MM_PHYSADDR(x86_page_directory)' = MM_PHYSADDR(x86_page_directory)
  BY <1>2 DEF LayoutInv, MM_PHYSADDR
<1>4. CASE start_pse
  BY <1>3, <1>4 DEF start_pse, set_control
<1>5. CASE start_cr3
  BY <1>1, <1>3, <1>5 DEF start_cr3, set_control
<1>6. CASE start_paging
  BY <1>3, <1>6 DEF start_paging, set_control
<1>7. CASE higher_half
  BY <1>3, <1>7 DEF higher_half, go_on_in
<1>8. CASE kvm_init_unmap
  BY <1>3, <1>8 DEF kvm_init_unmap
<1>9. CASE kvm_init_free \/ kvm_create \/ kvm_create_exhausted \/ kvm_init_return
  BY <1>3, <1>9 DEF kvm_init_free, kvm_create, kvm_create_exhausted, kvm_init_return
<1>10. CASE kvm_create_io \/ kvm_create_text \/ kvm_create_data
  BY <1>3, <1>10 DEF kvm_create_io, create_io, kvm_create_text, kvm_create_data, create_data
<1>11. CASE mapping \/ tlb_drop \/ tlb_load
  BY <1>3, <1>11 DEF mapping, tlb_drop, tlb_load
<1>12. CASE UNCHANGED bvars
  BY <1>3, <1>12 DEF bvars
<1>. QED
  BY <1>3, <1>4, <1>5, <1>6, <1>7, <1>8, <1>9, <1>10, <1>11, <1>12 DEF BootNext, KernelStep

LEMMA ModeInit == BootInit => LayoutInv /\ ModeInv
<1>1. 0 \in Address
  BY HalfSpace DEF Address
<1>. SUFFICES ASSUME BootInit PROVE LayoutInv /\ ModeInv
  OBVIOUS
<1>2. LayoutInv
  BY DEF BootInit, LayoutInv
<1>3. /\ pc = "pse" /\ control = [pse |-> FALSE, pg |-> FALSE, wp |-> FALSE, cr3 |-> 0]
      /\ half = "low" /\ lowmapped = TRUE /\ lowcached = FALSE
  BY DEF BootInit
<1>4. ModeInv
  BY <1>1, <1>3 DEF ModeInv, Early
<1>. QED
  BY <1>2, <1>4

-----------------------------------------------------------------------------
(* Translations. *)

LEMMA HalfIndex ==
  \A p \in KernelHalf :
    /\ p \in Frame /\ p \in Address /\ mm_is_page_aligned(p) /\ p >= KERNEL_BASE
    /\ X86_PD_INDEX(p) \in Index \ {0}
<1>. SUFFICES ASSUME NEW p \in KernelHalf
     PROVE  /\ p \in Frame /\ p \in Address /\ mm_is_page_aligned(p) /\ p >= KERNEL_BASE
            /\ X86_PD_INDEX(p) \in Index \ {0}
  OBVIOUS
<1>1. p \in Frame /\ p \in Address /\ mm_is_page_aligned(p) /\ p >= KERNEL_BASE
  BY DEF KernelHalf, Frame, PagesIn, Address
<1>2. PICK w, g, n, b \in Nat \ {0} :
        /\ w = SPAN /\ g = PGSIZE /\ n = NENTRIES /\ b = KERNEL_BASE
        /\ w = n * g /\ w < b
  <2>1. SPAN < KERNEL_BASE
    BY HalfSpace, VmAssumption, KvmAssumption
  <2>. QED
    BY <2>1, HalfSpace DEF SPAN
<1>3. PICK i, j \in 0..(n - 1) :
        /\ i = X86_PD_INDEX(p) /\ j = X86_PT_INDEX(p) /\ p = w * i + g * j
  BY <1>1, <1>2, PageIndex
<1>4. i # 0
  <2>1. CASE i = 0
    <3>1. p = g * j
      BY <1>2, <1>3, <2>1
    <3>2. g * j <= g * n
      BY <1>2, <1>3
    <3>. QED
      BY <1>1, <1>2, <3>1, <3>2
  <2>. QED
    BY <2>1
<1>. QED
  BY <1>1, <1>2, <1>3, <1>4 DEF Index

\* What a page of each part is meant to be.
LEMMA Translations ==
  ASSUME LayoutInv, NEW p \in KernelHalf
  PROVE  /\ p < KERNEL_LINK => KernelTranslation(p) = [frame |-> p - KERNEL_BASE, rights |-> {"RW"}]
         /\ KERNEL_LINK <= p /\ p < data =>
              KernelTranslation(p) = [frame |-> p - KERNEL_BASE, rights |-> {}]
         /\ data <= p /\ p < MM_PAGEUP(end) =>
              KernelTranslation(p) = [frame |-> p - KERNEL_BASE, rights |-> {"RW"}]
         /\ MM_PAGEUP(end) <= p => KernelTranslation(p) = Unmapped
<1>1. PICK b, l, dt, u, m \in Nat :
        /\ b = KERNEL_BASE /\ l = KERNEL_LINK /\ dt = data /\ u = MM_PAGEUP(end)
        /\ m = ADDRSPACE /\ m # 0 /\ b <= l /\ l < dt /\ dt < u
  <2>1. data < MM_PAGEUP(end)
    BY Bounds
  <2>. QED
    BY <2>1, Bounds
<1>2. p \in Nat /\ p < m /\ p >= b /\ mm_is_page_aligned(p)
  BY <1>1, HalfIndex DEF Address
<1>3. MM_PHYSADDR(p) = p - b /\ (p - b) % m = p - b
  BY <1>1, <1>2, SmallMod DEF MM_PHYSADDR
<1>4. /\ To(MM_PHYSADDR(p), {"RW"}) = [frame |-> p - b, rights |-> {"RW"}]
      /\ To(MM_PHYSADDR(p), {}) = [frame |-> p - b, rights |-> {}]
  BY <1>1, <1>3 DEF To
<1>5. p \in PagesIn(KERNEL_LINK, data) <=> l <= p /\ p < dt
  BY <1>1, <1>2 DEF PagesIn
<1>6. p \in Image <=> p < u
  BY <1>1, <1>2, ImagePages DEF PagesIn
<1>. QED
  BY <1>1, <1>2, <1>4, <1>5, <1>6 DEF KernelTranslation

\* A step that changes no translation and keeps the frontier.
LEMMA StillMapped ==
  ASSUME KernelInv, \A p : Walk(p)' = Walk(p), UNCHANGED <<directory, linked, layout>>,
         StalePages' = StalePages, Frontier' = Frontier, PartInv', DoneInv'
  PROVE  KernelInv'
<1>1. \A p : KernelTranslation(p)' = KernelTranslation(p)
  BY DEF KernelTranslation, Image, layout
<1>2. KernelHalf' = KernelHalf
  BY DEF KernelHalf
<1>3. MappedInv'
  BY <1>1, <1>2 DEF KernelInv, MappedInv
<1>. QED
  BY <1>3 DEF KernelInv

\* A table of zeros changes no translation.
LEMMA NewTableMapped ==
  ASSUME MemoryInv, KernelInv, vm_map_page_table, UNCHANGED <<layout, pc, kpagedir_>>
  PROVE  KernelInv'
<1>1. UNCHANGED <<directory, call, data, end, pc, kpagedir_>> /\ linked \subseteq linked'
  BY DEF vm_map_page_table, new_table, layout
<1>2. PICK reserved : reserved = Image
  OBVIOUS
<1>3. VmInv(reserved)
  BY <1>2 DEF MemoryInv
<1>4. StalePages' = StalePages /\ \A p \in KernelHalf \ StalePages : Walk(p)' = Walk(p)
  BY <1>3, NewTableInv, TableWalk, HalfIndex
<1>5. Frontier' = Frontier /\ \A p \in KernelHalf : KernelTranslation(p)' = KernelTranslation(p)
  BY <1>1 DEF Frontier, KernelTranslation, Image
<1>6. PartInv' /\ DoneInv'
  BY <1>1 DEF KernelInv, PartInv, DoneInv
<1>7. MappedInv'
  <2>1. \A p \in KernelHalf : X86_PD_INDEX(p) \in linked => p \notin StalePages
    BY DEF StalePages
  <2>. QED
    BY <1>1, <1>4, <1>5, <2>1 DEF KernelInv, MappedInv
<1>. QED
  BY <1>6, <1>7 DEF KernelInv

\* The step that moves the frontier.
LEMMA NewEntryMapped ==
  ASSUME MemoryInv, KernelInv, vm_map_page_entry, UNCHANGED <<layout, pc, kpagedir_>>
  PROVE  KernelInv'
<1>1. /\ InLoop /\ UNCHANGED <<directory, linked, data, end, pc, kpagedir_>>
      /\ X86_PD_INDEX(call.curr) \in linked
  BY DEF vm_map_page_entry, store_entry, layout
<1>2. call \in Call /\ call.busy /\ call.curr < call.last /\ LayoutInv /\ directory # NoPage /\ TypeInv
  BY <1>1, CallType DEF MemoryInv, VmInv, InLoop
<1>3. /\ mm_is_page_aligned(call.curr) /\ mm_is_page_aligned(call.last)
      /\ call.paddr = call.curr - KERNEL_BASE
      /\ KERNEL_BASE <= call.curr /\ call.last <= RamEnd
      /\ call.permissions \in {{}, {"RW"}}
  <2>1. call.curr \in Int /\ call.last \in Int
    BY <1>2 DEF Call
  <2>. QED
    BY <1>2, <2>1, Bounds DEF KernelInv, PartInv
<1>4. PICK c, l, b, g, m \in Nat :
        /\ c = call.curr /\ l = call.last /\ b = KERNEL_BASE /\ g = PGSIZE /\ m = ADDRSPACE
        /\ g # 0 /\ m # 0 /\ b <= c /\ c < l /\ l <= RamEnd /\ l + g <= m
  <2>1. call.curr \in Nat /\ call.last \in Nat
    BY <1>2 DEF Call
  <2>2. /\ KERNEL_BASE \in Nat /\ PGSIZE \in Nat \ {0} /\ ADDRSPACE \in Nat \ {0} /\ RamEnd \in Nat
        /\ RamEnd + PGSIZE <= ADDRSPACE
    BY <1>2, Bounds
  <2>3. call.last + PGSIZE <= ADDRSPACE
    BY <1>3, <2>1, <2>2
  <2>. QED
    BY <1>2, <1>3, <2>1, <2>2, <2>3
<1>5. c + g <= l /\ mm_is_page_aligned(c + g)
  BY <1>3, <1>4, AlignedGap, AlignedStep DEF mm_is_page_aligned
<1>6. (c - b + g) % m = (c + g) - b
  <2>1. PICK a \in 0..(m - 1) : a = (c + g) - b /\ a = c - b + g
    BY <1>4, <1>5
  <2>. QED
    BY <1>4, <2>1, SmallMod
<1>7. /\ call'.curr = c + g /\ call'.paddr = (c + g) - b /\ call'.busy
      /\ call'.last = call.last /\ call'.permissions = call.permissions
  BY <1>2, <1>3, <1>4, <1>6, NextPage
<1>8. PartInv'
  <2>1. b <= c /\ KERNEL_BASE \in Int /\ KERNEL_LINK \in Int /\ data \in Int
    BY <1>2, <1>4, Bounds
  <2>2. MM_PAGEUP(end)' = MM_PAGEUP(end)
    BY <1>1 DEF MM_PAGEUP, MM_PAGEDOWN
  <2>. QED
    BY <1>1, <1>2, <1>4, <1>5, <1>7, <2>1, <2>2 DEF KernelInv, PartInv
<1>9. c \in KernelHalf /\ call.curr \in Frame
  BY <1>3, <1>4 DEF KernelHalf, Frame, PagesIn
<1>10. /\ StalePages' = StalePages /\ c \notin StalePages
       /\ \A p \in KernelHalf \ StalePages :
            Walk(p)' = IF p = c THEN [frame |-> c - b, rights |-> call.permissions] ELSE Walk(p)
  <2>1. PICK reserved : reserved = Image
    OBVIOUS
  <2>2. VmInv(reserved)
    BY <2>1 DEF MemoryInv
  <2>3. c \notin StalePages
    BY <1>1, <1>4 DEF StalePages
  <2>. QED
    BY <1>3, <1>4, <1>9, <2>2, <2>3, NewEntryInv, EntryWalk, HalfIndex
<1>11. KernelTranslation(c) = [frame |-> c - b, rights |-> call.permissions]
  <2>1. \/ c < KERNEL_LINK /\ call.permissions = {"RW"}
        \/ KERNEL_LINK <= c /\ c < data /\ call.permissions = {}
        \/ data <= c /\ c < MM_PAGEUP(end) /\ call.permissions = {"RW"}
    BY <1>2, <1>4 DEF KernelInv, PartInv
  <2>. QED
    BY <1>2, <1>4, <1>9, <2>1, Translations
<1>12. Frontier = c /\ Frontier' = c + g
  BY <1>2, <1>4, <1>7 DEF Frontier
<1>13. \A p \in KernelHalf : KernelTranslation(p)' = KernelTranslation(p) /\ (p < c + g <=> p < c \/ p = c)
  <2>. SUFFICES ASSUME NEW p \in KernelHalf
       PROVE  KernelTranslation(p)' = KernelTranslation(p) /\ (p < c + g <=> p < c \/ p = c)
    OBVIOUS
  <2>1. KernelTranslation(p)' = KernelTranslation(p)
    BY <1>1 DEF KernelTranslation, Image
  <2>2. p \in Int /\ mm_is_page_aligned(p)
    BY HalfIndex DEF Address
  <2>3. p < c + PGSIZE <=> p <= c
    BY <1>3, <1>4, <2>2, NextBoundary
  <2>. QED
    BY <1>4, <2>1, <2>2, <2>3
<1>14. MappedInv'
  <2>. SUFFICES ASSUME NEW p \in KernelHalf
       PROVE  IF p < c + g THEN X86_PD_INDEX(p) \in linked /\ Walk(p)' = KernelTranslation(p)
              ELSE p \in StalePages \/ Walk(p)' = Unmapped
    BY <1>1, <1>10, <1>12, <1>13 DEF MappedInv
  <2>1. CASE p = c
    BY <1>1, <1>4, <1>10, <1>11, <1>13, <2>1
  <2>2. CASE p # c /\ p \in StalePages
    <3>1. ~(p < c)
      BY <1>2, <1>12, <2>2 DEF KernelInv, MappedInv, StalePages
    <3>. QED
      BY <1>13, <2>2, <3>1
  <2>3. CASE p # c /\ p \notin StalePages
    <3>1. IF p < c THEN X86_PD_INDEX(p) \in linked /\ Walk(p) = KernelTranslation(p)
          ELSE Walk(p) = Unmapped
      BY <1>2, <1>12, <2>3 DEF KernelInv, MappedInv
    <3>2. Walk(p)' = Walk(p)
      BY <1>10, <2>3
    <3>. QED
      BY <1>13, <2>3, <3>1, <3>2
  <2>. QED
    BY <2>1, <2>2, <2>3
<1>15. DoneInv'
  BY <1>1 DEF KernelInv, DoneInv
<1>. QED
  BY <1>8, <1>14, <1>15 DEF KernelInv

LEMMA ReturnMapped ==
  ASSUME MemoryInv, KernelInv, vm_map_pages_return, UNCHANGED <<layout, pc, kpagedir_>>
  PROVE  KernelInv'
<1>1. /\ call.busy /\ ~(call.curr < call.last) /\ call' = NoCall
      /\ UNCHANGED <<words, directory, linked, data, end, pc, kpagedir_>>
  BY DEF vm_map_pages_return, layout
<1>2. ~call'.busy
  BY <1>1, NoCallType
<1>3. call.curr \in Int /\ call.last \in Int
  BY CallType DEF Call
<1>4. call.curr = call.last
  BY <1>1, <1>3 DEF KernelInv, PartInv
<1>5. Frontier = call.last
  BY <1>1, <1>4 DEF Frontier
<1>6. Frontier' = call.last
  <2>1. MM_PAGEUP(end)' = MM_PAGEUP(end)
    BY <1>1 DEF MM_PAGEUP, MM_PAGEDOWN
  <2>. QED
    BY <1>1, <1>2, <2>1 DEF KernelInv, PartInv, Frontier
<1>7. StalePages' = StalePages /\ \A p : Walk(p)' = Walk(p)
  BY <1>1 DEF Walk, StalePages
<1>8. PartInv' /\ DoneInv'
  BY <1>1, <1>2 DEF KernelInv, PartInv, DoneInv
<1>. QED
  BY <1>1, <1>5, <1>6, <1>7, <1>8, StillMapped

LEMMA MappingMapped ==
  ASSUME MemoryInv, KernelInv, mapping, ~vm_map_page_stray
  PROVE  KernelInv'
<1>1. MapStep /\ UNCHANGED <<layout, pc, kpagedir_>>
  BY DEF mapping
<1>2. CASE vm_map_page_assert \/ vm_map_page_exhausted
  <2>1. UNCHANGED <<words, directory, linked, call, data, end, pc, kpagedir_>>
    BY <1>1, <1>2 DEF vm_map_page_assert, vm_map_page_exhausted, layout
  <2>2. Frontier' = Frontier /\ PartInv' /\ DoneInv' /\ StalePages' = StalePages
        /\ \A p : Walk(p)' = Walk(p)
    BY <2>1 DEF KernelInv, PartInv, DoneInv, Frontier, Walk, StalePages
  <2>. QED
    BY <1>1, <2>1, <2>2, StillMapped
<1>. QED
  BY <1>1, <1>2, NewTableMapped, NewEntryMapped, ReturnMapped DEF MapStep

\* Each call of kvm_create starts where the one before ended.
LEMMA BeginMapped ==
  ASSUME MemoryInv, KernelInv, kvm_create_io \/ kvm_create_text \/ kvm_create_data
  PROVE  KernelInv'
<1>1. /\ StalePages' = StalePages /\ \A p : Walk(p)' = Walk(p)
      /\ UNCHANGED <<directory, linked, layout, kpagedir_>>
      /\ \/ Begins("io", "text", KERNEL_BASE, KERNEL_LINK, {"RW"})
         \/ Begins("text", "data", KERNEL_LINK, data, {})
         \/ Begins("data", "return", data, MM_PAGEUP(end), {"RW"})
  BY BeginPart
<1>2. LayoutInv
  BY DEF MemoryInv
<1>3. /\ KERNEL_BASE \in Nat /\ KERNEL_LINK \in Nat /\ data \in Nat /\ MM_PAGEUP(end) \in Nat
      /\ KERNEL_BASE <= KERNEL_LINK /\ KERNEL_LINK <= data /\ data <= MM_PAGEUP(end)
      /\ mm_is_page_aligned(KERNEL_BASE) /\ mm_is_page_aligned(KERNEL_LINK) /\ mm_is_page_aligned(data)
  <2>1. KERNEL_LINK <= data /\ data <= MM_PAGEUP(end)
    BY <1>2, Bounds
  <2>. QED
    BY <1>2, <2>1, Bounds
<1>4. data' = data /\ MM_PAGEUP(end)' = MM_PAGEUP(end)
  BY <1>1 DEF layout, MM_PAGEUP, MM_PAGEDOWN
<1>5. Frontier' = Frontier
  BY <1>1 DEF Begins, Frontier
<1>6. PartInv'
  BY <1>1, <1>3, <1>4 DEF Begins, PartInv
<1>7. DoneInv'
  BY <1>1 DEF Begins, KernelInv, DoneInv
<1>. QED
  BY <1>1, <1>5, <1>6, <1>7, StillMapped

\* A new directory translates nothing of the kernel half.
LEMMA CreateMapped == ASSUME MemoryInv, KernelInv, kvm_create PROVE KernelInv'
<1>1. /\ pc = "create" /\ pc' = "io" /\ ~call.busy
      /\ UNCHANGED <<call, data, end, kpagedir_>>
  BY DEF kvm_create, layout, At
<1>2. directory' # NoPage /\ linked' = {}
  BY CreateInv
<1>4. Frontier' = KERNEL_BASE
  BY <1>1 DEF Frontier
<1>5. MappedInv'
  <2>1. \A p \in KernelHalf : p \in StalePages' \/ Walk(p)' = Unmapped
    BY <1>2, HalfIndex DEF Walk, StalePages
  <2>2. \A p \in KernelHalf : ~(p < KERNEL_BASE)
    BY HalfIndex, HalfSpace DEF Address
  <2>. QED
    BY <1>4, <2>1, <2>2 DEF MappedInv
<1>. QED
  BY <1>1, <1>5 DEF KernelInv, PartInv, DoneInv

LEMMA AsideMapped == ASSUME MemoryInv, KernelInv, Aside PROVE KernelInv'
<1>1. /\ UNCHANGED <<directory, linked, call, layout>> /\ StalePages' = StalePages
      /\ (\A p : Walk(p)' = Walk(p))
      /\ (pc \in Early <=> pc' \in Early)
  BY AsideStep, AsideInv
<1>2. /\ \/ pc \in Early /\ pc' \in Early /\ kpagedir_' = kpagedir_
         \/ pc' = pc /\ kpagedir_' = kpagedir_
         \/ pc = "return" /\ pc' = "done" /\ ~call.busy /\ kpagedir_' = directory
  BY DEF Aside, start_pse, start_cr3, start_paging, set_control, higher_half, go_on_in, kvm_init_unmap,
     kvm_create_exhausted, kvm_init_return, tlb_drop, tlb_load, At, Early
<1>3. CASE pc \in Early /\ pc' \in Early /\ kpagedir_' = kpagedir_
  <2>1. directory' = NoPage /\ ~call.busy /\ UNCHANGED call
    BY <1>1, <1>3, CallType DEF MemoryInv, StageInv
  <2>. QED
    BY <1>3, <2>1 DEF KernelInv, PartInv, MappedInv, DoneInv, Early
<1>4. CASE pc' = pc /\ kpagedir_' = kpagedir_
  <2>1. Frontier' = Frontier /\ PartInv' /\ DoneInv'
    BY <1>1, <1>4 DEF KernelInv, PartInv, DoneInv, Frontier, layout, MM_PAGEUP, MM_PAGEDOWN
  <2>. QED
    BY <1>1, <2>1, StillMapped
<1>5. CASE pc = "return" /\ pc' = "done" /\ ~call.busy /\ kpagedir_' = directory
  <2>1. Frontier' = Frontier /\ PartInv'
    BY <1>1, <1>5 DEF PartInv, Frontier, layout, MM_PAGEUP, MM_PAGEDOWN
  <2>2. DoneInv'
    BY <1>5 DEF MemoryInv, VmInv, TypeInv, TypeOK, DoneInv
  <2>. QED
    BY <1>1, <2>1, <2>2, StillMapped
<1>. QED
  BY <1>2, <1>3, <1>4, <1>5

LEMMA MappedStep ==
  ASSUME MemoryInv, KernelInv, BootNext, ~vm_map_page_stray
  PROVE  KernelInv'
<1>1. CASE kvm_init_free
  <2>1. /\ pc = "free" /\ pc' = "create" /\ UNCHANGED <<directory, call, kpagedir_>>
    BY <1>1 DEF kvm_init_free, At
  <2>2. directory = NoPage /\ ~call.busy
    BY <2>1, CallType DEF MemoryInv, StageInv, Early
  <2>. QED
    BY <2>1, <2>2 DEF KernelInv, PartInv, MappedInv, DoneInv
<1>. QED
  BY <1>1, AsideMapped, BeginMapped, CreateMapped, MappingMapped, Cases

-----------------------------------------------------------------------------
(* The invariant. *)

\* A stale word has been used, before the directory was finished.
LostInv == Strayed /\ TypeInv /\ LayoutInv /\ kpagedir_ = NoPage

KvmInv == ModeInv /\ (LostInv \/ (MemoryInv /\ KernelInv))

\* No page of the image is freed or written, unless a stale word is used.
Spared == Strayed' \/ Kept(Image)

LEMMA KvmInit == ASSUME BootInit PROVE KvmInv
<1>1. KernelInv
  BY NoCallType DEF BootInit, KernelInv, PartInv, MappedInv, DoneInv
<1>. QED
  BY <1>1, MemoryInit, ModeInit DEF KvmInv

LEMMA KvmStutter ==
  ASSUME MemoryInv, KernelInv, UNCHANGED bvars
  PROVE  MemoryInv' /\ KernelInv'
<1>1. /\ UNCHANGED <<words, free, out, directory, linked, call, status, layout, pc, kpagedir_>>
      /\ data' = data /\ end' = end
  BY DEF bvars, vars, layout
<1>2. MemoryInv' /\ StalePages' = StalePages /\ \A p : Walk(p)' = Walk(p)
  BY <1>1, CallType, StillInv
<1>3. Frontier' = Frontier /\ PartInv' /\ DoneInv'
  BY <1>1 DEF KernelInv, PartInv, DoneInv, Frontier, MM_PAGEUP, MM_PAGEDOWN
<1>. QED
  BY <1>1, <1>2, <1>3, StillMapped

\* The step that uses a stale word.
LEMMA StraySteps ==
  ASSUME MemoryInv, KernelInv, BootNext, vm_map_page_stray
  PROVE  LostInv'
<1>1. call.busy /\ status = "running" /\ status' = "stray_store" /\ UNCHANGED call
  BY DEF vm_map_page_stray, store_entry, InLoop
<1>2. UNCHANGED <<layout, kpagedir_>>
  <2>1. CASE mapping
    BY <2>1 DEF mapping
  <2>2. CASE tlb_drop \/ tlb_load
    BY <2>2 DEF tlb_drop, tlb_load
  <2>. QED
    BY <1>1, <2>1, <2>2 DEF BootNext, KernelStep, start_pse, start_cr3, start_paging, set_control,
       higher_half, go_on_in, kvm_init_unmap, kvm_init_free, kvm_create, kvm_create_exhausted,
       kvm_create_io, create_io, kvm_create_text, kvm_create_data, create_data, kvm_init_return, At
<1>3. kpagedir_ = NoPage
  BY <1>1 DEF KernelInv, PartInv, DoneInv
<1>4. TypeInv' /\ Strayed'
  BY StrayTypes DEF MemoryInv, VmInv
<1>. QED
  BY <1>2, <1>3, <1>4 DEF LostInv, MemoryInv, LayoutInv, layout

\* From then on only the processor's cache changes.
LEMMA LostStays ==
  ASSUME LostInv, [BootNext]_bvars
  PROVE  LostInv'
<1>1. UNCHANGED <<vars, layout, kpagedir_>>
  BY DEF LostInv, Strayed, bvars, BootNext, KernelStep, start_pse, start_cr3, start_paging, set_control,
     higher_half, go_on_in, kvm_init_unmap, kvm_init_free, kvm_create, kvm_create_exhausted,
     kvm_create_io, create_io, kvm_create_text, kvm_create_data, create_data, kvm_init_return, At,
     mapping, tlb_drop, tlb_load, MapStep, vm_map_page_assert, vm_map_page_table, new_table,
     vm_map_page_exhausted, vm_map_page_entry, vm_map_page_stray, store_entry, vm_map_pages_return,
     InLoop
<1>. QED
  BY <1>1 DEF LostInv, Strayed, TypeInv, TypeOK, LayoutInv, vars, layout

LEMMA KvmInductive == KvmInv /\ [BootNext]_bvars => KvmInv' /\ [Spared]_bvars
<1>. SUFFICES ASSUME KvmInv, [BootNext]_bvars PROVE KvmInv' /\ [Spared]_bvars
  OBVIOUS
<1>1. LayoutInv /\ ModeInv
  BY DEF KvmInv, MemoryInv, LostInv
<1>2. ModeInv'
  BY <1>1, ModeStep
<1>3. CASE LostInv
  BY <1>2, <1>3, LostStays DEF KvmInv, Spared, LostInv
<1>4. CASE MemoryInv /\ KernelInv /\ BootNext /\ vm_map_page_stray
  BY <1>2, <1>4, StraySteps DEF KvmInv, Spared, LostInv
<1>5. CASE MemoryInv /\ KernelInv /\ BootNext /\ ~vm_map_page_stray
  BY <1>2, <1>5, MemoryStep, MappedStep DEF KvmInv, Spared
<1>6. CASE MemoryInv /\ KernelInv /\ UNCHANGED bvars
  BY <1>2, <1>6, KvmStutter DEF KvmInv
<1>. QED
  BY <1>3, <1>4, <1>5, <1>6 DEF KvmInv

LEMMA KvmInvariance == BootSpec => []KvmInv /\ [][Spared]_bvars
<1>1. BootInit => KvmInv
  BY KvmInit
<1>2. KvmInv /\ [BootNext]_bvars => KvmInv' /\ [Spared]_bvars
  BY KvmInductive
<1>. QED
  BY <1>1, <1>2, PTL DEF BootSpec

-----------------------------------------------------------------------------
(* The theorems. *)

\* However large the kernel is and wherever its parts lie, every address the
\* boot computes is an address, every word it stores is an entry, and what
\* kpagedir_ points to is a page of the allocator.
THEOREM BootTypes == BootSpec => []BootTypeOK
<1>1. KvmInv => BootTypeOK
  <2>. SUFFICES ASSUME KvmInv PROVE BootTypeOK
    OBVIOUS
  <2>1. TypeOK /\ LayoutInv /\ ModeInv /\ kpagedir_ \in Page \cup {NoPage}
    BY DEF KvmInv, LostInv, MemoryInv, VmInv, TypeInv, KernelInv, DoneInv
  <2>2. data \in Address /\ end \in Address
    <3>1. PICK d, e, r, m, g \in Nat :
            /\ d = data /\ e = end /\ r = RamEnd /\ m = ADDRSPACE /\ g = PGSIZE
            /\ d < e /\ e <= r /\ r + g <= m /\ g # 0
      BY <2>1, Bounds
    <3>. QED
      BY <3>1 DEF Address
  <2>3. half \in {"low", "high"}
    BY <2>1 DEF ModeInv
  <2>4. pc \in {"pse", "cr3", "paging", "jump", "unmap", "free", "create", "io", "text", "data",
                "return", "done"}
    BY <2>1 DEF ModeInv, Early, Late
  <2>. QED
    BY <2>1, <2>2, <2>3, <2>4 DEF BootTypeOK, LayoutInv, ModeInv
<1>. QED
  BY <1>1, KvmInvariance, PTL

\* Whatever RAM held, however large the kernel is and wherever its parts lie, until
\* a stale word of the directory is used no table of the new directory is shared,
\* free, or one of the kernel's own pages, and none is lost.
THEOREM TablesArePrivate == BootSpec => []BootTablesPrivate
<1>1. KvmInv => BootTablesPrivate
  BY DEF KvmInv, LostInv, MemoryInv, VmInv, Tables, BootTablesPrivate, TablesDisjoint
<1>. QED
  BY <1>1, KvmInvariance, PTL

\* Until a stale word of the directory is used, neither kpfree_range nor a store of
\* vm_map_pages reaches a page that holds a byte of the kernel, whatever RAM held
\* and whatever the linker put where.
THEOREM ImageIsUntouched == BootSpec => ImageUntouched
<1>1. [Spared]_bvars => [~Strayed' => /\ Image \subseteq out'
                                      /\ \A p \in Image : words'[p] = words[p]]_bvars
  BY DEF Spared, Kept
<1>. QED
  BY <1>1, KvmInvariance, PTL DEF ImageUntouched

\* While the kernel turns paging on, jumps, and takes the low window away, its
\* next instruction stays mapped, whatever RAM holds.
THEOREM CodeStaysMapped == BootSpec => []NextInstructionMapped
<1>1. LayoutInv /\ ModeInv /\ [BootNext]_bvars => LayoutInv' /\ ModeInv'
  BY ModeStep
<1>2. ModeInv => NextInstructionMapped
  BY DEF ModeInv, NextInstructionMapped
<1>. QED
  BY <1>1, <1>2, ModeInit, PTL DEF BootSpec

\* Whatever RAM held and wherever the linker put .data and the end, the directory
\* that kvm_create has built translates every page of the kernel as it should, and
\* every other page of the kernel half as RAM's own words do or not at all: no gap,
\* no overlap, nothing more.
THEOREM KernelIsMapped == BootSpec => []KernelMapped
<1>1. KvmInv => KernelMapped
  <2>. SUFFICES ASSUME KvmInv, kpagedir_ # NoPage, NEW p \in KernelHalf,
                       p \in Image \/ p \notin StalePages
       PROVE  Walk(p) = KernelTranslation(p)
    <3>1. \A q \in Image : q >= KERNEL_BASE
      BY HalfSpace DEF Image, PagesIn
    <3>. QED
      BY <3>1 DEF KernelMapped, KernelHalf
  <2>1. LayoutInv /\ StageInv /\ PartInv /\ MappedInv /\ pc = "done"
    BY DEF KvmInv, LostInv, MemoryInv, KernelInv, DoneInv
  <2>2. directory # NoPage
    BY <2>1 DEF StageInv, Early
  <2>3. Frontier = MM_PAGEUP(end)
    BY <2>1 DEF PartInv, Frontier
  <2>4. ~(p < MM_PAGEUP(end)) => KernelTranslation(p) = Unmapped
    BY <2>1, Translations, Bounds, HalfIndex DEF Address
  <2>5. p \in Image => p < MM_PAGEUP(end)
    BY <2>1, ImagePages, Bounds DEF PagesIn
  <2>. QED
    BY <2>1, <2>2, <2>3, <2>4, <2>5 DEF MappedInv
<1>. QED
  BY <1>1, KvmInvariance, PTL

\* At no moment, not even between the calls or when memory runs out, can the
\* kernel's code be written through the tables the kernel made.
THEOREM TextIsReadOnly == BootSpec => []TextNeverWritable
<1>1. KvmInv => TextNeverWritable
  <2>. SUFFICES ASSUME KvmInv, ~Strayed, NEW p \in PagesIn(KERNEL_LINK, data), p \notin StalePages
       PROVE  "RW" \notin Walk(p).rights
    BY DEF TextNeverWritable
  <2>1. LayoutInv /\ MappedInv
    BY DEF KvmInv, LostInv, MemoryInv, KernelInv
  <2>2. p \in KernelHalf /\ KERNEL_LINK <= p /\ p < data
    BY <2>1, Bounds DEF PagesIn, KernelHalf, Frame
  <2>3. KernelTranslation(p).rights = {}
    BY <2>1, <2>2, Translations
  <2>4. Unmapped.rights = {}
    BY DEF Unmapped
  <2>5. CASE directory = NoPage
    BY <2>4, <2>5 DEF Walk
  <2>6. CASE directory # NoPage
    BY <2>1, <2>2, <2>3, <2>4, <2>6 DEF MappedInv
  <2>. QED
    BY <2>5, <2>6
<1>. QED
  BY <1>1, KvmInvariance, PTL

=============================================================================
