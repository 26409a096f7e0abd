--------------------------------- MODULE Kvm ---------------------------------
(***************************************************************************)
(* Entering the kernel and building its address space: _start of           *)
(* arch/i386/asm/entry.S, which turns paging on with the boot mapping of   *)
(* arch/i386/paging.c, then kvm_init and kvm_create of kernel/mm/kvm.c,    *)
(* which kmain calls once with interrupts off.                             *)
(*                                                                         *)
(* The boot mapping has two 4 MB pages: [0, 4MB) and the window            *)
(* [KERNEL_BASE, KERNEL_BASE + 4MB), both to physical [0, 4MB).  The       *)
(* allocator's pages are pages of the window.  Where .data starts, where   *)
(* the kernel ends and where the boot directory lies in between is up to   *)
(* the linker, so all are chosen at the start.  The processor may cache    *)
(* the first of the two translations, which entry.S runs on (lowcached).   *)
(***************************************************************************)
EXTENDS Vm

ASSUME KvmAssumption ==
  /\ RamStart = KERNEL_BASE /\ RamEnd = KERNEL_BASE + SPAN
  /\ EXTENDED \in Nat \ {0} /\ EXTENDED < SPAN

VARIABLES
  data, end, x86_page_directory,  \* the linker's symbols
  pc,          \* how far the kernel is
  control,     \* the processor's CR4.PSE, CR0.PG, CR0.WP, and CR3
  half,        \* which of the two windows it runs in
  lowmapped,   \* x86_page_directory[0] is present
  lowcached,   \* the processor holds the translation of [0, 4MB)
  kpagedir_

layout == <<data, end, x86_page_directory>>
mode   == <<control, half>>
low    == <<lowmapped, lowcached>>
bvars  == <<vars, layout, pc, mode, low, kpagedir_>>

\* The pages that hold a byte of the kernel, or of what lies below it.
Image == PagesIn(KERNEL_BASE, end)

-----------------------------------------------------------------------------
\* The linker aligns data; the .data section holds x86_page_directory, which is
\* aligned, and the boot mapping covers all of the kernel.  The loader enters
\* without paging.
BootInit ==
  /\ data \in PagesIn(KERNEL_LINK + 1, RamEnd)
  /\ end \in (data + 1)..RamEnd
  /\ x86_page_directory \in PagesIn(data, end) /\ x86_page_directory + PGSIZE <= end
  /\ words \in Garbage
  /\ free = <<>>
  /\ out = Page
  /\ directory = NoPage
  /\ linked = {}
  /\ call = NoCall
  /\ status = "running"
  /\ pc = "pse"
  /\ control = [pse |-> FALSE, pg |-> FALSE, wp |-> FALSE, cr3 |-> 0]
  /\ half = "low"
  /\ lowmapped = TRUE /\ lowcached = FALSE
  /\ kpagedir_ = NoPage

At(here, there) == status = "running" /\ ~call.busy /\ pc = here /\ pc' = there

\* _start: large pages, the directory, then paging with write protection.
set_control(here, there, registers) ==
  /\ At(here, there)
  /\ control' = registers
  /\ UNCHANGED <<vars, layout, half, low, kpagedir_>>

start_pse == set_control("pse", "cr3", [control EXCEPT !.pse = TRUE])

start_cr3 == set_control("cr3", "paging", [control EXCEPT !.cr3 = MM_PHYSADDR(x86_page_directory)])

start_paging == set_control("paging", "jump", [control EXCEPT !.pg = TRUE, !.wp = TRUE])

go_on_in(window) ==
  /\ At("jump", "unmap")
  /\ half' = window
  /\ UNCHANGED <<vars, layout, control, low, kpagedir_>>

\* Mutant: kmain is called without the jump, and calls are relative.
higher_half_called == go_on_in(half)

\* jmp *%ecx, the stack, and the call of kmain, whose assertion is about the
\* address kmain is linked at.
higher_half == go_on_in("high")

kvm_init_unmap ==
  /\ At("unmap", "free")
  /\ lowmapped' = FALSE
  /\ UNCHANGED <<vars, layout, mode, lowcached, kpagedir_>>

\* The pages of a range, in order.
give_pages(first, last) ==
  /\ free' = [i \in 1..((last - first) \div PGSIZE) |-> first + (i - 1) * PGSIZE]
  /\ out' = out \ PagesIn(first, last)

\* Mutants: the page the kernel ends in is freed; a page too many is freed.
kpfree_range_down(start, stop) == give_pages(MM_PAGEDOWN(start), MM_PAGEUP(stop))
kpfree_range_over(start, stop) == give_pages(MM_PAGEUP(start), MM_PAGEUP(stop) + PGSIZE)

\* Page by page in Pages.tla.
kpfree_range(start, stop) == give_pages(MM_PAGEUP(start), MM_PAGEUP(stop))

kvm_init_free ==
  /\ At("free", "create")
  /\ kpfree_range(end, MM_VIRTADDR(SPAN))
  /\ UNCHANGED <<words, directory, linked, call, status, layout, mode, low, kpagedir_>>

kvm_create ==
  /\ At("create", "io")
  /\ FQ!Alloc
  /\ directory' = Head(free)
  /\ words' = [words EXCEPT ![Head(free)] = Recycled(@)]
  /\ UNCHANGED <<linked, call, status, layout, mode, low, kpagedir_>>

\* The free list is empty: kpalloc goes through the null page.
kvm_create_exhausted ==
  /\ At("create", "create")
  /\ free = <<>>
  /\ status' = "null_page"
  /\ UNCHANGED <<words, free, out, directory, linked, call, layout, mode, low, kpagedir_>>

create_io(size) ==
  /\ At("io", "text")
  /\ vm_map_pages(KERNEL_BASE, 0, size, {"RW"})
  /\ UNCHANGED <<layout, mode, low, kpagedir_>>

\* Mutant: one page of the kernel's text with the devices.
kvm_create_io_long == create_io(EXTENDED + PGSIZE)

kvm_create_io == create_io(EXTENDED)

kvm_create_text ==
  /\ At("text", "data")
  /\ vm_map_pages(KERNEL_LINK, EXTENDED, MM_PHYSADDR(data) - EXTENDED, {})
  /\ UNCHANGED <<layout, mode, low, kpagedir_>>

create_data(size) ==
  /\ At("data", "return")
  /\ vm_map_pages(data, MM_PHYSADDR(data), size, {"RW"})
  /\ UNCHANGED <<layout, mode, low, kpagedir_>>

\* Mutant: the end of the kernel, as an address from 0 on, for a length.
kvm_create_data_long == create_data(MM_PHYSADDR(end))

kvm_create_data == create_data(end - data)

kvm_init_return ==
  /\ At("return", "done")
  /\ kpagedir_' = directory
  /\ UNCHANGED <<vars, layout, mode, low>>

mapping == MapStep /\ UNCHANGED <<layout, pc, mode, low, kpagedir_>>

KernelStep ==
  \/ start_pse \/ start_cr3 \/ start_paging \/ higher_half
  \/ kvm_init_unmap \/ kvm_init_free
  \/ kvm_create \/ kvm_create_exhausted
  \/ kvm_create_io \/ kvm_create_text \/ kvm_create_data
  \/ kvm_init_return \/ mapping

\* The processor drops a cached translation whenever it likes, and loads one
\* when the directory has it.
tlb_drop == lowcached /\ lowcached' = FALSE /\ UNCHANGED <<vars, layout, pc, mode, lowmapped, kpagedir_>>

tlb_load ==
  /\ control.pg /\ lowmapped /\ ~lowcached
  /\ lowcached' = TRUE
  /\ UNCHANGED <<vars, layout, pc, mode, lowmapped, kpagedir_>>

BootNext == KernelStep \/ tlb_drop \/ tlb_load

\* The processor executes the kernel's instructions.
BootSpec == BootInit /\ [][BootNext]_bvars /\ WF_bvars(KernelStep)

-----------------------------------------------------------------------------
(* Properties. *)

BootTypeOK ==
  /\ TypeOK
  /\ data \in Address /\ end \in Address
  /\ x86_page_directory \in PagesIn(data, end)
  /\ control \in [pse : BOOLEAN, pg : BOOLEAN, wp : BOOLEAN, cr3 : Address]
  /\ half \in {"low", "high"}
  /\ pc \in {"pse", "cr3", "paging", "jump", "unmap", "free", "create", "io", "text", "data", "return",
             "done"}
  /\ lowmapped \in BOOLEAN /\ lowcached \in BOOLEAN
  /\ kpagedir_ \in Page \cup {NoPage}

\* As TablesPrivate, and none of the kernel's own pages, the boot directory among
\* them, is a table or was ever freed: what is out is the image and the tables.
BootTablesPrivate == ~Strayed => TablesDisjoint(Image)

\* The translation the kernel directory is meant to have for a page of the
\* kernel half: devices and .data writable, .text and .rodata read-only.
KernelTranslation(p) ==
  IF p \in PagesIn(KERNEL_LINK, data) THEN To(MM_PHYSADDR(p), {})
  ELSE IF p \in Image THEN To(MM_PHYSADDR(p), {"RW"})
  ELSE Unmapped

\* The next instruction is always mapped.  Without paging that is the low
\* half; with it, the processor walks the boot directory (whose entries are
\* large pages), and the low half is left before its entry is cleared, so that
\* no step depends on what the processor has cached.
NextInstructionMapped ==
  /\ control.pg => control.pse /\ control.cr3 = MM_PHYSADDR(x86_page_directory)
  /\ half = "high" => control.pg
  /\ half = "low" => lowmapped

\* Wherever the linker put .data and the end, the directory kvm_create builds
\* maps every page of the kernel with its rights, and of the rest of the kernel
\* half nothing but what a stale word of the directory maps: the three calls of
\* vm_map_pages leave no gap and no overlap.
KernelMapped ==
  kpagedir_ # NoPage =>
    \A p \in Frame : p \in Image \/ (p >= KERNEL_BASE /\ p \notin StalePages)
                      => Walk(p) = KernelTranslation(p)

\* At no time, not even between two of the calls, do tables the kernel made let
\* its code be written.
TextNeverWritable ==
  ~Strayed => \A p \in PagesIn(KERNEL_LINK, data) \ StalePages : "RW" \notin Walk(p).rights

\* Until a stale word of the directory is used, nothing hands out or writes a page
\* that holds a byte of the kernel, the last page of .bss included, but for the
\* two stores of kvm_init to x86_page_directory[0] and to kpagedir_ itself.
ImageUntouched ==
  [][~Strayed' => /\ Image \subseteq out'
                  /\ \A p \in Image : words'[p] = words[p]]_bvars

\* With room for a directory and one table above the kernel, kvm_init returns,
\* or uses a stale word.
RoomForTables == MM_PAGEUP(end) + 2 * PGSIZE <= RamEnd

BootFinishes == RoomForTables ~> (pc = "done" \/ Strayed)

-----------------------------------------------------------------------------
(* Two comments of the code. *)

LowReachable == lowmapped \/ lowcached

\* kvm.c:60-62, "we can now unmap the Virtual Range [0, 4MB)": when kvm_init has
\* returned an access to the range faults.
LowIsUnmapped == pc = "done" => ~LowReachable

\* vm.h:12, "Create a new page with the kernel vm mapping": the new directory
\* maps nothing below the kernel half.
OnlyKernelMapped ==
  kpagedir_ # NoPage => \A p \in Frame : p < KERNEL_BASE => Walk(p) = Unmapped

=============================================================================
