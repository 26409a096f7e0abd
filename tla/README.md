# YACK in TLA+

YACK is a small i386 kernel: it boots with paging on, prints on a VGA text
screen and a serial port, frees the memory above its image, builds a page
directory of its own, installs segments and trap handlers, and waits for the
keyboard.  This directory holds TLA+ models of its parts, the TLC runs that
check them on small instances, and the theorems about them that TLAPS checks
for every value of the constants.

Read `FrameQueue.tla` and `Pages.tla` first, then `Vm.tla` and `Kvm.tla`;
`Trap.tla`, `Write.tla`, `Format.tla`, `Lists.tla`, `HLists.tla` and `MemOp.tla`
stand on their own.

## 1. The system

Everything runs on one processor.  There are no threads: the only concurrency
is the trap.  Until the keyboard is initialised interrupts are off, so before
that only an exception can interrupt the code; every gate is an interrupt
gate (IF = 0 in the handler), so handlers nest only by exceptions.

| Component | Source | State | Operations | Talks to |
|---|---|---|---|---|
| Physical page allocator | `kernel/mm/pages.c` | `registry_` (list head), and the first words of every free page | `kpalloc`, `kpfree`, `kpfree_range` | lists; called by Kernel address space and Page mapping |
| Address arithmetic | `arch/i386/include/memlayout.h`, `x86.h` | none | rounding, table indices, physical/virtual conversion | everyone in `mm` |
| Intrusive lists | `utils/include/list.h` | the nodes inside other structures | 25 `list_*` and 15 `hlist_*` operations, iteration macros | the allocator is the only client |
| Page mapping | `kernel/mm/kvm.c:84-240` | page directory and page tables | `vm_map_pages`, `vm_map_page_` | allocator; the processor walks the result |
| Kernel address space | `kernel/mm/kvm.c:1-82` | `kpagedir_`, `x86_page_directory[0]` | `kvm_init`, `kvm_create`, `kmv_switch` | allocator, Page mapping; called by `kmain` |
| Boot entry | `arch/i386/asm/entry.S`, `paging.c` | CR0, CR3, CR4, the boot directory | one path, into `kmain` | |
| Segments | `arch/i386/gdt.c`, `gdt.h` | the GDT, GDTR, segment registers | `segments_init` | called by `kmain` |
| Trap dispatch | `arch/i386/trap.c`, `asm/traps.S` | IDT, callback table, `last_trapno` | `trap_init`, `trap_handler`, `x86_idt_enable` | stubs, interrupt controllers, callbacks, log |
| Interrupt controllers, keyboard | `x86.h`, `trap.c` | mask, request and in-service registers, one pending scan code | `x86_pic_remap`, `x86_pic_eoi`, `keyboard_handler` | raise traps |
| Serial driver | `kernel/drivers/serial.c`, `x86.h` | the table of ports, the default port (0 while a writer has it), the UART | `serial_init_port`, `serial_set_default_port`, `serial_write` | called by `kmain` and by `write` |
| Console | `kernel/io/write.c` | screen memory, row, column, VGA cursor | `write`, scrolling, cursor update | called by the log |
| Formatting | `kernel/io/kprintf.c`, `kvsnprintf.c` | the static digit buffer | `kprintf`, `kvsnprintf`, `itoa`, `utoa` | Console, Serial |
| Memory operations | `kernel/memop.c` | none | `memset`, `memcpy`, `memmove` | Page mapping, Console |
| Kernel main | `kernel/kmain.c` | none of its own | the order of the initialisations, the idle loop | all |
| Processor table, ironfs | `cpu.c`, `ironfs.c` | a static record; nothing | empty | |

### Where it is hard, and what makes each part correct

* **Allocator.** The list's pointers lie in the free pages, so a page must
  leave the list before its holder writes it and its words must be rewritten
  when it comes back.  Correct when free and held pages are a partition, the
  ring holds exactly the free pages, and the magic assertion cannot fail.  The
  limits: the empty list, ranges whose bounds are no page boundaries, ranges
  that are empty or reversed.
* **Lists.** The stores of an operation alias when its nodes are neighbours,
  equal to the head, or alone.  Correct when, after any sequence of legal calls,
  walking either way gives the sequence the calls describe.
* **Page mapping.** A page fresh from the allocator is not clean, and the directory is
  never cleaned; a second call must find the tables of the first; the end of the range is computed modulo
  2^32; memory may run out halfway.  Correct when each step changes the
  translation of at most the one page it is at, in the way that was asked.
* **Kernel address space.** Three ranges whose bounds come from the linker must
  tile the kernel; freed memory must not contain a byte of the kernel; the
  low 4 MB must stop being mapped, in the processor as well as in memory.
* **Trap dispatch, Serial, Console, Formatting.** An exception may arrive
  anywhere, and its handler logs: every static variable of the log path (the
  default port, the row and column, the controller's selected register, the digits
  of `utoa`) is shared between the interrupted writer and the handler.  Interrupts
  must be acknowledged once each, after the handler, to the right controller.
* **Formatting.** Messages end where the buffer is full, but one directive may still
  run past its end, and the terminator is stored where the last one left off.
* **Segments, boot order.** A step that needs what a later step installs: paging
  before the jump, the jump before the low mapping goes, the descriptors before
  the register, the register before the selectors.

The complete list, each at its line, is in `PROJECT.json` under `hazards`.

## 2. The modules

    FrameQueue          what the allocator promises       (abstract)
      Pages             pages.c              implements FrameQueue
        ListHead        list.h, the operations as heap -> heap
        MemLayout       memlayout.h, x86.h: addresses
        PagesProofs     theorems;  MemLayoutLemmas below it
    ListClients         either kind of list:
      Lists             the contract of list_head, over ListHead
      HLists            hlist_head, its operations and its contract
      ListsProofs       theorems
    AddressSpace        what vm_map_pages promises        (abstract)
      Vm                vm_map_pages, over FrameQueue     implements AddressSpace
        Kvm             entry.S, kvm_init, kvm_create, boot mapping, TLB
          KvmSwitch     kmv_switch and CR3
          KvmProofs     theorems about both;  MemLayoutLemmas below it
    Trap                stubs, trap_handler, keyboard, 8259s, the boot order
      Segments          x86_gdt_set, the entries, what the processor reads
      TrapProofs        theorems
    Format              kprintf, kvsnprintf, itoa, utoa
      FormatProofs      theorems
    Write               write, composing
      Serial            the serial driver
      Console           the text screen
      WriteProofs       theorems
    MemOp               memset, memcpy, memmove
      MemOpProofs       theorems
    MC*                 constants, requests and sentences of the documentation

### ListHead, Lists, HLists

A heap is the two pointer fields of all nodes.  An operation of the header is
an operator from heap to heap that makes the C function's stores one by one,
each pointer read in the heap left by the stores before it; so aliasing is
modelled and nothing is assumed of the arguments.  `Lists` is a client that
keeps entries on several heads and calls every operation in any order the
header's comments allow; `ring` is what the client believes.  A head that
`list_splice` leaves behind (the header says it must be initialised before
use) is not `live` until `INIT_LIST_HEAD`.  `list_for_each_entry_safe` and its three variants
start a loop, `body_*` are its bodies, which keep, delete or move away the entry they were
given and then take the loop on (`advance`), and `list_safe_reset_next` is the body that deletes
the entry after its own.  The `_rcu`-style and prefetch macros do not exist in this
copy of the header; the read-only iteration macros walk the ring that
`ListsHold` describes.

`HLists` does the same for the lists with one pointer in the head.  `pprev` points to
a field, not to a node; a field is named by its owner, and the `first` of a head
is in the same function as the `next` of the nodes, since the code stores through
`pprev` without knowing which it is.  A node is on a list, a fake
(`hlist_add_fake`), or unused.  The two halves of the header share no pointer, so
`ListClients` chooses the kind at the start instead of multiplying their states.

### MemLayout

`PGSIZE` and `NENTRIES` are 4096 and 1024 in the code; all other numbers
follow, the kernel half starting halfway up memory.  Every operation that the
code does on `u32` wraps at `ADDRSPACE`: rounding up the last page gives 0.

### Pages

| Code | Model |
|---|---|
| `struct page.free_list` at the start of each page, `registry_.pr_freepages` | `heap`, on `Page \cup {pr_freepages}` |
| `struct page.magic` | `magic[p]`: the word is the magic number |
| `kpalloc` | `kpalloc`, `kpalloc_exhausted` |
| `kpfree` and its assertion | `kpfree`, `free_page`, `give_back` |
| `kpfree_range` | `kpfree_range`, `kpfree_range_step`, `kpfree_range_return` |
| the holders of pages | `WritePage`, and the rule that one frees only what one holds |
| `kassert` that fails | `status` |
| `pr_lock` | nothing: its macros are empty and `pr_shoud_lock` is never set |

`fifo` and `held` are history variables: no guard of the code's actions looks at
`fifo`, and `held` is used only in the callers' rule.  A page is initially
`held` by whoever calls `kpfree_range` first (the boot code).  The functions
are single steps because nothing can run between their instructions: they are
called with interrupts off, and an exception handler does not allocate.

### Vm, Kvm, KvmSwitch

A page used as a table is `NENTRIES` entries, each a frame and the flags P, RW,
US, PS.  `Walk` is the processor: two levels, large pages, and rights that are
the intersection of both levels.  The entry of a 4 MB page has a reserved bit (`Reserved`, bit 21
on the i386); where it is set, an access faults, so the page is unmapped.
`vm_map_page_` is two steps, one for a new
table and one for the entry, because the processor may walk between them.  The
allocator is `FrameQueue`, which `Pages` is proved to implement; a page from it
is `Recycled`: the magic number, two cleared list pointers and what RAM held.

Tables are cleared before they are linked; the directory never is (`kvm.c:30`), and nothing
in the repository clears RAM.  So `Garbage`, what RAM may hold, is not restricted:
its words may be present entries.  `linked`, a history variable, is the slots in
which `vm_map_page_` has put a table; any other slot with a present word is *stale*, and its pages
are `StalePages`.  The magic number in word 0 is one such word (its reserved bit is set, so it
maps nothing).  A call that reaches a stale slot takes
its word for a table (`vm_map_page_stray`) and stores an entry wherever it leads: into a
free page's list pointers, a table, the kernel, or outside RAM.  After that nothing can be said
of the allocator or the tables, so the model ends there with the status
`stray_store`, and the properties of both modules are about the time before (`~Strayed`) and about pages that
are not stale.  What becomes of stale slots that no call reaches is the run `kvm_only`.

`AddressSpace` promises the same in its own words: of the pages in `stale` nothing is known, all others
change only as a call asks, and a call that reaches a stale page loses the address space (`Lose`).  The set
of stale pages never changes.

A `Call` is the parameters and locals of `vm_map_pages`.  `MapSpec` takes the
set of requests its callers make; `MCVm` gives it one, and the theorems hold for any.

`Kvm` chooses at the start where `.data` begins, where the kernel ends, and where in
`.data` the boot directory lies.  It begins where the boot loader jumps to: `start_pse`,
`start_cr3`, `start_paging` and `higher_half` are the writes to CR4, CR3 and CR0 and
the jump of `entry.S`, with `control` the registers and `half` the window the
instructions come from.  Then it runs `kvm_init` on the boot mapping of `paging.c`.  Once
paging is on the processor may keep or drop its cached translation of [0, 4MB) at
any time.  `kpfree_range` is one
step here (`Pages` has it page by page).  `KvmSwitch` adds CR3 and
`x86_set_cr3`, which ORs.

### Trap

| Code | Model |
|---|---|
| registers, selectors, flags | the record `cpu`; the general registers are one value, `gp` |
| the kernel stack, `struct trapframe` | `stack`, word by word; `tf_trapno` is the field's place in the frame |
| the 256 stubs, `alltraps`, `trapret`, `iret` | `Frame`, `stub_pushes_zero`, `alltraps`, `trapret`, `iret` |
| `trap_table`, `trap_callback_table` | `gates`, `callback` |
| `x86_pic_remap` | `x86_pic_remap_save` and one step for each of its ten writes |
| `trap_handler` | `trap_handler`, `trap_announce`, `trap_callback`, `keyboard_handler`, `keyboard_log`, `x86_pic_eoi_1`, `x86_pic_eoi_2` |
| `segments_init` | `segments_clear`, `segments_set` (entry by entry), the load of the register, `reload` (selector by selector) |
| `struct gdt_entry`, `x86_gdt_set` | `Segments`: the fields as the code packs them, and as the processor unpacks them |
| `kmain` from `trap_init` on | `Boot`, `sti`, `idle` |

An exception may arrive between any two steps once the interrupt table is loaded,
an interrupt whenever the interrupt flag is on; all that the interrupted handler
knew must then be on the stack or in the registers.  The pair of 8259s is
modelled as the data sheet has it (requests, service, masks, priority, cascade,
the initialisation sequence, spurious interrupts), because the code's writes
mean nothing without it.  Four history variables record what the properties speak of: the
registers each trap in progress interrupted (`interrupted`), the firmware's masks, the
letters typed (`typed`) and the letters logged.  Assumed of the outside: the loader has left
flat descriptors in a table of its own (`LoaderTable`, in the run the one of
`qemu -kernel`, whose code selector is the one `trap_init` puts into the gates), exceptions are ones that may be resumed, and no key is pressed
before `trap_init` is done (its byte would stay in the keyboard's buffer; see the hazards).

### Format

A call of `kprintf` is a record on a stack, with its own buffer and pointers; `buffer` is
the static array of `utoa`, which all calls share.  One step is one character stored,
one digit, one item of the switch.  An exception's handler may call `kprintf` between
any two steps of a call, once for each call.  `text` says where a conversion's
characters are: its own string, or an index into the static array, which is read when
`strlen` and `strcpy` read it.

A message is a sequence of items, each a character that stands for itself or a
directive with its argument.  The code does not see the items: `Passed` spells them as
the characters (`Format`) and the arguments (`Arguments`) that `kvsnprintf` is given, and its
steps look at these alone.  `Reference` is the text the items ask for, so the properties need not
parse.  It has two views, the `"text"` and the `"shape"`, in which the digits of
numbers are left open.  Characters are symbols out of `Alphabet`.  A number that is
missing (the `%p` of `serial.c:44`) is any word of `Stray`.

Each buffer has `Slack` bytes past its end, and the assumptions on constants ask that this be
room for what one directive may leave there: twice the decimal digits, or `0x` and the
hexadecimal ones; and no string argument is longer than `Slack + 1`.  `Slack` may be any
number, so this only says that the model's buffer goes on far enough to see every store.

A number that another call's digits replaced is marked `overwritten`: such a
message may show wrong digits (the code does not prevent it), and `ShapeKept`
says that this is all that can happen to it.

### Write, Serial, Console

`write` sends a message to the serial port and then to the screen.  An exception's
handler may log in the middle of it and ends before the interrupted code goes on,
so the calls in progress are the stack `writers`, of which the last runs.
`serial_write` is split where it matters: the load of the default port, the store
of 0, each byte, the return.  Setting up needs an empty stack: `kmain` sets the
port up before traps can be taken.  The poll of the line status may end at any time.

`Console` keeps `buffer`, `row` and `col` as one record, and one row of video
memory past the screen, to see stores that leave it.  It says what each store of `putchar` and of the
functions below it makes of that record; `Write` puts the stores in order, a step for each, with
a handler's message possible between any two.  `row` and `col` are static and, at `-O0`,
loaded again by each expression that names them.  Where the running writer is (`at`):

| Point | The step that follows | Code |
|---|---|---|
| `put` | is there another character, and is it for the first cell | `write.c:104`, `:86` |
| `init` | `init_buffer_` | `:56-58` |
| `show` | a newline: `col = 0`; another character: its position | `:89`, `:64`; `:93` |
| `store` | the character into its cell | `:93` |
| `advance` | `++col` | `:78` |
| `wrap` | the test of `col`, then `col = 0` or the cursor's position | `:78`, `:64`, `:96` |
| `newrow` | `row++` | `:65` |
| `full` | the test of `row`, then the scroll or the cursor's position | `:66`, `:96` |
| `scroll` | `memmove` | `:67-68` |
| `clear` | `row--`, the spaces of the last row, the cursor's position | `:69-71`, `:96` |
| `cursor` | one of the four port writes of `move_cursor_` | `:48-51` |

The load before a store belongs to the point that follows it, and the three loops over cells are one
step each: all of that is inside points at which a message does harm in any case.

It does harm because the code does not expect it.  A handler that writes between `++col` and its test, or
between `row++` and its own, makes the code jump over its equality test, and `row` or `col` runs past the
screen; one that writes while the screen is cleared or scrolled, or when a cell has been
chosen, loses text or shows it twice.  `Halfway` names these points: `init`, `store`, `advance`, `newrow`, `scroll`
and `clear`, and `wrap` and `full` when the test is about to succeed.  `disturbed` records that a message has come at
one of them.  `ScreenShowsText` is about histories in which none has, and so says that these are all the points
there are: a message at any other does no harm to the text.  None can be spared: with any one of the
eight left out of `Halfway`, `write` violates `ScreenShowsText`.  Nothing is said of the screen afterwards; the
serial line's properties do not depend on it.

A message between two writes of `move_cursor_` leaves another register
selected, so the interrupted writer's remaining bytes may go to the wrong one.  The position it writes was computed
before the first.  `torn` records that, and `placed` that the last `move_cursor_` ran undisturbed: `ScreenShowsText` claims the cursor only
then.  The next character places it again.

### MemOp

One call at a time, one step for each byte.  `before` is memory when the call was
made, and `Result` the one simultaneous store the call is meant to be.  `memmove`'s
call of `memcpy` is `memcpy_body`, whose regions may overlap; `memcpy` from
elsewhere has disjoint regions.

## 3. The runs

Passing runs:

| Run | Instance | Shows |
|---|---|---|
| `pages` | 4 pages of 2 bytes, every `start`, `end` and freed address in range, pages that holders fill with zeros or with the address of the registry | the free list is one whole ring in both directions (`FreeListWhole`), no page is shared or lost (`FreeOrHeld`), the magic assertion holds, `kpfree_range` frees exactly the whole pages (`RangeExact`) and returns (`RangeReturns`); the code implements `FrameQueue` |
| `lists` | 2 heads, 4 entries, of either kind, up to symmetry | after every sequence of calls the pointers are the lists the calls describe (`ListsHold`, `HListsHold`), the queries agree, a safe loop whose body takes entries away visits every entry once |
| `vm` | 16 virtual pages in 4 slots, a directory and two spare pages, 11 requests: unaligned, empty, across slots, overlapping, remapping with other rights, a misaligned frame, a slot whose directory word is the magic number, a range that ends at the top of memory; RAM with no present word, and with one that leads out of RAM, to the directory, to a free page, or maps 4 MB | until a stale word is used as a table, no two slots share a table and no page is lost (`TablesPrivate`); the result is what was asked (`MappedAsAsked`), each step changes at most the page it is at (`AddressSpaceSpec`) |
| `kvm` | an 8-page window, 8-entry tables, every place of `.data`, of the boot directory and of the kernel's end; RAM with no present word, or with one in the kernel's slot, in another of the upper half, or below | the next instruction is mapped from `_start` on, whatever the processor has cached (`NextInstructionMapped`), no table is shared, freed or part of the kernel (`BootTablesPrivate`), the three calls of `kvm_create` tile the kernel exactly (`KernelMapped`), no moment makes code writable (`TextNeverWritable`), no page of the kernel is freed, or written but for `kvm_init`'s own two variables (`ImageUntouched`), all until a stale word is used as a table; and `kvm_init` returns, or uses one, when there is room for a directory and a table (`BootFinishes`) |
| `trap` | boot and idling; an exception with and one without an error code, the timer, a line of the second controller, spurious interrupts, two letters and a key without one; the descriptor table and the selectors of qemu's loader | every selector in use has a valid descriptor while the table is being replaced (`SelectorsUsable`), every trap gives back the interrupted state exactly (`ContextRestored`), every interrupt is acknowledged once, by its own handler, at the controllers it came through (`AllAcknowledged`, `AcknowledgesOwn`), interrupts come on when all is in place (`ReadyForInterrupts`), letters are logged in order, none lost or doubled (`LettersAsTyped`), and in the end (`LettersArrive`) |
| `write` | four ports, one absent, a table of two; three messages nested at any step; a screen of 2 by 2 | a message is in one piece on the line (`MessagesWhole`); the table has no gap or double, which the searches rely on, the port comes back and leads to the line (`DefaultUsable`); unless a message has come where a `putchar` was halfway, the screen is the end of the text, no cell past it is touched, and the cursor is after it (`ScreenShowsText`) |
| `format` | 8-bit words, buffers of 6 bytes, nine messages with every directive, numbers of every length, a negative one filled with zeroes, texts that end at, one past and two past the end of the buffer; one message inside another | the text handed over is what was asked, cut where the buffer is full (`TextAsAsked`), the digits of an interrupted call may be wrong but nothing else of its text (`ShapeKept`), every call returns (`CallsReturn`); no digit leaves `utoa`'s array |
| `memop` | four bytes of three values, all placements of two regions | each call is one simultaneous store (`AsIfAtOnce`), no byte ever has a third value (`NeverElse`), each call returns |

Each of the other runs takes one sentence of the code or its documentation and
finds a behaviour that contradicts it:

| Run | Sentence | What happens |
|---|---|---|
| `pages_exhausted` | `kpalloc`'s callers assert, and `kpalloc` tests, that the page is not `NULL` | the list entry of the null page is deleted first |
| `kvm_low` | `kvm_init`: "we can now unmap" [0, 4MB) | the translation may stay cached: nothing flushes it |
| `kvm_only` | `vm.h`: a new page with the kernel mapping | the directory is not cleared: a word that RAM held, present and of a large page, maps pages below the kernel half |
| `kvm_switch` | `vm.h`: switches into the kernel page directory | `x86_set_cr3` ORs the new address into the old |

Some sentences more do not agree with the code, and no run is spent on them:
`vm.h:25` has `vm_map_pages` return -1 on error, and a range that ends at the top of memory (its
end is 0) maps nothing and returns 0, as `MappedAsAsked` has it; `kmain.c:42` asserts that
the kernel runs in the upper half, by an address fixed at link time, so it cannot fail;
`list.h:902` has `hlist_del` leave the node hashed, and it clears `pprev`; the access byte
of the task state segment, 0xF2 in `segments_init`, is that of a data segment;
`pages.h:26-28` has the first page freed contain `start`, which `kpfree_range` rounds
up (as its caller needs); `vm.h:23` has `size` count pages, and it counts bytes;
`x86.h:437-439` has the divisor divide the rate, and both its bytes go to the low
half of the divisor, so the high half is the firmware's.

### Bounds

* Page size 2: the smallest with an address inside a page that is no page
  boundary, so every rounding case occurs.  The arithmetic is proved for every
  page size.
* Four pages in `pages`: the list is empty, single, and long enough to have a
  first, a last and inner entries while one page is out.  Two values of junk are
  enough: the model only copies what a holder wrote.  The theorems hold for
  any number of pages and any junk.
* Four entries in `lists`: two entries are neighbours on either side or apart,
  and a list may be cut in the middle with more than one entry left on each side.
  A list operation touches at most two entries, their neighbours and two heads.
* Two spare pages in `vm`: one slot more than there are tables for, so memory
  runs out halfway through a call.
* One word in each page of `vm` and `kvm` that is a present entry: what the code does to a slot depends on that slot's
  word alone.  The theorems hold for RAM that holds anything.
* Eight pages in `kvm`: all combinations of an image of one to seven pages and
  of none to six free pages.
* Two events besides the keys in `trap`: an exception in an exception's handler in an
  interrupt's handler is three frames deep; frames with and without an error code occur at each
  depth an exception can have.
  Two keys are enough for one to arrive while the other is being handled.
* Both kinds of lists: the symmetric permutations of heads and of entries are sound, since
  no operation looks at which node it has.
* Messages one inside another in `format`: a third level meets the same array and a call that
  is interrupted once already.  Six bytes take a message of six, an item that ends at the
  last byte and one that runs past it; the five bytes modelled there (`Slack`) are what `FormatAssumption` asks
  for with numbers of three digits.  The theorems hold for all sizes.
* Three messages in `write`: a writer that interrupts one between its load and its
  store of the port, and one that finds it taken.  The messages are the empty one and one of two characters and
  a newline; nine characters scroll a screen of two lines of two several times, and there is a message at each point of
  each character.
* Four bytes in `memop`: regions of two that overlap by one, on either side, with a
  byte outside.  The theorems hold for a memory of any size.

### Fairness

`kpfree_range_step` and `kpfree_range_return` are weakly fair, and so is the
kernel's step in `Kvm`: the processor goes on executing the code it is in;
interrupts are off and there is no other thread.  The callers are not fair, and
neither is what the processor does with its cache.  In `Trap` the code is weakly
fair, and so is the taking of an interrupt: the idle loop never turns interrupts off, so a
request that is pending there stays so until it is taken.  Exceptions and devices are
not fair.  In `MemOp` the loops are fair, and in `Format` the steps of the running call;
the exceptions are not.  `Vm`, `Lists` and `Write` state no
liveness: whether `serial_write` returns is up to the UART.

### Deadlock

A failed assertion and the access through the null page stop the kernel for
good, a stray store ends the model, and `kvm_init` ends; the runs of these modules say `CHECK_DEADLOCK FALSE`, and
so does `write`, which ends when its messages are used up.
In `lists`, `trap`, `format` and `memop` deadlock is checked.

### Mutants

For each property of a passing run `PROJECT.json` names a change of one
definition under which TLC finds that property violated: a start rounded down
instead of up, a loop condition with `<=`, a table that is not zeroed, a range
end rounded down, a list insertion at the wrong side.  The mutated forms are
defined next to the originals, under "Mutant:".

## 4. What is proved

`PagesProofs.tla` proves, for all page sizes, table sizes, sizes of RAM and
contents of held pages:

| Theorem | Statement |
|---|---|
| `TypeCorrect` | `Spec => []TypeOK` |
| `FreeListIsWhole` | `Spec => []FreeListWhole` |
| `NoPageSharedOrLost` | `Spec => []FreeOrHeld` |
| `MagicAssertNeverFails` | `Spec => []MagicAssertHolds` |
| `RangeIsExact` | `Spec => []RangeExact` |
| `AllocatorIsAFrameQueue` | `Spec => FrameQueueSpec`, the refinement |

*Assumptions.* `LayoutAssumption` (a positive page size, an even number of
entries, the load address page aligned) and `PagesAssumption` (the pages lie
above address 0 and end at least a page below the top of memory; the registry is not a
page; what holders write are words the model knows).  The callers' rule is a
guard of `kpfree` and `kpfree_range`: nobody frees a page he does not hold.  The
code cannot check it and no theorem holds without it.

*Argument.* None of the five invariants is inductive alone.  To unlink the oldest
page `kpalloc` follows pointers that lie in pages, so it needs the ring; the ring
survives a holder's write only because a held page is not on it; the magic
assertion needs that the page on the ring is one `kpfree` stamped and nobody has
written since; and a step of `kpfree_range` may free its cursor only because the
pages ahead are still held.  The inductive invariant `IInv` is the conjunction of

* `TypeOK`,
* `ListInv`: `FreeListWhole`, `FreeOrHeld`, and `FreeMagic` (every page on the
  list bears the magic number),
* `MagicAssertHolds`,
* `RangeAhead`: while `kpfree_range` runs its cursor is page aligned, lies between
  the two bounds, and the pages from it to the end are held,
* `RangeExact`.

Each action has a lemma; `Inductive` puts them together.  What an action does
to the ring is a fact about `ListHead` alone:
`AddTailAppends` (`list_add_tail` on a ring of s gives a ring of
`Append(s, x)`), `DelFirstTail` (`list_del` of the first entry gives `Tail(s)`),
`StoreOffRing` (a store into a node off the ring leaves it).  What rounding does
is in `MemLayoutLemmas`: `PageDown`, `PageUp`, and `NoPageBelowRoundUp` (there
is no page between an address and its rounding up, so rounding `start` up loses
no whole page of the range).  The refinement `StepRefines` maps `kpalloc` to
`Alloc`, `kpfree` and a step of `kpfree_range` to `Free`, everything else to a
stutter.

`MemOpProofs.tla` proves, for a memory of any size and any values of its bytes:

| Theorem | Statement |
|---|---|
| `MemTypeCorrect` | `Spec => []TypeOK`: no loop leaves memory |
| `CopiesAtOnce` | `Spec => AsIfAtOnce` |
| `NoOtherValue` | `Spec => []NeverElse` |

*Assumption.* The guards of the calls: both regions lie in memory, and those of a
`memcpy` that does not come from `memmove` are disjoint.  *Argument.* `TypeOK` is
strengthened by `Cursors` (both cursors have gone as far as `size` has gone down),
`Progress` (the bytes passed by the cursor have their final value, all others their
old one) and `Direction` (a loop upwards never has its source strictly below an
overlapping destination, a loop downwards never strictly above).  The last is what
makes the byte read next one that has not been written yet.

`WriteProofs.tla` proves, for any ports, any table, any messages and any number of
exceptions inside exceptions:

| Theorem | Statement |
|---|---|
| `WholeMessages` | `Spec => []MessagesWhole` |
| `PortUsable` | `Spec => []DefaultUsable` |
| `ScreenShowsAll` | `Spec => []ScreenShowsText`, for every size of screen |

*Assumptions.* `SerialAssumption`, `ConsoleAssumption` and `WriteAssumption` (ports are not 0,
the table has a slot, the screen has at least two rows and columns, messages are sequences of characters).
*Argument.* Nothing locks the port, and loading it and storing 0 are two steps, so
neither invariant about it is inductive.  What makes them hold is that writers are nested: `Default(n)` is the
value the first n writers of the stack leave in `serial_default_port_` (nothing if one of them
is sending, the chosen port otherwise), and `PortInv` says that writer i has read
`Default(i - 1)`, which cannot have changed when it goes on, because those below it have
not moved and those above it have ended.  Hence at most one writer sends to a port.
`SentInv` says that the bytes on a line follow each other and the last of them ends its
message or is the cursor of the writer who has the port.  `TableInv` is what the two
searches of the table rely on and keep.

`ScreenShowsText` speaks of the cells and of the registers when no `putchar` is halfway, and is not inductive either: nothing in it says
where the next character goes, nor what the stores made so far ask of those to come.  `Pending` is the screen as it will be when the
running `putchar` has made its remaining stores (`Rest` says which these are at each point).  `ScreenInv` is about `Pending` and the
lines of the text so far, `LinesOf[text]`.
`AreLines`: none is longer than a row, and the last has room left.  `ScreenFor`: before the first character
the screen is untouched; after it every cell has its character of the lines (`Shows`), `row` is the last
line's and `col` its length.  A step of `putchar` makes one store of those that remain, so it leaves `Pending` as it is; the
one that stores the character (or begins a newline) makes it the screen of one character more.
So a store goes behind the last character (`ShowChar`), and
`scroll`, which must move the rows and clear the last in cells of two bytes, makes what was shown what a
further line asks to be shown (`ShowLine`).
A handler's message begins a `putchar` of its own, on the screen as it is then; unless the one it interrupts is `Halfway`,
that is `Pending` too (`PendingWhole`), and whatever the interrupted one goes on to compute it computes from what the
handler has left.  So `ShownInv` holds for as long as `disturbed` does not.  `PutOf` says what the interrupted
writers still hold: none of them, while nothing is disturbed, is halfway.  That the screen
is cleared at the first character and never again needs that row 0 and column 0 are left for good.
`CursorOf` follows the four port writes: a writer that is not marked as interrupted is the running one, and the
index and the first register are what its writes so far have made them (`Placing`).
`LinesOf` is a recursive function over texts; that it satisfies its recursion, and so grows by one character at
a time (`LinesStep`), is proved from the least number of characters for which it would not (`LeastNat`, from
the library's `WFMin`).

The first part of `KvmProofs.tla` proves, for all page and table sizes, any memory of the allocator, and any set
of requests to `vm_map_pages`, made again and again in any order:

| Theorem | Statement |
|---|---|
| `TablesStayPrivate` | `MapSpec(requests) => []TablesPrivate` |
| `CallsMapWhatTheyAsk` | `MapSpec(requests) => []MappedAsAsked` |
| `MappingIsAnAddressSpace` | `MapSpec(requests) => AddressSpaceSpec`, the refinement |

*Assumptions.* `LayoutAssumption`; `VmAssumption` (the allocator's memory begins at a page and
has one, ends a page below the top of the address space and lies in its upper half; a directory has more than two words;
and the magic number's frame is not
in the lower half and has the reserved bit, as 0xDEADBEAF); a request is four words the C call can be given
(`Request`).  `Garbage`, what RAM holds, is any set of memories.

*Argument.* `VmInv(reserved)` is about memory, as long as no stale word has been used as a table; `reserved` are pages that are out and were never the
allocator's (none in `Vm`, the kernel's image in `Kvm`).  `QueueInv`: the free
pages are not out, each is free once.  `Tables`: each linked slot has the flags of a table, and
the pages that are out are exactly `reserved`, the directory and one table for each linked
slot, all different.  Of the words RAM held nothing is assumed.  A slot that is not linked holds such a word or the
magic number.  If it is not present it translates nothing until a table is put in it; if it is, its pages are stale, no
step changes it, and the step that takes it for a table is the last.  Hence the set of stale pages never changes.
From this a page the code zeroes or
writes is no other table, and it has its effect on the processor's walk alone: `TableWalk` (a new
table of zeros changes the translation of no page) and `EntryWalk` (an entry changes
that of one page, to what the call asks, as two pages do not have both indices in common: `OneEntry`).
`CallInv` is the loop invariant: the pages passed are translated as asked, the
frame goes with the page modulo the size of memory, and the count times the page size is the way
gone.  The refinement maps the step that stores an entry to `MapOne`, the begin of a call to
`Request`, a stray store to `Lose`, and all others, a new table and every other failure among them, to a stutter.

The second part proves, for all page and table sizes and every
place of `.data`, of the boot directory and of the end of the kernel:

| Theorem | Statement |
|---|---|
| `BootTypes` | `BootSpec => []BootTypeOK` |
| `CodeStaysMapped` | `BootSpec => []NextInstructionMapped` |
| `TablesArePrivate` | `BootSpec => []BootTablesPrivate` |
| `ImageIsUntouched` | `BootSpec => ImageUntouched` |
| `KernelIsMapped` | `BootSpec => []KernelMapped` |
| `TextIsReadOnly` | `BootSpec => []TextNeverWritable` |

*Assumptions.* Those of the first part; and `KvmAssumption` (the window is one large page, and the load
address lies in it).  *Argument.* `ModeInv` says how
far `entry.S` is and follows the registers; it needs nothing of memory.  `MemoryInv` is
`VmInv(Image)` with `LayoutInv` (the layout does not change and is
page by page inside the window) and `StageInv` (what is out before there is a directory);
the steps of `vm_map_pages` keep it by the lemmas of the first part, so a page the
code writes is no page of the image.
`KernelInv` says that the three calls of `vm_map_pages` are one walk: `Frontier` is the
page the walk is at, `MappedInv` says that every page of the upper half has
its translation below the frontier and none from it on, `PartInv` that a call ends where the
next begins, with the rights of its part (`Parts`).

`TrapProofs.tla` proves, for any exceptions, device lines, firmware masks and keys, any number
of events and any depth of nesting:

| Theorem | Statement |
|---|---|
| `InvHolds` | `Spec => []Inv`, the inductive invariant, with the types |
| `TrapsRestoreContext` | `Spec => ContextRestored` |
| `InterruptsComeOnReady` | `Spec => []ReadyForInterrupts` |
| `InterruptsAreAcknowledged` | `Spec => []AllAcknowledged` |
| `HandlersAcknowledgeOwn` | `Spec => AcknowledgesOwn` |
| `OthersAreAnnounced` | `Spec => []OnlyTimerSilent` |
| `LettersAreLogged` | `Spec => []LettersAsTyped` |
| `SelectorsStayUsable` | `KernelSelectors`, then `Spec => []SelectorsUsable` |

*Assumptions.* `TrapAssumption` (exceptions are vectors below 32; lines are those of the
controllers but the cascade's, and the keyboard's line is the keyboard's alone).  `SelectorsStayUsable`
has a hypothesis of its own, `KernelSelectors`: the loader's code and data selectors
are 0x8 and 0x10 and name flat segments, as those of qemu's loader do.  The code needs it:
`trap_init` puts 0x8 in every gate and `alltraps` loads 0x10 while the table is still the
loader's, and a trap interrupted before `x86_lgdt` would keep the loader's selectors after it.
The multiboot specification promises no selector values.

*Argument.* Nothing the properties say is inductive: what `iret` goes back to are words on the
stack, which are right because of what was pushed, perhaps many traps ago.  `Levels` is the
kernel's registers, those of each interrupted handler, and the processor's.  `FramesInv` cuts the stack into
one frame per trap in progress, as long as its handler has come (five words at `alltraps`,
ten while the handler runs, three at `iret`), and says of each register of level i that it is in frame i
or still in level i + 1.  A step changes the top frame only (`FramesPushed`, `FramesTop`, `FramesPopped`), so
what is below is there when the handlers above have returned.  `NestingInv` says that only level 1 is the kernel's and
may have interrupts on; hence only the first trap is an interrupt, every other frame holds an exception's number
(the last conjunct of `Frames`), and what is in service (`ServiceInv`) and on its
way from the keyboard (`KeyboardInv`) depends on how far the *first* handler has come, read off
`Levels[2]` and word 5 of the stack.  `TablesInv`, `SegmentsInv` and `PicInv` say how far `kmain` has
come: `Expected` is what each controller waits for after each of the ten writes of
`x86_pic_remap`.  `AnnounceInv` is about `last_trapno`, which any trap overwrites: it can be the
timer's number only while no other trap waits to be announced, since the timer interrupts no handler.
Each step is of one of four kinds (`InKernel`, `Within`, `Into`, `OutOf`), and what it leaves alone
is proved for its kind once.

`ListsProofs.tla` proves, for any heads and entries (of either number), any calls in any order, and
whatever the pointers of a node were before a call stores to it:

| Theorem | Statement |
|---|---|
| `PointersMakeTheLists` | `ClientSpec => []ListsHold` |
| `QueriesTellTheTruth` | `ClientSpec => []QueriesAgree` |
| `SafeLoopsVisitAll` | `ClientSpec => []SafeLoopVisitsAll` |
| `HlistsMakeTheLists` | `ClientSpec => []HListsHold` |

*Assumptions.* `ListsAssumption` and `HListsAssumption`: no node is both a head and an entry, and `NULL` is neither.  The
conditions the header puts on its callers (add a node that is on no list, cut at an entry of
the list, splice onto another list) are guards of the actions.  *Argument.* `ListInv` is
`RingsGood` with `LoopGood`.  `RingsGood`: the pointers of each live head and its entries are the
ring of its sequence, in both directions, and no entry is on two lists or twice on one
(`Apart`).  `ListsHold` has the rings too; that they share no entry follows from it only by
going back entry by entry to the heads, so it is a part of the invariant, and where a loop is does not
follow at all, on which a body that deletes its entry relies.  `LoopGood` says where a safe loop is: the entries not yet seen
are the end of its list (`ToGo`; the start of it, backwards), the current one may have left, and
`n` is the one after it.  Without this `SafeLoopVisitsAll` is not inductive: that
`pos` is the next entry due says nothing of where `n` leads after the body has moved `pos`.
The proof goes in three layers: what the stores of each operation do to one ring, the cases in
which they alias among them (empty ring, neighbours, either end); the same of all
lists at once, which share no entry; and what each step does to the loop.

The hlists go the same way with `HListInv`.  `HGood`: from each head `next` leads along the
sequence to `NULL` and each `pprev` to the field before its node (`Chain`); no node is on two lists;
a fake's `pprev` is its own `next`, an unused node's is `NULL`, and the `next` of both is `NULL`.
`HListsHold` does not say the last, without which `hlist_del` of a fake would write to the `pprev`
of a node on some list.  `Linked` and `Unlinked` are what an insertion and a
deletion store, whether `pprev` leads to a head or to a node and whether `next` is `NULL`;
`InsertChain` and `DeleteChain` say what they make of one chain, `HInsertGood` and
`HDeleteGood` of all of them.  `HLoopGood` is `LoopGood` forwards, ending in `NULL`.

`FormatProofs.tla` proves, for every width of words and size of buffers, any messages, and any
depth of exceptions that log in the middle of one another:

| Theorem | Statement |
|---|---|
| `FormatInvariant` | `Spec => []FormatInv`, the inductive invariant |
| `TypeCorrect` | `Spec => []TypeOK`: no digit leaves `utoa`'s array, no message its buffer by more than one directive |
| `TextHandedOver` | `Spec => []TextAsAsked` |
| `ShapeHandedOver` | `Spec => []ShapeKept` |

*Assumptions.* `FormatAssumption`: the digits in either base are those a word needs, as the 8 and 10 of
the code for 32 bits, fewer than the array's 14; the room past the buffers is as said in section 2.
`MessagesAssumption`: each directive has an argument of its kind; only a `%p` may lack its own, and
then no later item has one.  Every call of `kprintf` in the repository is of this form.

*Argument.* `TextAsAsked` and `ShapeKept` speak of a call that has stored its last NUL, and say nothing of
what came before.  `FormatInv` says of every call on the stack (`CallInv`) how far it is.  At the start of the
loop and in the switch some number k of its items are behind: the characters and arguments
read are those `Passed` gives for k items, and its buffer `Holds` exactly the text of k items (`InLoop`,
`InSwitch`).  While a directive is carried out (`InItem`) the buffer holds the text before it and as much of its
own as has been put: what leads, the zeroes, the characters copied.  Of a conversion
(`Converted`, `Stored`) it says that when d digits are stored `value` is the number divided by the d-th power
of the base and the digits are its last d.  That `utoa` stops after as many digits as
the `Reference` has is then a fact about powers (`Places`).

The array is shared, so what a call knows of it must survive the calls of handlers.  `BufferInv` has all bytes NUL
but those the longest number (with its sign) may reach, and the last is NUL for good.  A digit never goes
back to NUL, so where a text begins, and so its length, cannot change under the call that is
interrupted; hence `ShapeKept` needs no condition.  Its digits may change, and the last conjunct of `CallsInv` says that
then the call is marked: wherever a call above has stored a digit, those below that have a number
in the array are `overwritten`.  `TextAsAsked` is not true without the mark.  A negative `%d` is
bounded in place only, since `itoa` spoils it by its sign.

`Power`, `Passed` and `Upto` are recursive functions.  That each satisfies its recursion is proved once for
all three, from the least number of items (or factors) for which there would be no function
(`ValuesExist`, over `LeastNat` and the library's `WFMin`), as for `LinesStep`.

*Only model-checked:* liveness (`RangeReturns`, `BootFinishes`, `LettersArrive`, `CallsReturn`,
`Returns`), which is out of the prover's reach.  Every invariant, action property and
refinement that a passing run checks is also a theorem.

## 5. What is not modelled, and the plan

Left out for good: `cpu.c` and `ironfs.c`, which do nothing, the build, the
contents of log messages.  Loading by the boot loader is outside the repository.
`x86_gdt_install` of `gdt.c`, `x86_idt_disable`, the timer functions and `do_shutdown` of `kmain.c`
have no caller.  The constructors of `_init` are empty.

Left out of a modelled part:

* what the screen shows once an exception's message has come where a `putchar` was halfway
  (`write.c:78`): the code goes on from what it finds, and may store past the screen;
* what a kernel does after it has used a stale word of its directory as a table (`kvm.c:236`);
* `klog` is one call of `kprintf` here; it is two, and a handler's message may come between
  the level and the text, which is then a matter of layout;
* a negative `%d` (no caller has one) and a `%` at the end of a message: `Format` has the
  former's step and no property about it;
* a byte already in the keyboard's buffer when the controllers are initialised
  (`trap.c:223`): it holds the line up, and no edge follows;
* `trap_counter` (`trap.c:257`), which is only printed;
* what becomes of the free pages after `kmv_switch` (`kvm.c:236`): the kernel's directory maps only
  its image, and nothing in the repository allocates after the switch;
* a message logged by a handler in the middle of another is dropped on the serial line
  (`serial.c:56`), which `Serial` has (`serial_write_none`) and no property forbids: the code means it;
* the rate of the line and what the UART does with its bytes.
