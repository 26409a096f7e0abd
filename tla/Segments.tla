------------------------------- MODULE Segments -------------------------------
(***************************************************************************)
(* Segment descriptors: x86_gdt_set and the table of segments_init in      *)
(* kernel/mm/kvm.c, struct gdt_entry of arch/i386/include/x86.h, and what  *)
(* the processor makes of an entry and of a selector.  A word of 32 bits   *)
(* is a pair of halves, the high one first.                                *)
(***************************************************************************)
LOCAL INSTANCE Integers

X86_GDT_SEG_CODEK == 1
X86_GDT_SEG_DATAK == 2
X86_GDT_SEG_CODEU == 3
X86_GDT_SEG_DATAU == 4
X86_GDT_SEG_TSS   == 5
X86_GDT_SEG_SIZE  == 6

x86_gdt_set(base, limit, access, flags) ==
  [ge_base_low  |-> base[2],
   ge_base_mid  |-> base[1] % 256,
   ge_base_high |-> base[1] \div 256,
   ge_limit_low |-> limit[2],
   ge_flags     |-> (limit[1] % 16) + 16 * (flags \div 16),
   ge_access    |-> access]

NullEntry == x86_gdt_set(<<0, 0>>, <<0, 0>>, 0, 0)

Most == <<65535, 65535>>

Flat(access) == x86_gdt_set(<<0, 0>>, Most, access, 207)

\* Mutant: the kernel's code and data exchanged.
entries_exchanged(tss) ==
  << <<X86_GDT_SEG_DATAK, Flat(154)>>, <<X86_GDT_SEG_CODEK, Flat(146)>>,
     <<X86_GDT_SEG_CODEU, Flat(250)>>, <<X86_GDT_SEG_DATAU, Flat(242)>>,
     <<X86_GDT_SEG_TSS, x86_gdt_set(tss, <<0, 108>>, 242, 207)>> >>

\* The entries segments_init sets, in its order: 0x9A, 0x92, 0xFA, 0xF2, and
\* the task state segment at tss with the access byte of a data segment.
entries(tss) ==
  << <<X86_GDT_SEG_CODEK, Flat(154)>>, <<X86_GDT_SEG_DATAK, Flat(146)>>,
     <<X86_GDT_SEG_CODEU, Flat(250)>>, <<X86_GDT_SEG_DATAU, Flat(242)>>,
     <<X86_GDT_SEG_TSS, x86_gdt_set(tss, <<0, 108>>, 242, 207)>> >>

-----------------------------------------------------------------------------
(* The processor. *)

\* The bit of this value.
Bit(byte, value) == (byte \div value) % 2 = 1

Present(e) == Bit(e.ge_access, 128)
Ring(e)    == (e.ge_access \div 32) % 4

\* All of the address space, in 32 bits.
IsFlat(e) ==
  /\ e.ge_base_low = 0 /\ e.ge_base_mid = 0 /\ e.ge_base_high = 0
  /\ e.ge_limit_low = 65535 /\ e.ge_flags % 16 = 15
  /\ Bit(e.ge_flags, 128) /\ Bit(e.ge_flags, 64)

IsCode(e) == Bit(e.ge_access, 16) /\ Bit(e.ge_access, 8)

IsWritable(e) == Bit(e.ge_access, 16) /\ ~Bit(e.ge_access, 8) /\ Bit(e.ge_access, 2)

\* A selector of ring 0 and of the global table, whose entry ends within limit.
Selects(selector, limit) == selector % 8 = 0 /\ selector + 7 <= limit

CodeSelector(table, limit, selector) ==
  /\ Selects(selector, limit)
  /\ LET e == table[selector \div 8]
     IN  Present(e) /\ Ring(e) = 0 /\ IsFlat(e) /\ IsCode(e)

DataSelector(table, limit, selector) ==
  /\ Selects(selector, limit)
  /\ LET e == table[selector \div 8]
     IN  Present(e) /\ Ring(e) = 0 /\ IsFlat(e) /\ IsWritable(e)

=============================================================================
