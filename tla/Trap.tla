--------------------------------- MODULE Trap ---------------------------------
(***************************************************************************)
(* Traps: the stubs and alltraps of arch/i386/asm/traps.S, trap_init,      *)
(* trap_handler and keyboard_handler of arch/i386/trap.c, x86_pic_eoi of   *)
(* x86.h, and kmain, which sets them up and then waits for interrupts.     *)
(*                                                                         *)
(* The processor is one record: where it is (ip), its flags, the selectors *)
(* and one value for the general registers.  The stack is a sequence of    *)
(* words, the last one on top.  A trap may arrive between any two steps,   *)
(* in a handler too: an exception at any time, an interrupt when the       *)
(* interrupt flag is on.  The stack and the registers therefore hold all   *)
(* there is to know about a handler that was interrupted.                  *)
(*                                                                         *)
(* The interrupt controllers (two 8259, the second on line 2 of the first) *)
(* and the keyboard are the hardware that the port accesses of the code    *)
(* reach.  The descriptor table is the loader's until segments_init has    *)
(* filled the kernel's and x86_lgdt has loaded it.  Logging is left out.   *)
(***************************************************************************)
EXTENDS Integers, Sequences, SequencesExt, FiniteSetsExt, Segments

CONSTANTS
  Exceptions,  \* the exceptions that occur
  Lines,       \* the lines of the controllers that devices raise, 0..15
  Keys,        \* what the keyboard sends
  Letters,     \* those with an entry in keyboard_scan_codes
  Masks,       \* the lines the firmware may leave masked
  LoaderTable, LoaderCode, LoaderData,  \* the loader's descriptors and selectors
  TSS,         \* the address of the task state segment
  NONE,        \* no callback, no byte
  MaxEvents,   \* bound on exceptions, spurious interrupts and raised lines
  MaxKeys      \* bound on the keys pressed

X86_PIC1_OFFSET == 32
X86_PIC2_OFFSET == 40

Vectors == 0..255

\* The interrupt flag.
FL_IF == 512

ASSUME TrapAssumption ==
  /\ Exceptions \subseteq 0..31
  /\ Lines \subseteq (0..15) \ {1, 2}
  /\ Letters \subseteq Keys /\ NONE \notin Keys
  /\ Masks \subseteq SUBSET (0..15)
  /\ LoaderCode \in Nat /\ LoaderData \in Nat
  /\ MaxEvents \in Nat /\ MaxKeys \in Nat

VARIABLES
  cpu,       \* [ip, flags, cs, ds, es, fs, gs, ss, gp]
  stack,     \* the kernel stack
  gates,     \* the kind of the gates of trap_table, which are all alike
  callback,  \* trap_callback_table, where it is not NULL
  loaded,    \* which tables the processor has been given
  cpu_gdt,   \* the kernel's descriptors
  filled,    \* how many of them segments_init has set
  pic,       \* the two interrupt controllers
  icw,       \* how far x86_pic_remap is
  a,         \* its saved masks
  last_trapno,
  kbd,       \* the byte in the keyboard's output buffer
  left,      \* events left to happen
  firmware,    \* history: the masks before the kernel ran
  interrupted, \* history: what each trap on the stack interrupted
  pressed,     \* history: how many keys were pressed
  typed,       \* history: the letters among them
  letters      \* history: the letters keyboard_handler logged

segs    == <<cpu_gdt, filled>>
code    == <<gates, callback, loaded, segs>>
history == <<firmware, interrupted, pressed, typed, letters>>
vars    == <<cpu, stack, code, pic, icw, a, last_trapno, kbd, left, history>>

-----------------------------------------------------------------------------
(* The interrupt controllers. *)

Pic == [base : Nat, irr : SUBSET (0..7), isr : SUBSET (0..7), imr : SUBSET (0..7),
        expect : {"icw2", "icw3", "icw4", "ocw"}]

\* The requests of controller k that may reach its output, given the lines
\* raised: not masked, and above everything in service.
Requests(k, raised) ==
  {n \in raised \ pic[k].imr : \A m \in pic[k].isr : n < m}

Cascaded == Requests(2, pic[2].irr) # {}

Pending == Requests(1, pic[1].irr \cup (IF Cascaded THEN {2} ELSE {}))

Raise(p, line) ==
  LET k == IF line < 8 THEN 1 ELSE 2
  IN  [p EXCEPT ![k].irr = @ \cup {line % 8}]

\* What a write to the command port (ICW1) and to the data port does.
pic_icw1(p) == [p EXCEPT !.irr = {}, !.isr = {}, !.imr = {}, !.expect = "icw2"]

pic_data(p, value) ==
  CASE p.expect = "icw2" -> [p EXCEPT !.base = value, !.expect = "icw3"]
    [] p.expect = "icw3" -> [p EXCEPT !.expect = "icw4"]
    [] p.expect = "icw4" -> [p EXCEPT !.expect = "ocw"]
    [] p.expect = "ocw"  -> [p EXCEPT !.imr = value]

\* PIC_EOI: the highest line in service is no longer.
pic_eoi(p) == [p EXCEPT !.isr = IF @ = {} THEN @ ELSE @ \ {Min(@)}]

-----------------------------------------------------------------------------
(* Traps. *)

\* The exceptions for which the processor pushes an error code, and the
\* vectors whose stub pushes a zero in its place.
ErrorCode == {8} \cup 10..14 \cup {17}

\* Mutant: every stub pushes a zero.
zero_always == Vectors

stub_pushes_zero == Vectors \ ({8} \cup 10..14 \cup {17})

Frame(v) ==
  <<cpu.flags, cpu.cs, cpu.ip>>
    \o (IF v \in ErrorCode THEN <<"error">> ELSE <<>>)
    \o (IF v \in stub_pushes_zero THEN <<"zero">> ELSE <<>>)
    \o <<v>>

\* The segment of every gate: trap_init passes 0x8.
GATE_SEGMENT == 8

\* The processor goes through the gate, and the stub makes the frame uniform.
Deliver(v) ==
  /\ stack' = stack \o Frame(v)
  /\ interrupted' = Append(interrupted, cpu)
  /\ cpu' = [cpu EXCEPT !.ip = "alltraps", !.cs = GATE_SEGMENT,
                        !.flags = IF gates = "interrupt" THEN 0 ELSE @]
  /\ UNCHANGED <<code, icw, a, last_trapno, kbd, firmware, pressed, typed, letters>>

exception(v) ==
  /\ "idt" \in loaded /\ left > 0
  /\ left' = left - 1
  /\ Deliver(v)
  /\ UNCHANGED pic

\* The first controller's highest request; line 2 asks the second controller.
interrupt ==
  LET n == Min(Pending)
      m == Min(Requests(2, pic[2].irr))
  IN  /\ cpu.flags = FL_IF /\ Pending # {}
      /\ IF n = 2
         THEN /\ pic' = [k \in 1..2 |-> IF k = 1 THEN [pic[1] EXCEPT !.isr = @ \cup {2}]
                                        ELSE [pic[2] EXCEPT !.isr = @ \cup {m}, !.irr = @ \ {m}]]
              /\ Deliver(pic[2].base + m)
         ELSE /\ pic' = [pic EXCEPT ![1].isr = @ \cup {n}, ![1].irr = @ \ {n}]
              /\ Deliver(pic[1].base + n)
      /\ UNCHANGED left

\* A request that is gone by the time the processor asks for its vector: line
\* 7 of the controller, with nothing of that controller in service.
spurious(k) ==
  /\ cpu.flags = FL_IF /\ left > 0 /\ pic[1].isr = {}
  /\ left' = left - 1
  /\ \/ k = 1 /\ pic' = pic
     \/ k = 2 /\ 2 \notin pic[1].imr /\ pic' = [pic EXCEPT ![1].isr = @ \cup {2}]
  /\ Deliver(pic[k].base + 7)

-----------------------------------------------------------------------------
(* alltraps and trap_handler. *)

Goto(here, there) == cpu.ip = here /\ cpu' = [cpu EXCEPT !.ip = there]

alltraps ==
  /\ cpu.ip = "alltraps"
  /\ stack' = stack \o <<cpu.ds, cpu.es, cpu.fs, cpu.gs, cpu.gp>>
  /\ cpu' = [cpu EXCEPT !.ip = "trap_handler", !.ds = 8 * X86_GDT_SEG_DATAK,
                        !.es = 8 * X86_GDT_SEG_DATAK]
  /\ UNCHANGED <<code, pic, icw, a, last_trapno, kbd, left, history>>

\* struct trapframe, from the top of the stack.
tf_trapno == stack[Len(stack) - 5]

trap_handler ==
  /\ cpu.ip = "trap_handler"
  /\ last_trapno' = tf_trapno
  /\ cpu' = [cpu EXCEPT !.ip = "announce", !.gp = "junk"]
  /\ UNCHANGED <<stack, code, pic, icw, a, kbd, left, history>>

\* klog, unless last_trapno is the timer's.
trap_announce ==
  /\ Goto("announce", "callback")
  /\ UNCHANGED <<stack, code, pic, icw, a, last_trapno, kbd, left, history>>

trap_callback ==
  /\ Goto("callback", IF tf_trapno \in DOMAIN callback THEN callback[tf_trapno] ELSE "eoi1")
  /\ UNCHANGED <<stack, code, pic, icw, a, last_trapno, kbd, left, history>>

\* byte = inb(0x60)
keyboard_handler ==
  /\ cpu.ip = "keyboard_handler"
  /\ cpu' = [cpu EXCEPT !.ip = "keyboard_log", !.gp = kbd.byte]
  /\ kbd' = [kbd EXCEPT !.full = FALSE]
  /\ UNCHANGED <<stack, code, pic, icw, a, last_trapno, left, history>>

keyboard_log ==
  /\ Goto("keyboard_log", "eoi1")
  /\ letters' = IF cpu.gp \in Letters THEN Append(letters, cpu.gp) ELSE letters
  /\ UNCHANGED <<stack, code, pic, icw, a, last_trapno, kbd, left, firmware, interrupted, pressed, typed>>

eoi_from(k, here, there, offset) ==
  /\ Goto(here, there)
  /\ pic' = IF tf_trapno >= offset THEN [pic EXCEPT ![k] = pic_eoi(@)] ELSE pic
  /\ UNCHANGED <<stack, code, icw, a, last_trapno, kbd, left, history>>

\* Mutants: no test of the number; the timer, the first line, is not the
\* controller's.
x86_pic_eoi_always == eoi_from(1, "eoi1", "eoi2", 0)
x86_pic_eoi_after_first == eoi_from(1, "eoi1", "eoi2", X86_PIC1_OFFSET + 1)

x86_pic_eoi_1 == eoi_from(1, "eoi1", "eoi2", X86_PIC1_OFFSET)
x86_pic_eoi_2 == eoi_from(2, "eoi2", "trapret", X86_PIC2_OFFSET)

\* popal, the selectors, and 8 bytes for trapno and the error code.
return_with(gp) ==
  LET n == Len(stack)
  IN  /\ cpu.ip = "trapret"
      /\ cpu' = [cpu EXCEPT !.ip = "iret", !.gp = gp, !.gs = stack[n - 1],
                            !.fs = stack[n - 2], !.es = stack[n - 3], !.ds = stack[n - 4]]
      /\ stack' = SubSeq(stack, 1, n - 7)
      /\ UNCHANGED <<code, pic, icw, a, last_trapno, kbd, left, history>>

\* Mutant: the general registers are skipped, not popped.
trapret_no_popal == return_with(cpu.gp)

trapret == return_with(Last(stack))

iret ==
  LET n == Len(stack)
  IN  /\ cpu.ip = "iret"
      /\ cpu' = [cpu EXCEPT !.ip = stack[n], !.cs = stack[n - 1], !.flags = stack[n - 2]]
      /\ stack' = SubSeq(stack, 1, n - 3)
      /\ interrupted' = Front(interrupted)
      /\ UNCHANGED <<code, pic, icw, a, last_trapno, kbd, left, firmware, pressed, typed, letters>>

-----------------------------------------------------------------------------
(* kmain and trap_init. *)

NoCallbacks == [v \in {} |-> NONE]

set_gates(kind) ==
  /\ Goto("trap_init", "x86_lidt")
  /\ gates' = kind
  /\ callback' = NoCallbacks
  /\ UNCHANGED <<stack, loaded, segs, pic, icw, a, last_trapno, kbd, left, history>>

\* Mutant: IDT_FLAG_GATE_32BIT_TRAP, which leaves the interrupt flag alone.
trap_init_trap_gates == set_gates("trap")

trap_init == set_gates("interrupt")

load(here, there, table) ==
  /\ Goto(here, there)
  /\ loaded' = loaded \cup {table}
  /\ UNCHANGED <<stack, gates, callback, segs, pic, icw, a, last_trapno, kbd, left, history>>

x86_lidt == load("x86_lidt", "x86_pic_remap", "idt")

\* The writes of x86_pic_remap, and the controller each goes to; the first
\* two go to the command port, the others to the data port.
writes(offset1, offset2) ==
  << <<1, "icw1">>, <<2, "icw1">>,
     <<1, offset1>>, <<2, offset2>>, <<1, 4>>, <<2, 2>>, <<1, 1>>, <<2, 1>>,
     <<1, a[1]>>, <<2, a[2]>> >>

\* Mutant: the offsets are exchanged.
remap_writes_exchanged == writes(X86_PIC2_OFFSET, X86_PIC1_OFFSET)

remap_writes == writes(X86_PIC1_OFFSET, X86_PIC2_OFFSET)

\* inb of the two masks.
x86_pic_remap_save ==
  /\ cpu.ip = "x86_pic_remap" /\ icw = 0
  /\ a' = [k \in 1..2 |-> pic[k].imr]
  /\ icw' = 1
  /\ UNCHANGED <<cpu, stack, code, pic, last_trapno, kbd, left, history>>

x86_pic_remap ==
  LET k == remap_writes[icw][1]
  IN  /\ icw > 0
      /\ cpu.ip = "x86_pic_remap"
      /\ pic' = [pic EXCEPT ![k] = IF icw <= 2 THEN pic_icw1(@)
                                   ELSE pic_data(@, remap_writes[icw][2])]
      /\ icw' = IF icw = 10 THEN 0 ELSE icw + 1
      /\ cpu' = IF icw = 10 THEN [cpu EXCEPT !.ip = "x86_idt_enable"] ELSE cpu
      /\ UNCHANGED <<stack, code, a, last_trapno, kbd, left, history>>

enable(v) ==
  /\ Goto("x86_idt_enable", "segments_init")
  /\ callback' = [x \in {v} \cup DOMAIN callback |-> IF x = v THEN "keyboard_handler" ELSE callback[x]]
  /\ UNCHANGED <<stack, gates, loaded, segs, pic, icw, a, last_trapno, kbd, left, history>>

\* Mutant: the timer's vector.
x86_idt_enable_timer == enable(X86_PIC1_OFFSET)

x86_idt_enable == enable(X86_PIC1_OFFSET + 1)

\* memset of the table, and then one entry after the other.
segments_clear ==
  /\ Goto("segments_init", "x86_gdt_set")
  /\ cpu_gdt' = [i \in 0..(X86_GDT_SEG_SIZE - 1) |-> NullEntry]
  /\ UNCHANGED <<stack, gates, callback, loaded, filled, pic, icw, a, last_trapno, kbd, left, history>>

segments_set ==
  LET n == filled + 1
  IN  /\ Goto("x86_gdt_set", IF n = Len(entries(TSS)) THEN "x86_lgdt" ELSE "x86_gdt_set")
      /\ cpu_gdt' = [cpu_gdt EXCEPT ![entries(TSS)[n][1]] = entries(TSS)[n][2]]
      /\ filled' = n
      /\ UNCHANGED <<stack, gates, callback, loaded, pic, icw, a, last_trapno, kbd, left, history>>

x86_lgdt == load("x86_lgdt", "mov_ds", "gdt")

\* The selectors, one by one, and the far jump.
reload ==
  LET data == 8 * X86_GDT_SEG_DATAK
  IN  /\ cpu' = CASE cpu.ip = "mov_ds" -> [cpu EXCEPT !.ds = data, !.ip = "mov_es"]
                  [] cpu.ip = "mov_es" -> [cpu EXCEPT !.es = data, !.ip = "mov_gs"]
                  [] cpu.ip = "mov_gs" -> [cpu EXCEPT !.gs = data, !.ip = "mov_fs"]
                  [] cpu.ip = "mov_fs" -> [cpu EXCEPT !.fs = data, !.ip = "mov_ss"]
                  [] cpu.ip = "mov_ss" -> [cpu EXCEPT !.ss = data, !.ip = "ljmp"]
                  [] cpu.ip = "ljmp"   -> [cpu EXCEPT !.cs = 8 * X86_GDT_SEG_CODEK, !.ip = "sti"]
      /\ UNCHANGED <<stack, code, pic, icw, a, last_trapno, kbd, left, history>>

x86_lgdt_reload == cpu.ip \in {"mov_ds", "mov_es", "mov_gs", "mov_fs", "mov_ss", "ljmp"} /\ reload

sti ==
  /\ cpu.ip = "sti"
  /\ cpu' = [cpu EXCEPT !.ip = "idle", !.flags = FL_IF]
  /\ UNCHANGED <<stack, code, pic, icw, a, last_trapno, kbd, left, history>>

\* for (;;) {}
idle == cpu.ip = "idle" /\ UNCHANGED vars

-----------------------------------------------------------------------------
(* The devices. *)

tick(line) ==
  /\ left > 0
  /\ left' = left - 1
  /\ pic' = Raise(pic, line)
  /\ UNCHANGED <<cpu, stack, code, icw, a, last_trapno, kbd, history>>

\* The keyboard sends a byte when its last one was read.  None is sent before
\* trap_init is done: initialising a controller forgets a raised line.
press(key) ==
  /\ pressed < MaxKeys
  /\ ~kbd.full
  /\ callback # NoCallbacks
  /\ kbd' = [full |-> TRUE, byte |-> key]
  /\ pressed' = pressed + 1
  /\ typed' = IF key \in Letters THEN Append(typed, key) ELSE typed
  /\ pic' = Raise(pic, 1)
  /\ UNCHANGED <<cpu, stack, code, icw, a, last_trapno, left, firmware, interrupted, letters>>

-----------------------------------------------------------------------------
\* kmain, after cli and the serial port: the loader's selectors, the
\* firmware's controllers with its masks.
Init ==
  /\ cpu = [ip |-> "trap_init", flags |-> 0, cs |-> LoaderCode, ds |-> LoaderData,
            es |-> LoaderData, fs |-> LoaderData, gs |-> LoaderData, ss |-> LoaderData,
            gp |-> "kmain"]
  /\ stack = <<>>
  /\ gates = "absent" /\ callback = NoCallbacks
  /\ loaded = {}
  /\ cpu_gdt = [i \in 0..(X86_GDT_SEG_SIZE - 1) |-> NullEntry] /\ filled = 0
  /\ \E mask \in Masks :
       /\ firmware = [k \in 1..2 |-> {n \in 0..7 : n + 8 * (k - 1) \in mask}]
       /\ pic = [k \in 1..2 |-> [base |-> IF k = 1 THEN 8 ELSE 112, irr |-> {}, isr |-> {},
                                 imr |-> firmware[k], expect |-> "ocw"]]
  /\ icw = 0 /\ a = [k \in 1..2 |-> {}]
  /\ last_trapno = 0
  /\ kbd = [full |-> FALSE, byte |-> NONE]
  /\ left = MaxEvents
  /\ interrupted = <<>> /\ pressed = 0 /\ typed = <<>> /\ letters = <<>>

Handler ==
  \/ alltraps \/ trap_handler \/ trap_announce \/ trap_callback
  \/ keyboard_handler \/ keyboard_log
  \/ x86_pic_eoi_1 \/ x86_pic_eoi_2 \/ trapret \/ iret

Boot ==
  \/ trap_init \/ x86_lidt \/ x86_pic_remap_save \/ x86_pic_remap
  \/ x86_idt_enable \/ sti
  \/ segments_clear \/ segments_set \/ x86_lgdt \/ x86_lgdt_reload

Next ==
  \/ Handler
  \/ Boot
  \/ idle
  \/ interrupt
  \/ \E v \in Exceptions : exception(v)
  \/ \E k \in 1..2 : spurious(k)
  \/ \E line \in Lines : tick(line)
  \/ \E key \in Keys : press(key)

\* The processor executes the code, and takes interrupts.
Spec == Init /\ [][Next]_vars /\ WF_vars(Handler \/ Boot) /\ WF_vars(interrupt)

-----------------------------------------------------------------------------
(* Properties. *)

\* The table the processor looks selectors up in, and its limit.
Table == IF "gdt" \in loaded THEN cpu_gdt ELSE LoaderTable
Limit == IF "gdt" \in loaded THEN 8 * X86_GDT_SEG_SIZE - 1 ELSE 8 * (Max(DOMAIN LoaderTable) + 1) - 1

\* Every selector the processor holds, will take from the stack when the traps
\* in progress return, or would load for the next trap, names the right kind of
\* descriptor in the table in force, at every step of changing the table.
SelectorsUsable ==
  /\ \A r \in {cpu} \cup Range(interrupted) :
       /\ CodeSelector(Table, Limit, r.cs)
       /\ \A selector \in {r.ds, r.es, r.fs, r.gs, r.ss} : DataSelector(Table, Limit, selector)
  /\ "idt" \in loaded =>
       /\ CodeSelector(Table, Limit, GATE_SEGMENT)
       /\ DataSelector(Table, Limit, 8 * X86_GDT_SEG_DATAK)

\* When a trap returns, the code it interrupted goes on where it was, with its
\* flags, selectors and registers, whatever trap it was and however many more
\* arrived in its handler; and its frames are gone from the stack.
ContextRestored ==
  [][Len(interrupted') < Len(interrupted)
       => cpu' = Last(interrupted) /\ (interrupted' = <<>> => stack' = <<>>)]_vars

\* When interrupts come on, everything their delivery uses is in place: the
\* tables are loaded, both controllers have had their four words and give
\* vectors above the exceptions', and the firmware's masks are back.
ReadyForInterrupts ==
  cpu.flags = FL_IF =>
    /\ loaded = {"idt", "gdt"}
    /\ pic[1].base = X86_PIC1_OFFSET /\ pic[2].base = X86_PIC2_OFFSET
    /\ \A k \in 1..2 : pic[k].expect = "ocw" /\ pic[k].imr = firmware[k]

\* Between traps no line is in service: every interrupt has been acknowledged
\* to the controllers it came through, spurious ones included.
AllAcknowledged ==
  interrupted = <<>> => pic[1].isr = {} /\ pic[2].isr = {}

\* An end of interrupt only ever ends the interrupt whose handler sends it,
\* not one that this handler's trap arrived in.
LineOf(v, k) == IF k = 2 THEN v - X86_PIC2_OFFSET
                ELSE IF v >= X86_PIC2_OFFSET THEN 2 ELSE v - X86_PIC1_OFFSET

AcknowledgesOwn ==
  [][\A k \in 1..2 : x86_pic_eoi_1 \/ x86_pic_eoi_2 =>
       pic[k].isr \ pic'[k].isr \subseteq {LineOf(tf_trapno, k)}]_vars

\* trap_handler decides by a global variable whether to announce a trap.  A
\* trap in its handler may change it, but never so that a trap other than the
\* timer's goes unannounced.
OnlyTimerSilent ==
  cpu.ip = "announce" /\ tf_trapno # X86_PIC1_OFFSET => last_trapno # X86_PIC1_OFFSET

\* The letters logged are the ones typed, in their order, none twice; when no
\* trap is being handled only the byte the controller still holds is missing.
LettersAsTyped ==
  /\ IsPrefix(letters, typed)
  /\ interrupted = <<>> /\ ~kbd.full => letters = typed

\* If the firmware left the keyboard's line on, every letter typed is logged.
LettersArrive ==
  1 \notin firmware[1] /\ letters # typed ~> letters = typed

=============================================================================
