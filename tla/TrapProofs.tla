----------------------------- MODULE TrapProofs -----------------------------
(***************************************************************************)
(* Traps nested to any depth, of any exceptions and interrupts.            *)
(*                                                                         *)
(* The stack is a pile of frames, one for each trap in progress.  A frame  *)
(* is as long as its handler has come: five words at alltraps, ten while   *)
(* the handler runs, three at iret.  The handler of frame i is             *)
(* Levels[i + 1], what it interrupted is Levels[i], and between the two    *)
(* nothing is lost: each register is either in the frame or still in the   *)
(* handler's hands.                                                        *)
(*                                                                         *)
(* Interrupts come on in the idle loop and gates turn them off, so only    *)
(* the first trap can be an interrupt: what is in service at the           *)
(* controllers, and what is on its way from the keyboard, is decided by    *)
(* how far the first handler has come.                                     *)
(***************************************************************************)
EXTENDS Trap, SequenceTheorems, TLAPS

Values == {"kmain", "junk", NONE} \cup Keys

\* Where a handler is: before its end of interrupt, and after it.
Open   == {"alltraps", "trap_handler", "announce", "callback", "keyboard_handler",
           "keyboard_log", "eoi1"}
Closed == {"eoi2", "trapret", "iret"}

\* Where the kernel is, outside of handlers.
Early == {"trap_init", "x86_lidt", "x86_pic_remap", "x86_idt_enable"}
Late  == {"segments_init", "x86_gdt_set", "x86_lgdt"}
Ready == {"mov_ds", "mov_es", "mov_gs", "mov_fs", "mov_ss", "ljmp", "sti", "idle"}

HandlerIp == Open \cup Closed
KernelIp  == Early \cup Late \cup Ready

Regs == [ip : HandlerIp \cup KernelIp, flags : {0, FL_IF}, cs : Nat, ds : Nat, es : Nat, fs : Nat,
         gs : Nat, ss : Nat, gp : Values]

StackWord == Nat \cup HandlerIp \cup KernelIp \cup {"error", "zero"} \cup Values

TypeInv ==
  /\ cpu \in Regs
  /\ interrupted \in Seq(Regs)
  /\ stack \in Seq(StackWord)
  /\ last_trapno \in Nat
  /\ kbd \in [full : BOOLEAN, byte : Keys \cup {NONE}]
  /\ typed \in Seq(Letters) /\ letters \in Seq(Letters)

-----------------------------------------------------------------------------
(* The stack. *)

\* The kernel, the handler of the first trap, and so on up to the processor.
Levels == Append(interrupted, cpu)

\* The words of a frame whose handler is there.
Size(ip) == IF ip = "alltraps" THEN 5 ELSE IF ip = "iret" THEN 3 ELSE 10

\* The frame above word b of stack st, of a handler h that interrupted r.
Framed(st, b, r, h) ==
  /\ st[b + 1] = r.flags /\ st[b + 2] = r.cs /\ st[b + 3] = r.ip
  /\ h.ip # "iret" => st[b + 5] \in Nat
  /\ IF h.ip \in {"alltraps", "iret"}
     THEN h.ds = r.ds /\ h.es = r.es /\ h.fs = r.fs /\ h.gs = r.gs /\ h.gp = r.gp
     ELSE /\ st[b + 6] = r.ds /\ st[b + 7] = r.es /\ st[b + 8] = r.fs
          /\ st[b + 9] = r.gs /\ st[b + 10] = r.gp
  /\ h.ss = r.ss

\* The frames of levels rs start at these words of stack st.
Frames(base, st, rs) ==
  /\ base[1] = 0 /\ base[Len(rs)] = Len(st)
  /\ \A i, j \in 1..Len(rs) : i <= j => base[i] <= base[j]
  /\ \A i \in 1..(Len(rs) - 1) :
       /\ base[i + 1] = base[i] + Size(rs[i + 1].ip)
       /\ Framed(st, base[i], rs[i], rs[i + 1])
       \* Only the first trap may be an interrupt.
       /\ i > 1 /\ rs[i + 1].ip # "iret" => st[base[i] + 5] < X86_PIC1_OFFSET

FramesInv == \E base \in [1..Len(Levels) -> Nat] : Frames(base, stack, Levels)

\* Handlers above the kernel, with interrupts off.
NestingInv ==
  /\ Levels[1].ip \in KernelIp
  /\ Levels[1].flags = (IF Levels[1].ip = "idle" THEN FL_IF ELSE 0)
  /\ \A i \in 2..Len(Levels) : Levels[i].ip \in HandlerIp /\ Levels[i].flags = 0
  /\ \A i \in 3..Len(Levels) : Levels[i].ip \notin {"keyboard_handler", "keyboard_log"}
  /\ Len(Levels) > 1 => Levels[1].ip \notin {"trap_init", "x86_lidt"}

-----------------------------------------------------------------------------
(* What is in place when. *)

Here == Levels[1].ip

TablesInv ==
  /\ Here # "trap_init" => gates = "interrupt"
  /\ IF Here \in Early THEN callback = NoCallbacks
     ELSE DOMAIN callback = {X86_PIC1_OFFSET + 1} /\ callback[X86_PIC1_OFFSET + 1] = "keyboard_handler"
  /\ loaded = (IF Here \in {"trap_init", "x86_lidt"} THEN {}
               ELSE IF Here \in Ready THEN {"idt", "gdt"} ELSE {"idt"})

\* The entries set so far.
SegmentsInv ==
  /\ DOMAIN cpu_gdt = 0..(X86_GDT_SEG_SIZE - 1)
  /\ filled \in 0..5
  /\ Here \in Early \cup {"segments_init"} => filled = 0
  /\ Here = "x86_gdt_set" => filled < 5
  /\ Here \in {"x86_lgdt"} \cup Ready => filled = 5
  /\ \A n \in 1..filled : cpu_gdt[entries(TSS)[n][1]] = entries(TSS)[n][2]

\* What controller k waits for after this many writes of x86_pic_remap, and
\* whether it has its vectors and has lost its mask.
Expected(k) ==
  IF icw <= k \/ icw > k + 6 THEN "ocw"
  ELSE IF icw <= k + 2 THEN "icw2"
  ELSE IF icw <= k + 4 THEN "icw3" ELSE "icw4"

Offset(k) == IF k = 1 THEN X86_PIC1_OFFSET ELSE X86_PIC2_OFFSET

PicInv ==
  /\ pic \in [1..2 -> Pic]
  /\ icw \in 0..10 /\ (icw > 0 => Here = "x86_pic_remap")
  /\ icw > 0 => a = firmware
  /\ firmware \in [1..2 -> SUBSET (0..7)]
  /\ \A k \in 1..2 :
       /\ pic[k].expect = Expected(k)
       /\ icw <= k \/ icw > k + 8 => pic[k].imr = firmware[k]
       /\ icw > k + 2 \/ Here \in {"x86_idt_enable"} \cup Late \cup Ready => pic[k].base = Offset(k)
  \* The second controller's line is nobody else's.
  /\ 2 \notin pic[1].irr

\* What the first trap has in service: nothing for an exception.
Served(v, k) ==
  IF v < X86_PIC1_OFFSET THEN {}
  ELSE IF v < X86_PIC2_OFFSET THEN (IF k = 1 THEN {v - X86_PIC1_OFFSET} ELSE {})
  ELSE IF k = 1 THEN {2} ELSE {v - X86_PIC2_OFFSET}

InService(k) ==
  IF Len(Levels) = 1 \/ Levels[2].ip \in Closed \ {"eoi2"} \/ (k = 1 /\ Levels[2].ip = "eoi2") THEN {}
  ELSE Served(stack[5], k)

ServiceInv == \A k \in 1..2 : pic[k].isr \subseteq InService(k)

-----------------------------------------------------------------------------
(* The handlers' data. *)

AnnounceInv ==
  last_trapno = X86_PIC1_OFFSET =>
    /\ \A i \in 3..Len(Levels) : Levels[i].ip # "announce"
    /\ Len(Levels) > 1 /\ Levels[2].ip = "announce" => stack[5] = X86_PIC1_OFFSET

\* A byte on its way: in the first handler's registers, and in the controller.
InHand == IF Len(Levels) > 1 /\ Levels[2].ip = "keyboard_log" /\ Levels[2].gp \in Letters
          THEN <<Levels[2].gp>> ELSE <<>>

InBuffer == IF kbd.full /\ kbd.byte \in Letters THEN <<kbd.byte>> ELSE <<>>

\* A byte is announced once, and stays until its handler has read it.
KeyboardInv ==
  /\ typed = (letters \o InHand) \o InBuffer
  /\ 1 \in pic[1].irr => kbd.full
  /\ Here \in Early => ~kbd.full
  /\ Len(Levels) > 1 /\ Levels[2].ip \in {"keyboard_handler", "keyboard_log"} => stack[5] = X86_PIC1_OFFSET + 1
  /\ /\ Len(Levels) > 1 /\ Levels[2].ip \in Open \ {"keyboard_log", "eoi1"}
     /\ stack[5] = X86_PIC1_OFFSET + 1
     => kbd.full /\ 1 \notin pic[1].irr

Inv ==
  /\ TypeInv /\ FramesInv /\ NestingInv /\ TablesInv /\ SegmentsInv
  /\ PicInv /\ ServiceInv /\ AnnounceInv /\ KeyboardInv

-----------------------------------------------------------------------------
(* Sequences. *)

\* The last element of a sequence that has one more.
LEMMA Appended ==
  ASSUME NEW S, NEW s \in Seq(S), NEW x \in S
  PROVE  /\ Append(s, x) \in Seq(S)
         /\ Len(Append(s, x)) = Len(s) + 1
         /\ \A i \in 1..Len(s) : Append(s, x)[i] = s[i]
         /\ Append(s, x)[Len(s) + 1] = x
  OBVIOUS

\* What the prefixes of a sequence hold.
LEMMA Cut ==
  ASSUME NEW S, NEW s \in Seq(S), NEW n \in 0..Len(s)
  PROVE  /\ SubSeq(s, 1, n) \in Seq(S)
         /\ Len(SubSeq(s, 1, n)) = n
         /\ \A i \in 1..n : SubSeq(s, 1, n)[i] = s[i]
  <1>1. \A i \in 1..n : s[i] \in S
    BY ElementOfSeq
  <1>2. QED
    BY <1>1, SubSeqProperties

-----------------------------------------------------------------------------
(* Levels, before and after a step. *)

\* The levels are those interrupted and, on top, the processor.
LEMMA LevelsType ==
  ASSUME cpu \in Regs, interrupted \in Seq(Regs)
  PROVE  /\ Levels \in Seq(Regs)
         /\ Len(Levels) = Len(interrupted) + 1
         /\ Len(Levels) \in Nat \ {0}
         /\ \A i \in 1..Len(Levels) : Levels[i] \in Regs
         /\ \A i \in 1..Len(interrupted) : Levels[i] = interrupted[i]
         /\ Levels[Len(Levels)] = cpu
  <1>1. Len(interrupted) \in Nat
    BY LenProperties
  <1>2. /\ Levels \in Seq(Regs)
        /\ Len(Levels) = Len(interrupted) + 1
        /\ \A i \in 1..Len(interrupted) : Levels[i] = interrupted[i]
        /\ Levels[Len(Levels)] = cpu
    BY Appended DEF Levels
  <1>3. \A i \in 1..Len(Levels) : Levels[i] \in Regs
    BY <1>2, ElementOfSeq
  <1>4. QED
    BY <1>1, <1>2, <1>3

\* A step within a level changes the top only.
LEMMA LevelsStay ==
  ASSUME cpu \in Regs, interrupted \in Seq(Regs), cpu' \in Regs, UNCHANGED interrupted
  PROVE  /\ Len(Levels') = Len(Levels)
         /\ \A i \in 1..(Len(Levels) - 1) : Levels'[i] = Levels[i]
         /\ Levels'[Len(Levels)] = cpu'
  <1>1. Len(interrupted) \in Nat
    BY LenProperties
  <1>2. /\ Len(Levels) = Len(interrupted) + 1
        /\ \A i \in 1..Len(interrupted) : Levels[i] = interrupted[i]
    BY LevelsType
  <1>3. Levels' = Append(interrupted, cpu')
    BY DEF Levels
  <1>4. /\ Len(Levels') = Len(interrupted) + 1
        /\ \A i \in 1..Len(interrupted) : Levels'[i] = interrupted[i]
        /\ Levels'[Len(interrupted) + 1] = cpu'
    BY <1>3, Appended
  <1>5. QED
    BY <1>1, <1>2, <1>4

\* A trap puts a level on top.
LEMMA LevelsPushed ==
  ASSUME cpu \in Regs, interrupted \in Seq(Regs), cpu' \in Regs,
         interrupted' = Append(interrupted, cpu)
  PROVE  /\ Len(Levels') = Len(Levels) + 1
         /\ \A i \in 1..Len(Levels) : Levels'[i] = Levels[i]
         /\ Levels'[Len(Levels) + 1] = cpu'
  <1>1. Levels' = Append(Levels, cpu')
    BY DEF Levels
  <1>2. QED
    BY <1>1, LevelsType, Appended

\* A return that goes on with what was interrupted takes the top off.
LEMMA LevelsPopped ==
  ASSUME cpu \in Regs, interrupted \in Seq(Regs), interrupted # <<>>,
         cpu' = Levels[Len(Levels) - 1],
         interrupted' = Front(interrupted)
  PROVE  /\ interrupted' \in Seq(Regs)
         /\ Len(Levels') = Len(Levels) - 1
         /\ \A i \in 1..(Len(Levels) - 1) : Levels'[i] = Levels[i]
  <1> DEFINE n == Len(interrupted)
  <1>1. n \in Nat \ {0}
    BY EmptySeq, LenProperties
  <1>2. /\ Len(Levels) = n + 1
        /\ \A i \in 1..n : Levels[i] = interrupted[i]
    BY LevelsType
  <1>3. interrupted' = SubSeq(interrupted, 1, n - 1)
    BY DEF Front
  <1>4. /\ interrupted' \in Seq(Regs)
        /\ Len(interrupted') = n - 1
        /\ \A i \in 1..(n - 1) : interrupted'[i] = interrupted[i]
    <2>1. n - 1 \in 0..Len(interrupted)
      BY <1>1
    <2>2. QED
      BY <1>3, <2>1, Cut
  <1>5. cpu' = Levels[n] /\ cpu' \in Regs
    BY <1>1, <1>2, ElementOfSeq
  <1>6. Levels' = Append(interrupted', cpu')
    BY DEF Levels
  <1>7. /\ Len(Levels') = n
        /\ \A i \in 1..(n - 1) : Levels'[i] = interrupted'[i]
        /\ Levels'[n] = cpu'
    BY <1>1, <1>4, <1>5, <1>6, Appended
  <1>8. QED
    BY <1>1, <1>2, <1>4, <1>5, <1>7

-----------------------------------------------------------------------------
(* Frames, before and after a step. *)

\* Stacks that agree on their first n words.
Agree(s, t, n) == \A j \in 1..n : t[j] = s[j]

\* What a frame says stays true of a stack that agrees so far.
LEMMA FramedKept ==
  ASSUME NEW s, NEW t, NEW n \in Nat, NEW b \in Nat, NEW r, NEW h,
         Agree(s, t, n),
         b + Size(h.ip) <= n,
         Framed(s, b, r, h)
  PROVE  /\ Framed(t, b, r, h)
         /\ h.ip # "iret" => t[b + 5] = s[b + 5]
  <1>1. t[b + 1] = s[b + 1] /\ t[b + 2] = s[b + 2] /\ t[b + 3] = s[b + 3]
    BY DEF Size, Agree
  <1>2. h.ip # "iret" => t[b + 5] = s[b + 5]
    BY DEF Size, Agree
  <1>3. h.ip \notin {"alltraps", "iret"} =>
          /\ t[b + 6] = s[b + 6] /\ t[b + 7] = s[b + 7] /\ t[b + 8] = s[b + 8]
          /\ t[b + 9] = s[b + 9] /\ t[b + 10] = s[b + 10]
    BY DEF Size, Agree
  <1>4. QED
    BY <1>1, <1>2, <1>3 DEF Framed

\* Where frames lie: each within the stack and below the next.
LEMMA FramesWithin ==
  ASSUME NEW st \in Seq(StackWord), NEW rs \in Seq(Regs), Len(rs) \in Nat \ {0},
         NEW base \in [1..Len(rs) -> Nat], Frames(base, st, rs),
         NEW i \in 1..(Len(rs) - 1)
  PROVE  /\ base[i] \in Nat /\ base[i + 1] \in Nat
         /\ base[i] + Size(rs[i + 1].ip) = base[i + 1]
         /\ \A j \in (i + 1)..Len(rs) : base[i + 1] <= base[j]
         /\ base[i + 1] <= Len(st)
         /\ Framed(st, base[i], rs[i], rs[i + 1])
         /\ i > 1 /\ rs[i + 1].ip # "iret" => st[base[i] + 5] < X86_PIC1_OFFSET
  <1>1. i + 1 \in 1..Len(rs) /\ i \in 1..Len(rs) /\ Len(rs) \in 1..Len(rs)
    OBVIOUS
  <1>2. base[i] \in Nat /\ base[i + 1] \in Nat
    BY <1>1
  <1>3. \A j \in (i + 1)..Len(rs) : base[i + 1] <= base[j]
    BY <1>1 DEF Frames
  <1>4. base[i + 1] <= Len(st)
    BY <1>1, <1>3 DEF Frames
  <1>5. QED
    BY <1>2, <1>3, <1>4 DEF Frames

\* The first frame starts at word 0.
LEMMA FramesOfOne ==
  ASSUME NEW st, NEW rs, NEW rs2, Len(rs) = 1, Len(rs2) = 1,
         NEW base \in [1..1 -> Nat], Frames(base, st, rs)
  PROVE  Frames(base, st, rs2) /\ Len(st) = 0
  BY DEF Frames

\* A new frame, of five words.
LEMMA FramesPushed ==
  ASSUME NEW st \in Seq(StackWord), NEW rs \in Seq(Regs), Len(rs) \in Nat \ {0},
         NEW base \in [1..Len(rs) -> Nat], Frames(base, st, rs),
         NEW st2, NEW rs2, NEW h,
         Len(st2) = Len(st) + 5, Agree(st, st2, Len(st)),
         Len(rs2) = Len(rs) + 1, \A i \in 1..Len(rs) : rs2[i] = rs[i],
         rs2[Len(rs) + 1] = h,
         h.ip = "alltraps",
         Framed(st2, Len(st), rs[Len(rs)], h),
         Len(rs) > 1 => st2[Len(st) + 5] < X86_PIC1_OFFSET
  PROVE  \E b \in [1..Len(rs2) -> Nat] : Frames(b, st2, rs2)
  <1> DEFINE n == Len(rs)
             b == [i \in 1..(n + 1) |-> IF i = n + 1 THEN Len(st) + 5 ELSE base[i]]
  <1>0. n \in Nat \ {0} /\ Len(st) \in Nat /\ base[n] = Len(st)
    BY LenProperties DEF Frames
  <1>1. b \in [1..(n + 1) -> Nat]
    BY <1>0
  <1>2. \A i \in 1..n : b[i] = base[i] /\ base[i] \in Nat
    BY <1>0
  <1>3. b[n + 1] = Len(st) + 5
    BY <1>0
  <1> HIDE DEF b
  <1>4. b[1] = 0 /\ b[Len(rs2)] = Len(st2)
    BY <1>0, <1>2, <1>3 DEF Frames
  <1>5. \A i, j \in 1..Len(rs2) : i <= j => b[i] <= b[j]
    <2> SUFFICES ASSUME NEW i \in 1..(n + 1), NEW j \in 1..(n + 1), i <= j
                 PROVE  b[i] <= b[j]
      OBVIOUS
    <2>1. CASE j = n + 1 /\ i # n + 1
      <3>1. i \in 1..n /\ n \in 1..n
        BY <2>1, <1>0
      <3>2. base[i] <= base[n]
        BY <3>1 DEF Frames
      <3>3. QED
        BY <2>1, <3>1, <3>2, <1>0, <1>2, <1>3
    <2>2. CASE j = n + 1 /\ i = n + 1
      BY <2>2, <1>0, <1>3
    <2>3. CASE j # n + 1
      <3>1. i \in 1..n /\ j \in 1..n
        BY <2>3, <1>0
      <3>2. base[i] <= base[j]
        BY <3>1 DEF Frames
      <3>3. QED
        BY <3>1, <3>2, <1>2
    <2>4. QED
      BY <2>1, <2>2, <2>3
  <1>6. ASSUME NEW i \in 1..n
        PROVE  /\ b[i + 1] = b[i] + Size(rs2[i + 1].ip)
               /\ Framed(st2, b[i], rs2[i], rs2[i + 1])
               /\ i > 1 /\ rs2[i + 1].ip # "iret" => st2[b[i] + 5] < X86_PIC1_OFFSET
    <2>1. CASE i = n
      <3>1. b[i] = Len(st) /\ b[i + 1] = Len(st) + 5 /\ rs2[i] = rs[n] /\ rs2[i + 1] = h
        BY <2>1, <1>0, <1>2, <1>3
      <3>2. QED
        BY <2>1, <3>1, <1>0 DEF Size
    <2>2. CASE i # n
      <3>1. i \in 1..(n - 1)
        BY <2>2, <1>0
      <3>2. b[i] = base[i] /\ b[i + 1] = base[i + 1] /\ rs2[i] = rs[i] /\ rs2[i + 1] = rs[i + 1]
        BY <3>1, <1>0, <1>2
      <3>3. /\ base[i] \in Nat
            /\ base[i] + Size(rs[i + 1].ip) = base[i + 1]
            /\ base[i] + Size(rs[i + 1].ip) <= Len(st)
            /\ Framed(st, base[i], rs[i], rs[i + 1])
            /\ i > 1 /\ rs[i + 1].ip # "iret" => st[base[i] + 5] < X86_PIC1_OFFSET
        BY <3>1, <1>0, FramesWithin
      <3>4. /\ Framed(st2, base[i], rs[i], rs[i + 1])
            /\ rs[i + 1].ip # "iret" => st2[base[i] + 5] = st[base[i] + 5]
        BY <3>3, <1>0, FramedKept
      <3>5. QED
        BY <3>2, <3>3, <3>4
    <2>3. QED
      BY <2>1, <2>2
  <1>7. Frames(b, st2, rs2)
    <2>1. Len(rs2) - 1 = n
      BY <1>0
    <2>2. QED
      BY <2>1, <1>4, <1>5, <1>6 DEF Frames
  <1>8. QED
    BY <1>0, <1>1, <1>7

\* The top frame changes with its handler.
LEMMA FramesTop ==
  ASSUME NEW st \in Seq(StackWord), NEW rs \in Seq(Regs), NEW d \in Nat \ {0}, Len(rs) = d + 1,
         NEW base \in [1..Len(rs) -> Nat], Frames(base, st, rs),
         NEW st2, NEW rs2, NEW h,
         Len(st2) = base[d] + Size(h.ip), Agree(st, st2, base[d]),
         Len(rs2) = Len(rs), \A i \in 1..d : rs2[i] = rs[i],
         rs2[d + 1] = h,
         Framed(st2, base[d], rs[d], h),
         d > 1 /\ h.ip # "iret" => st2[base[d] + 5] < X86_PIC1_OFFSET
  PROVE  \E b \in [1..Len(rs2) -> Nat] : Frames(b, st2, rs2)
  <1> DEFINE b == [base EXCEPT ![d + 1] = base[d] + Size(h.ip)]
  <1>0. /\ d \in Nat \ {0} /\ d \in 1..Len(rs) /\ Len(rs) \in Nat \ {0}
        /\ base[d] \in Nat
        /\ Size(h.ip) \in Nat
    <2>1. d \in Nat \ {0} /\ d \in 1..Len(rs) /\ Len(rs) \in Nat \ {0}
      OBVIOUS
    <2>2. QED
      BY <2>1 DEF Size
  <1>1. b \in [1..Len(rs) -> Nat]
    BY <1>0
  <1>2. \A i \in 1..d : b[i] = base[i] /\ base[i] \in Nat
    <2>1. ASSUME NEW i \in 1..d
          PROVE  i \in 1..Len(rs) /\ i # d + 1
      BY <1>0
    <2>2. QED
      BY <2>1
  <1>3. b[d + 1] = base[d] + Size(h.ip)
    BY <1>0
  <1> HIDE DEF b
  <1>4. b[1] = 0 /\ b[Len(rs2)] = Len(st2)
    BY <1>0, <1>2, <1>3 DEF Frames
  <1>5. \A i, j \in 1..Len(rs2) : i <= j => b[i] <= b[j]
    <2> SUFFICES ASSUME NEW i \in 1..(d + 1), NEW j \in 1..(d + 1), i <= j
                 PROVE  b[i] <= b[j]
      BY <1>0
    <2>1. CASE j = d + 1 /\ i # d + 1
      <3>1. i \in 1..d
        BY <2>1, <1>0
      <3>2. base[i] <= base[d]
        BY <3>1, <1>0 DEF Frames
      <3>3. QED
        BY <2>1, <3>1, <3>2, <1>0, <1>2, <1>3
    <2>2. CASE j = d + 1 /\ i = d + 1
      BY <2>2, <1>0, <1>3
    <2>3. CASE j # d + 1
      <3>1. i \in 1..d /\ j \in 1..d
        BY <2>3, <1>0
      <3>2. base[i] <= base[j]
        BY <3>1, <1>0 DEF Frames
      <3>3. QED
        BY <3>1, <3>2, <1>2
    <2>4. QED
      BY <2>1, <2>2, <2>3
  <1>6. ASSUME NEW i \in 1..d
        PROVE  /\ b[i + 1] = b[i] + Size(rs2[i + 1].ip)
               /\ Framed(st2, b[i], rs2[i], rs2[i + 1])
               /\ i > 1 /\ rs2[i + 1].ip # "iret" => st2[b[i] + 5] < X86_PIC1_OFFSET
    <2>1. CASE i = d
      <3>1. b[i] = base[d] /\ b[i + 1] = base[d] + Size(h.ip) /\ rs2[i] = rs[d] /\ rs2[i + 1] = h
        BY <2>1, <1>0, <1>2, <1>3
      <3>2. QED
        BY <2>1, <3>1, <1>0
    <2>2. CASE i # d
      <3>1. i \in 1..(d - 1) /\ i \in 1..(Len(rs) - 1) /\ d \in (i + 1)..Len(rs)
        BY <2>2, <1>0
      <3>2. b[i] = base[i] /\ b[i + 1] = base[i + 1] /\ rs2[i] = rs[i] /\ rs2[i + 1] = rs[i + 1]
        <4>1. i \in 1..d /\ i + 1 \in 1..d
          BY <3>1, <1>0
        <4>2. QED
          BY <4>1, <1>2
      <3>3. /\ base[i] \in Nat
            /\ base[i] + Size(rs[i + 1].ip) = base[i + 1]
            /\ \A j \in (i + 1)..Len(rs) : base[i + 1] <= base[j]
            /\ Framed(st, base[i], rs[i], rs[i + 1])
            /\ i > 1 /\ rs[i + 1].ip # "iret" => st[base[i] + 5] < X86_PIC1_OFFSET
        BY <3>1, <1>0, FramesWithin
      <3>4. /\ Framed(st2, base[i], rs[i], rs[i + 1])
            /\ rs[i + 1].ip # "iret" => st2[base[i] + 5] = st[base[i] + 5]
        <4> DEFINE n == base[d]
        <4>1. n \in Nat /\ Agree(st, st2, n)
          BY <1>0
        <4>2. base[i] + Size(rs[i + 1].ip) <= n
          BY <3>1, <3>3
        <4>3. base[i] \in Nat /\ Framed(st, base[i], rs[i], rs[i + 1])
          BY <3>3
        <4> HIDE DEF n
        <4>4. QED
          BY ONLY <4>1, <4>2, <4>3, FramedKept
      <3>5. QED
        BY <3>2, <3>3, <3>4
    <2>3. QED
      BY <2>1, <2>2
  <1>7. Frames(b, st2, rs2)
    <2>1. Len(rs2) - 1 = d
      BY <1>0
    <2>2. QED
      BY <2>1, <1>4, <1>5, <1>6 DEF Frames
  <1>8. QED
    BY <1>0, <1>1, <1>7

\* The frames below the top one are left as they are.
LEMMA FramesPopped ==
  ASSUME NEW st \in Seq(StackWord), NEW rs \in Seq(Regs), NEW d \in Nat \ {0}, Len(rs) = d + 1,
         NEW base \in [1..Len(rs) -> Nat], Frames(base, st, rs),
         NEW st2, NEW rs2,
         Len(st2) = base[d], Agree(st, st2, base[d]),
         Len(rs2) = d, \A i \in 1..d : rs2[i] = rs[i]
  PROVE  \E b \in [1..Len(rs2) -> Nat] : Frames(b, st2, rs2)
  <1> DEFINE b == [i \in 1..d |-> base[i]]
  <1>0. d \in 1..Len(rs) /\ Len(rs) \in Nat \ {0} /\ base[d] \in Nat
    <2>1. d \in Nat \ {0} /\ d \in 1..Len(rs) /\ Len(rs) \in Nat \ {0}
      OBVIOUS
    <2>2. QED
      BY <2>1
  <1>1. b \in [1..d -> Nat]
    BY <1>0
  <1>2. \A i \in 1..d : b[i] = base[i]
    BY <1>0
  <1> HIDE DEF b
  <1>3. b[1] = 0 /\ b[Len(rs2)] = Len(st2)
    <2>1. 1 \in 1..d /\ d \in 1..d /\ base[1] = 0
      BY <1>0 DEF Frames
    <2>2. QED
      BY <2>1, <1>2
  <1>4. \A i, j \in 1..Len(rs2) : i <= j => b[i] <= b[j]
    <2> SUFFICES ASSUME NEW i \in 1..d, NEW j \in 1..d, i <= j
                 PROVE  b[i] <= b[j]
      OBVIOUS
    <2>1. i \in 1..Len(rs) /\ j \in 1..Len(rs)
      BY <1>0
    <2>2. base[i] <= base[j]
      BY <2>1 DEF Frames
    <2>3. QED
      BY <2>2, <1>2
  <1>5. ASSUME NEW i \in 1..(d - 1)
        PROVE  /\ b[i + 1] = b[i] + Size(rs2[i + 1].ip)
               /\ Framed(st2, b[i], rs2[i], rs2[i + 1])
               /\ i > 1 /\ rs2[i + 1].ip # "iret" => st2[b[i] + 5] < X86_PIC1_OFFSET
    <2>1. i \in 1..(Len(rs) - 1) /\ d \in (i + 1)..Len(rs)
      BY <1>0
    <2>2. b[i] = base[i] /\ b[i + 1] = base[i + 1] /\ rs2[i] = rs[i] /\ rs2[i + 1] = rs[i + 1]
      <3>1. i \in 1..d /\ i + 1 \in 1..d
        BY <1>0
      <3>2. QED
        BY <3>1, <1>2
    <2>3. /\ base[i] \in Nat
          /\ base[i] + Size(rs[i + 1].ip) = base[i + 1]
          /\ \A j \in (i + 1)..Len(rs) : base[i + 1] <= base[j]
          /\ Framed(st, base[i], rs[i], rs[i + 1])
          /\ i > 1 /\ rs[i + 1].ip # "iret" => st[base[i] + 5] < X86_PIC1_OFFSET
      BY <2>1, <1>0, FramesWithin
    <2>4. /\ Framed(st2, base[i], rs[i], rs[i + 1])
          /\ rs[i + 1].ip # "iret" => st2[base[i] + 5] = st[base[i] + 5]
      <3> DEFINE n == base[d]
      <3>1. n \in Nat /\ Agree(st, st2, n)
        BY <1>0
      <3>2. base[i] + Size(rs[i + 1].ip) <= n
        BY <2>1, <2>3
      <3>3. base[i] \in Nat /\ Framed(st, base[i], rs[i], rs[i + 1])
        BY <2>3
      <3> HIDE DEF n
      <3>4. QED
        BY ONLY <3>1, <3>2, <3>3, FramedKept
    <2>5. QED
      BY <2>2, <2>3, <2>4
  <1>6. Frames(b, st2, rs2)
    BY <1>0, <1>3, <1>4, <1>5 DEF Frames
  <1>7. QED
    BY <1>1, <1>6

-----------------------------------------------------------------------------
(* Where the processor is. *)

Nested == TypeInv /\ FramesInv /\ NestingInv

\* The code addresses of the kernel are not those of a handler.
LEMMA IpDisjoint ==
  ASSUME NEW ip \in KernelIp
  PROVE  ip \notin HandlerIp
  BY DEF KernelIp, HandlerIp, Early, Late, Ready, Open, Closed

\* In kmain no trap is in progress.
LEMMA AtKernel ==
  ASSUME Nested, cpu.ip \in KernelIp
  PROVE  /\ Len(Levels) = 1 /\ Levels[1] = cpu
         /\ interrupted = <<>>
         /\ stack = <<>>
  <1>1. /\ Levels[Len(Levels)] = cpu
        /\ Len(Levels) = Len(interrupted) + 1
        /\ Len(Levels) \in Nat \ {0}
    BY LevelsType DEF Nested, TypeInv
  <1>2. ~(Len(Levels) \in 2..Len(Levels))
    BY <1>1, IpDisjoint DEF Nested, NestingInv
  <1>3. Len(Levels) = 1
    BY <1>1, <1>2
  <1>4. interrupted \in Seq(Regs) /\ stack \in Seq(StackWord)
    BY DEF Nested, TypeInv
  <1>5. interrupted = <<>>
    <2>1. Len(interrupted) \in Nat
      BY <1>4, LenProperties
    <2>2. Len(interrupted) = 0
      BY <2>1, <1>1, <1>3
    <2>3. QED
      BY <2>2, <1>4, EmptySeq
  <1>6. PICK base \in [1..Len(Levels) -> Nat] : Frames(base, stack, Levels)
    BY DEF Nested, FramesInv
  <1>7. Len(stack) = 0
    BY <1>3, <1>6 DEF Frames
  <1>8. QED
    BY <1>1, <1>3, <1>4, <1>5, <1>7, EmptySeq

\* In a handler at least one is, and interrupts are off.
LEMMA AtHandler ==
  ASSUME Nested, cpu.ip \notin KernelIp
  PROVE  /\ cpu.ip \in HandlerIp
         /\ Len(Levels) - 1 \in Nat \ {0}
         /\ Len(Levels) = (Len(Levels) - 1) + 1
         /\ interrupted # <<>>
         /\ Len(interrupted) = Len(Levels) - 1
         /\ cpu.flags = 0
  <1>1. /\ Levels[Len(Levels)] = cpu
        /\ Len(Levels) = Len(interrupted) + 1
        /\ Len(Levels) \in Nat \ {0}
    BY LevelsType DEF Nested, TypeInv
  <1>2. Len(Levels) # 1
    BY <1>1 DEF Nested, NestingInv
  <1>3. Len(Levels) \in 2..Len(Levels)
    BY <1>1, <1>2
  <1>4. cpu.ip \in HandlerIp /\ cpu.flags = 0
    BY <1>1, <1>3 DEF Nested, NestingInv
  <1>5. Len(interrupted) # 0
    BY <1>1, <1>2
  <1>6. QED
    BY <1>1, <1>2, <1>4, <1>5

\* Where interrupts are on, in the idle loop.
LEMMA AtIdle ==
  ASSUME Nested, cpu.flags = FL_IF
  PROVE  cpu.ip = "idle"
  <1>1. cpu.ip \in KernelIp
    BY AtHandler DEF FL_IF
  <1>2. Levels[1] = cpu
    BY <1>1, AtKernel
  <1>3. QED
    BY <1>2 DEF Nested, NestingInv, FL_IF

\* The frame of the handler that runs.
LEMMA TopFrame ==
  ASSUME Nested, NEW d \in Nat \ {0}, Len(Levels) = d + 1,
         NEW base \in [1..Len(Levels) -> Nat], Frames(base, stack, Levels)
  PROVE  /\ base[d] \in Nat
         /\ Len(stack) = base[d] + Size(cpu.ip)
         /\ Framed(stack, base[d], Levels[d], cpu)
         /\ d > 1 /\ cpu.ip # "iret" => stack[base[d] + 5] < X86_PIC1_OFFSET
         /\ d = 1 => base[d] = 0
         /\ Levels[d] \in Regs
  <1>1. /\ Levels[d + 1] = cpu
        /\ Levels \in Seq(Regs)
        /\ \A i \in 1..Len(Levels) : Levels[i] \in Regs
    BY LevelsType DEF Nested, TypeInv
  <1>2. d \in 1..(Len(Levels) - 1) /\ d \in 1..Len(Levels)
    OBVIOUS
  <1>3. /\ base[d] \in Nat
        /\ base[d] + Size(Levels[d + 1].ip) = base[d + 1]
        /\ Framed(stack, base[d], Levels[d], Levels[d + 1])
        /\ d > 1 /\ Levels[d + 1].ip # "iret" => stack[base[d] + 5] < X86_PIC1_OFFSET
    <2>1. stack \in Seq(StackWord) /\ Len(Levels) \in Nat \ {0}
      BY DEF Nested, TypeInv
    <2>2. QED
      BY <1>1, <1>2, <2>1, FramesWithin
  <1>4. base[1] = 0 /\ base[d + 1] = Len(stack)
    BY DEF Frames
  <1>5. QED
    BY <1>1, <1>2, <1>3, <1>4

\* The number of the trap, where the handler reads it.
LEMMA TheTrapno ==
  ASSUME Nested, cpu.ip \in HandlerIp \ {"alltraps", "iret"}
  PROVE  /\ tf_trapno \in Nat
         /\ Len(Levels) > 2 => tf_trapno < X86_PIC1_OFFSET
         /\ Len(Levels) = 2 => tf_trapno = stack[5]
         /\ Len(Levels) \in Nat \ {0, 1}
  <1> DEFINE d == Len(Levels) - 1
  <1>1. d \in Nat \ {0} /\ Len(Levels) = d + 1
    BY AtHandler, IpDisjoint
  <1>2. PICK base \in [1..Len(Levels) -> Nat] : Frames(base, stack, Levels)
    BY DEF Nested, FramesInv
  <1> HIDE DEF d
  <1>3. /\ base[d] \in Nat
        /\ Len(stack) = base[d] + Size(cpu.ip)
        /\ Framed(stack, base[d], Levels[d], cpu)
        /\ d > 1 /\ cpu.ip # "iret" => stack[base[d] + 5] < X86_PIC1_OFFSET
        /\ d = 1 => base[d] = 0
    BY <1>1, <1>2, TopFrame
  <1>4. tf_trapno = stack[base[d] + 5]
    <2>1. Size(cpu.ip) = 10
      BY DEF Size
    <2>2. Len(stack) - 5 = base[d] + 5
      BY <1>3, <2>1
    <2>3. QED
      BY <2>2 DEF tf_trapno
  <1>5. stack[base[d] + 5] \in Nat
    BY <1>3 DEF Framed
  <1>6. QED
    BY <1>1, <1>3, <1>4, <1>5

-----------------------------------------------------------------------------
(* What each step does to the stack. *)

\* A tuple and one more.
LEMMA ConcatOne ==
  ASSUME NEW S, NEW s \in Seq(S), NEW x \in S
  PROVE  s \o <<x>> = Append(s, x)
  BY AppendIsConcat


LEMMA FiveWords ==
  ASSUME NEW x, NEW y, NEW z, NEW e, NEW v
  PROVE  (<<x, y, z>> \o <<e>>) \o <<v>> = <<x, y, z, e, v>>
  <1> DEFINE S == {x, y, z, e, v}
  <1>1. <<x, y, z>> \in Seq(S) /\ <<x, y, z, e>> \in Seq(S) /\ e \in S /\ v \in S
    OBVIOUS
  <1>2. <<x, y, z>> \o <<e>> = Append(<<x, y, z>>, e)
    BY <1>1, ConcatOne
  <1>3. Append(<<x, y, z>>, e) = <<x, y, z, e>>
    <2> DEFINE s == <<x, y, z>>
               t == <<x, y, z, e>>
    <2>1. /\ s \in Seq(S) /\ Len(s) = 3 /\ s[1] = x /\ s[2] = y /\ s[3] = z
          /\ t \in Seq(S) /\ Len(t) = 4 /\ t[1] = x /\ t[2] = y /\ t[3] = z /\ t[4] = e
      OBVIOUS
    <2> HIDE DEF s, t, S
    <2>2. /\ Append(s, e) \in Seq(S)
          /\ Len(Append(s, e)) = 4
          /\ \A i \in 1..3 : Append(s, e)[i] = s[i]
          /\ Append(s, e)[4] = e
      <3>1. e \in S /\ s \in Seq(S)
        BY <1>1, <2>1
      <3>2. /\ Append(s, e) \in Seq(S)
            /\ Len(Append(s, e)) = Len(s) + 1
            /\ \A i \in 1..Len(s) : Append(s, e)[i] = s[i]
            /\ Append(s, e)[Len(s) + 1] = e
        BY ONLY <3>1, Appended
      <3>3. QED
        BY <2>1, <3>2
    <2>3. \A i \in 1..4 : Append(s, e)[i] = t[i]
      <3>1. \A i \in 1..4 : i = 1 \/ i = 2 \/ i = 3 \/ i = 4
        OBVIOUS
      <3>2. QED
        BY <2>1, <2>2, <3>1
    <2>4. Append(s, e) = t
      BY <2>1, <2>2, <2>3, SeqEqual
    <2>5. QED
      BY <2>4 DEF s, t
  <1>4. <<x, y, z, e>> \o <<v>> = Append(<<x, y, z, e>>, v)
    BY <1>1, ConcatOne
  <1>5. Append(<<x, y, z, e>>, v) = <<x, y, z, e, v>>
    <2> DEFINE s == <<x, y, z, e>>
               t == <<x, y, z, e, v>>
    <2>1. /\ s \in Seq(S) /\ Len(s) = 4 /\ s[1] = x /\ s[2] = y /\ s[3] = z /\ s[4] = e
          /\ t \in Seq(S) /\ Len(t) = 5
          /\ t[1] = x /\ t[2] = y /\ t[3] = z /\ t[4] = e /\ t[5] = v
      OBVIOUS
    <2> HIDE DEF s, t, S
    <2>2. /\ Append(s, v) \in Seq(S)
          /\ Len(Append(s, v)) = 5
          /\ \A i \in 1..4 : Append(s, v)[i] = s[i]
          /\ Append(s, v)[5] = v
      <3>1. v \in S /\ s \in Seq(S)
        BY <1>1, <2>1
      <3>2. /\ Append(s, v) \in Seq(S)
            /\ Len(Append(s, v)) = Len(s) + 1
            /\ \A i \in 1..Len(s) : Append(s, v)[i] = s[i]
            /\ Append(s, v)[Len(s) + 1] = v
        BY ONLY <3>1, Appended
      <3>3. QED
        BY <2>1, <3>2
    <2>3. \A i \in 1..5 : Append(s, v)[i] = t[i]
      <3>1. \A i \in 1..5 : i = 1 \/ i = 2 \/ i = 3 \/ i = 4 \/ i = 5
        OBVIOUS
      <3>2. QED
        BY <2>1, <2>2, <3>1
    <2>4. Append(s, v) = t
      BY <2>1, <2>2, <2>3, SeqEqual
    <2>5. QED
      BY <2>4 DEF s, t
  <1>6. QED
    BY <1>2, <1>3, <1>4, <1>5

\* A trap pushes five words.
LEMMA FrameWords ==
  ASSUME NEW v \in Vectors
  PROVE  Frame(v) = <<cpu.flags, cpu.cs, cpu.ip, IF v \in ErrorCode THEN "error" ELSE "zero", v>>
  <1> DEFINE t == <<cpu.flags, cpu.cs, cpu.ip>>
  <1>1. CASE v \in ErrorCode
    <2>1. v \notin stub_pushes_zero
      BY <1>1 DEF ErrorCode, stub_pushes_zero
    <2>2. Frame(v) = ((t \o <<"error">>) \o <<>>) \o <<v>>
      BY <1>1, <2>1 DEF Frame
    <2>3. (t \o <<"error">>) \o <<>> = t \o <<"error">>
      <3> DEFINE S == {cpu.flags, cpu.cs, cpu.ip, "error"}
      <3>1. t \in Seq(S) /\ <<"error">> \in Seq(S)
        OBVIOUS
      <3>2. t \o <<"error">> \in Seq(S)
        BY <3>1, ConcatProperties
      <3>3. QED
        BY <3>2, ConcatEmptySeq
    <2>4. QED
      BY <1>1, <2>2, <2>3, FiveWords
  <1>2. CASE v \notin ErrorCode
    <2>1. v \in stub_pushes_zero
      BY <1>2 DEF ErrorCode, stub_pushes_zero, Vectors
    <2>2. Frame(v) = ((t \o <<>>) \o <<"zero">>) \o <<v>>
      BY <1>2, <2>1 DEF Frame
    <2>3. t \o <<>> = t
      <3>1. t \in Seq({cpu.flags, cpu.cs, cpu.ip})
        OBVIOUS
      <3>2. QED
        BY <3>1, ConcatEmptySeq
    <2>4. QED
      BY <1>2, <2>2, <2>3, FiveWords
  <1>3. QED
    BY <1>1, <1>2

\* What is on the stack, and what the processor holds, after a trap.
LEMMA Delivered ==
  ASSUME TypeInv, NEW v \in Vectors, Deliver(v)
  PROVE  /\ stack' \in Seq(StackWord)
         /\ Len(stack') = Len(stack) + 5
         /\ Agree(stack, stack', Len(stack))
         /\ stack'[Len(stack) + 1] = cpu.flags /\ stack'[Len(stack) + 2] = cpu.cs
         /\ stack'[Len(stack) + 3] = cpu.ip /\ stack'[Len(stack) + 5] = v
         /\ cpu' \in Regs
         /\ cpu'.ip = "alltraps" /\ cpu'.cs = GATE_SEGMENT
         /\ cpu'.flags = (IF gates = "interrupt" THEN 0 ELSE cpu.flags)
         /\ cpu'.ds = cpu.ds /\ cpu'.es = cpu.es /\ cpu'.fs = cpu.fs /\ cpu'.gs = cpu.gs
         /\ cpu'.ss = cpu.ss /\ cpu'.gp = cpu.gp
         /\ interrupted' \in Seq(Regs)
  <1> DEFINE e == IF v \in ErrorCode THEN "error" ELSE "zero"
             f == <<cpu.flags, cpu.cs, cpu.ip, e, v>>
  <1>1. stack' = stack \o f
    BY FrameWords DEF Deliver
  <1>2. f \in Seq(StackWord)
    BY DEF TypeInv, Regs, StackWord, Vectors, FL_IF
  <1>3. /\ Len(f) = 5 /\ f[1] = cpu.flags /\ f[2] = cpu.cs /\ f[3] = cpu.ip /\ f[5] = v
    OBVIOUS
  <1>4. stack \in Seq(StackWord) /\ Len(stack) \in Nat
    BY LenProperties DEF TypeInv
  <1> HIDE DEF f
  <1>5. /\ stack' \in Seq(StackWord)
        /\ Len(stack') = Len(stack) + 5
        /\ \A i \in 1..(Len(stack) + 5) :
             stack'[i] = IF i <= Len(stack) THEN stack[i] ELSE f[i - Len(stack)]
    <2>1. /\ stack \o f \in Seq(StackWord)
          /\ Len(stack \o f) = Len(stack) + Len(f)
          /\ \A i \in 1..(Len(stack) + Len(f)) :
               (stack \o f)[i] = IF i <= Len(stack) THEN stack[i] ELSE f[i - Len(stack)]
      BY ONLY <1>2, <1>4, ConcatProperties
    <2>2. QED
      BY <1>1, <1>3, <2>1
  <1>6. Agree(stack, stack', Len(stack))
    BY <1>4, <1>5 DEF Agree
  <1>7. \A j \in 1..5 : stack'[Len(stack) + j] = f[j]
    BY <1>4, <1>5
  <1>8. /\ cpu' \in Regs
        /\ cpu'.ip = "alltraps" /\ cpu'.cs = GATE_SEGMENT
        /\ cpu'.flags = (IF gates = "interrupt" THEN 0 ELSE cpu.flags)
        /\ cpu'.ds = cpu.ds /\ cpu'.es = cpu.es /\ cpu'.fs = cpu.fs /\ cpu'.gs = cpu.gs
        /\ cpu'.ss = cpu.ss /\ cpu'.gp = cpu.gp
    <2> DEFINE flags == IF gates = "interrupt" THEN 0 ELSE cpu.flags
    <2>1. cpu' = [cpu EXCEPT !.ip = "alltraps", !.cs = GATE_SEGMENT, !.flags = flags]
      BY DEF Deliver
    <2>2. flags \in {0, FL_IF} /\ GATE_SEGMENT \in Nat /\ "alltraps" \in HandlerIp \cup KernelIp
      BY DEF TypeInv, Regs, HandlerIp, Open, GATE_SEGMENT
    <2> HIDE DEF flags
    <2>3. cpu \in Regs
      BY DEF TypeInv
    <2>4. /\ cpu' \in Regs
          /\ cpu'.ip = "alltraps" /\ cpu'.cs = GATE_SEGMENT
          /\ cpu'.flags = flags
          /\ cpu'.ds = cpu.ds /\ cpu'.es = cpu.es /\ cpu'.fs = cpu.fs /\ cpu'.gs = cpu.gs
          /\ cpu'.ss = cpu.ss /\ cpu'.gp = cpu.gp
      BY <2>1, <2>2, <2>3 DEF Regs
    <2>5. QED
      BY <2>4 DEF flags
  <1>9. interrupted' \in Seq(Regs)
    BY Appended DEF Deliver, TypeInv
  <1>10. QED
    BY <1>3, <1>5, <1>6, <1>7, <1>8, <1>9

\* alltraps pushes five more.
LEMMA Saved ==
  ASSUME TypeInv, alltraps
  PROVE  /\ stack' \in Seq(StackWord)
         /\ Len(stack') = Len(stack) + 5
         /\ Agree(stack, stack', Len(stack))
         /\ stack'[Len(stack) + 1] = cpu.ds /\ stack'[Len(stack) + 2] = cpu.es
         /\ stack'[Len(stack) + 3] = cpu.fs /\ stack'[Len(stack) + 4] = cpu.gs
         /\ stack'[Len(stack) + 5] = cpu.gp
         /\ cpu' \in Regs
         /\ cpu'.ip = "trap_handler" /\ cpu'.ss = cpu.ss /\ cpu'.flags = cpu.flags
  <1> DEFINE f == <<cpu.ds, cpu.es, cpu.fs, cpu.gs, cpu.gp>>
  <1>1. stack' = stack \o f
    BY DEF alltraps
  <1>2. f \in Seq(StackWord)
    BY DEF TypeInv, Regs, StackWord
  <1>3. /\ Len(f) = 5 /\ f[1] = cpu.ds /\ f[2] = cpu.es /\ f[3] = cpu.fs /\ f[4] = cpu.gs
        /\ f[5] = cpu.gp
    OBVIOUS
  <1>4. stack \in Seq(StackWord) /\ Len(stack) \in Nat
    BY LenProperties DEF TypeInv
  <1> HIDE DEF f
  <1>5. /\ stack' \in Seq(StackWord)
        /\ Len(stack') = Len(stack) + 5
        /\ \A i \in 1..(Len(stack) + 5) :
             stack'[i] = IF i <= Len(stack) THEN stack[i] ELSE f[i - Len(stack)]
    <2>1. /\ stack \o f \in Seq(StackWord)
          /\ Len(stack \o f) = Len(stack) + Len(f)
          /\ \A i \in 1..(Len(stack) + Len(f)) :
               (stack \o f)[i] = IF i <= Len(stack) THEN stack[i] ELSE f[i - Len(stack)]
      BY ONLY <1>2, <1>4, ConcatProperties
    <2>2. QED
      BY <1>1, <1>3, <2>1
  <1>6. Agree(stack, stack', Len(stack))
    BY <1>4, <1>5 DEF Agree
  <1>7. \A j \in 1..5 : stack'[Len(stack) + j] = f[j]
    BY <1>4, <1>5
  <1>8. /\ cpu' \in Regs
        /\ cpu'.ip = "trap_handler" /\ cpu'.ss = cpu.ss /\ cpu'.flags = cpu.flags
    <2>1. cpu' = [cpu EXCEPT !.ip = "trap_handler", !.ds = 16, !.es = 16]
      BY DEF alltraps, X86_GDT_SEG_DATAK
    <2>2. cpu \in Regs /\ "trap_handler" \in HandlerIp \cup KernelIp /\ 16 \in Nat
      BY DEF TypeInv, HandlerIp, Open
    <2>3. QED
      BY <2>1, <2>2 DEF Regs
  <1>9. QED
    BY <1>3, <1>5, <1>6, <1>7, <1>8

\* trapret leaves what the processor pushed, and gives back the registers of
\* what was interrupted.
LEMMA Popped ==
  ASSUME Nested, trapret,
         NEW d \in Nat \ {0}, Len(Levels) = d + 1,
         NEW base \in [1..Len(Levels) -> Nat], Frames(base, stack, Levels)
  PROVE  /\ stack' \in Seq(StackWord)
         /\ Len(stack') = base[d] + 3
         /\ Agree(stack, stack', base[d] + 3)
         /\ cpu' \in Regs
         /\ cpu'.ip = "iret" /\ cpu'.flags = cpu.flags /\ cpu'.ss = Levels[d].ss
         /\ cpu'.ds = Levels[d].ds /\ cpu'.es = Levels[d].es /\ cpu'.fs = Levels[d].fs
         /\ cpu'.gs = Levels[d].gs /\ cpu'.gp = Levels[d].gp
  <1> DEFINE b == base[d]
             r == Levels[d]
             n == Len(stack)
  <1>1. /\ b \in Nat
        /\ n = b + Size(cpu.ip)
        /\ Framed(stack, b, r, cpu)
        /\ r \in Regs
    BY TopFrame
  <1>2. cpu.ip = "trapret"
    BY DEF trapret, return_with
  <1>3. n = b + 10
    BY <1>1, <1>2 DEF Size
  <1>4. /\ stack[b + 6] = r.ds /\ stack[b + 7] = r.es /\ stack[b + 8] = r.fs
        /\ stack[b + 9] = r.gs /\ stack[b + 10] = r.gp /\ cpu.ss = r.ss
    BY <1>1, <1>2 DEF Framed
  <1>5. stack' = SubSeq(stack, 1, b + 3)
    BY <1>1, <1>3 DEF trapret, return_with
  <1>6. cpu' = [cpu EXCEPT !.ip = "iret", !.gp = stack[b + 10], !.gs = stack[b + 9],
                           !.fs = stack[b + 8], !.es = stack[b + 7], !.ds = stack[b + 6]]
    <2>1. n - 1 = b + 9 /\ n - 2 = b + 8 /\ n - 3 = b + 7 /\ n - 4 = b + 6
      BY <1>1, <1>3
    <2>2. cpu' = [cpu EXCEPT !.ip = "iret", !.gp = stack[n], !.gs = stack[n - 1],
                             !.fs = stack[n - 2], !.es = stack[n - 3], !.ds = stack[n - 4]]
      BY DEF trapret, return_with, Last
    <2>3. QED
      BY <1>3, <2>1, <2>2
  <1> HIDE DEF b, r, n
  <1>7. cpu' = [cpu EXCEPT !.ip = "iret", !.gp = r.gp, !.gs = r.gs, !.fs = r.fs, !.es = r.es, !.ds = r.ds]
    BY <1>4, <1>6
  <1>8. /\ cpu' \in Regs
        /\ cpu'.ip = "iret" /\ cpu'.flags = cpu.flags /\ cpu'.ss = r.ss
        /\ cpu'.ds = r.ds /\ cpu'.es = r.es /\ cpu'.fs = r.fs /\ cpu'.gs = r.gs /\ cpu'.gp = r.gp
    <2>1. cpu \in Regs
      BY DEF Nested, TypeInv
    <2>2. QED
      BY <1>1, <1>4, <1>7, <2>1 DEF Regs, HandlerIp, Closed
  <1>9. /\ stack' \in Seq(StackWord)
        /\ Len(stack') = b + 3
        /\ \A j \in 1..(b + 3) : stack'[j] = stack[j]
    <2>1. stack \in Seq(StackWord) /\ b + 3 \in 0..Len(stack)
      BY <1>1, <1>3 DEF Nested, TypeInv, n
    <2>2. QED
      BY <1>5, <2>1, Cut
  <1>10. QED
    BY <1>8, <1>9 DEF b, r, Agree

\* iret goes on with what was interrupted, and takes the frame off.
LEMMA Returned ==
  ASSUME Nested, iret,
         NEW d \in Nat \ {0}, Len(Levels) = d + 1,
         NEW base \in [1..Len(Levels) -> Nat], Frames(base, stack, Levels)
  PROVE  /\ stack' \in Seq(StackWord)
         /\ Len(stack') = base[d]
         /\ Agree(stack, stack', base[d])
         /\ cpu' = Levels[d] /\ cpu' \in Regs
  <1> DEFINE b == base[d]
             r == Levels[d]
             n == Len(stack)
  <1>1. /\ b \in Nat
        /\ n = b + Size(cpu.ip)
        /\ Framed(stack, b, r, cpu)
        /\ r \in Regs
    BY TopFrame
  <1>2. cpu.ip = "iret"
    BY DEF iret
  <1>3. n = b + 3
    BY <1>1, <1>2 DEF Size
  <1>4. /\ stack[b + 1] = r.flags /\ stack[b + 2] = r.cs /\ stack[b + 3] = r.ip
        /\ cpu.ds = r.ds /\ cpu.es = r.es /\ cpu.fs = r.fs /\ cpu.gs = r.gs
        /\ cpu.gp = r.gp /\ cpu.ss = r.ss
    BY <1>1, <1>2 DEF Framed
  <1>5. stack' = SubSeq(stack, 1, b)
    BY <1>1, <1>3 DEF iret
  <1>6. cpu' = [cpu EXCEPT !.ip = stack[b + 3], !.cs = stack[b + 2], !.flags = stack[b + 1]]
    <2>1. n - 1 = b + 2 /\ n - 2 = b + 1
      BY <1>1, <1>3
    <2>2. cpu' = [cpu EXCEPT !.ip = stack[n], !.cs = stack[n - 1], !.flags = stack[n - 2]]
      BY DEF iret
    <2>3. QED
      BY <1>3, <2>1, <2>2
  <1> HIDE DEF b, r, n
  <1>7. cpu' = [cpu EXCEPT !.ip = r.ip, !.cs = r.cs, !.flags = r.flags]
    BY <1>4, <1>6
  <1>8. cpu' = r
    <2>1. cpu \in Regs
      BY DEF Nested, TypeInv
    <2>2. /\ r = [ip |-> r.ip, flags |-> r.flags, cs |-> r.cs, ds |-> r.ds, es |-> r.es,
                  fs |-> r.fs, gs |-> r.gs, ss |-> r.ss, gp |-> r.gp]
          /\ cpu = [ip |-> cpu.ip, flags |-> cpu.flags, cs |-> cpu.cs, ds |-> cpu.ds, es |-> cpu.es,
                    fs |-> cpu.fs, gs |-> cpu.gs, ss |-> cpu.ss, gp |-> cpu.gp]
      BY <1>1, <2>1 DEF Regs
    <2>3. QED
      BY <1>4, <1>7, <2>2
  <1>9. /\ stack' \in Seq(StackWord)
        /\ Len(stack') = b
        /\ \A j \in 1..b : stack'[j] = stack[j]
    <2>1. stack \in Seq(StackWord) /\ b \in 0..Len(stack)
      BY <1>1, <1>3 DEF Nested, TypeInv, n
    <2>2. QED
      BY <1>5, <2>1, Cut
  <1>10. QED
    BY <1>1, <1>8, <1>9 DEF b, r, Agree

-----------------------------------------------------------------------------
(* The kinds of steps: in kmain, within a handler, into one, out of one. *)

InKernel ==
  /\ Len(Levels) = 1 /\ Len(Levels') = 1
  /\ Levels[1] = cpu /\ Levels'[1] = cpu'
  /\ cpu.ip \in KernelIp

Within ==
  /\ cpu.ip \in HandlerIp
  /\ Len(Levels) \in Nat \ {0, 1} /\ Len(Levels') = Len(Levels)
  /\ \A i \in 1..(Len(Levels) - 1) : Levels'[i] = Levels[i]
  /\ Levels[Len(Levels)] = cpu /\ Levels'[Len(Levels)] = cpu'
  /\ Levels[2].ip # "iret" /\ Levels'[2].ip # "iret" => stack'[5] = stack[5]

Into(v) ==
  /\ Len(Levels) \in Nat \ {0} /\ Len(Levels') = Len(Levels) + 1
  /\ \A i \in 1..Len(Levels) : Levels'[i] = Levels[i]
  /\ Levels'[Len(Levels) + 1].ip = "alltraps" /\ Levels'[Len(Levels) + 1].flags = 0
  /\ Len(Levels) = 1 => stack'[5] = v
  /\ Len(Levels) > 1 /\ Levels[2].ip # "iret" => stack'[5] = stack[5]

OutOf ==
  /\ cpu.ip = "iret"
  /\ Len(Levels) \in Nat \ {0, 1} /\ Len(Levels') = Len(Levels) - 1
  /\ \A i \in 1..(Len(Levels) - 1) : Levels'[i] = Levels[i]
  /\ Levels[Len(Levels)] = cpu
  /\ Len(Levels) > 2 /\ Levels[2].ip # "iret" => stack'[5] = stack[5]

\* A second frame starts above the number of the first trap.
LEMMA FirstFrame ==
  ASSUME Nested, NEW d \in Nat \ {0, 1}, d <= Len(Levels),
         NEW base \in [1..Len(Levels) -> Nat], Frames(base, stack, Levels),
         Levels[2].ip # "iret"
  PROVE  base[d] >= 5 /\ base[d] <= Len(stack) /\ base[d] \in Nat
  <1>1. /\ stack \in Seq(StackWord) /\ Levels \in Seq(Regs)
        /\ Len(Levels) \in Nat \ {0}
    BY LevelsType DEF Nested, TypeInv
  <1>2. 1 \in 1..(Len(Levels) - 1) /\ d \in (1 + 1)..Len(Levels) /\ d \in 1..Len(Levels)
    BY <1>1
  <1>3. /\ base[1] + Size(Levels[1 + 1].ip) = base[1 + 1]
        /\ \A j \in (1 + 1)..Len(Levels) : base[1 + 1] <= base[j]
    BY <1>1, <1>2, FramesWithin
  <1>4. base[1] = 0 /\ Size(Levels[2].ip) \in {5, 10}
    BY DEF Frames, Size
  <1>5. base[1 + 1] >= 5 /\ base[1 + 1] <= base[d]
    BY <1>2, <1>3, <1>4
  <1>6. Len(Levels) \in 1..Len(Levels) /\ base[Len(Levels)] = Len(stack) /\ base[d] <= base[Len(Levels)]
    BY <1>1, <1>2 DEF Frames
  <1>7. base[2] \in Nat /\ base[d] \in Nat
    BY <1>2
  <1>8. QED
    BY <1>5, <1>6, <1>7

\* A step of kmain.
LEMMA KernelStep ==
  ASSUME Nested, cpu.ip \in KernelIp, cpu' \in Regs, UNCHANGED <<stack, interrupted>>
  PROVE  InKernel /\ FramesInv'
  <1>1. Len(Levels) = 1 /\ Levels[1] = cpu
    BY AtKernel
  <1>2. Len(Levels') = 1 /\ Levels'[1] = cpu'
    BY <1>1, LevelsStay DEF Nested, TypeInv
  <1>3. PICK base \in [1..Len(Levels) -> Nat] : Frames(base, stack, Levels)
    BY DEF Nested, FramesInv
  <1>4. Frames(base, stack, Levels')
    BY <1>1, <1>2, <1>3, FramesOfOne
  <1>5. base \in [1..Len(Levels') -> Nat] /\ Frames(base, stack', Levels')
    BY <1>1, <1>2, <1>3, <1>4
  <1>6. QED
    BY <1>1, <1>2, <1>5 DEF InKernel, FramesInv

\* A step of a handler that neither pushes nor pops.
LEMMA MiddleStep ==
  ASSUME Nested, cpu.ip \in HandlerIp \ {"alltraps", "iret"},
         cpu'.ip \in HandlerIp \ {"alltraps", "iret"},
         cpu' \in Regs, cpu'.ss = cpu.ss, UNCHANGED <<stack, interrupted>>
  PROVE  Within /\ FramesInv'
  <1> DEFINE d == Len(Levels) - 1
  <1>1. d \in Nat \ {0} /\ Len(Levels) = d + 1
    BY AtHandler, IpDisjoint
  <1>2. PICK base \in [1..Len(Levels) -> Nat] : Frames(base, stack, Levels)
    BY DEF Nested, FramesInv
  <1>3. /\ Len(Levels') = Len(Levels)
        /\ \A i \in 1..d : Levels'[i] = Levels[i]
        /\ Levels'[Len(Levels)] = cpu'
    BY LevelsStay DEF Nested, TypeInv
  <1>4. /\ stack \in Seq(StackWord) /\ Levels \in Seq(Regs)
        /\ Levels[Len(Levels)] = cpu
    BY LevelsType DEF Nested, TypeInv
  <1>5. Within
    BY <1>1, <1>3, <1>4 DEF Within
  <1> HIDE DEF d
  <1>6. /\ base[d] \in Nat
        /\ Len(stack) = base[d] + Size(cpu.ip)
        /\ Framed(stack, base[d], Levels[d], cpu)
        /\ d > 1 /\ cpu.ip # "iret" => stack[base[d] + 5] < X86_PIC1_OFFSET
    BY <1>1, <1>2, TopFrame
  <1>7. Framed(stack', base[d], Levels[d], cpu') /\ Size(cpu'.ip) = Size(cpu.ip)
    BY <1>6 DEF Framed, Size
  <1>8. Agree(stack, stack', base[d])
    BY DEF Agree
  <1>9. /\ Len(stack') = base[d] + Size(cpu'.ip)
        /\ d > 1 /\ cpu'.ip # "iret" => stack'[base[d] + 5] < X86_PIC1_OFFSET
    BY <1>6, <1>7
  <1>10. \E b \in [1..Len(Levels') -> Nat] : Frames(b, stack', Levels')
    BY <1>1, <1>2, <1>3, <1>4, <1>7, <1>8, <1>9, FramesTop
  <1>11. QED
    BY <1>5, <1>10 DEF FramesInv

\* alltraps, which makes the frame longer.
LEMMA SaveStep ==
  ASSUME Nested, alltraps
  PROVE  Within /\ FramesInv'
  <1> DEFINE d == Len(Levels) - 1
  <1>0. cpu.ip = "alltraps" /\ cpu.ip \in HandlerIp /\ UNCHANGED interrupted
    BY DEF alltraps, HandlerIp, Open, history
  <1>1. d \in Nat \ {0} /\ Len(Levels) = d + 1
    BY <1>0, AtHandler, IpDisjoint
  <1>2. PICK base \in [1..Len(Levels) -> Nat] : Frames(base, stack, Levels)
    BY DEF Nested, FramesInv
  <1>3. /\ Len(stack') = Len(stack) + 5
        /\ Agree(stack, stack', Len(stack))
        /\ stack'[Len(stack) + 1] = cpu.ds /\ stack'[Len(stack) + 2] = cpu.es
        /\ stack'[Len(stack) + 3] = cpu.fs /\ stack'[Len(stack) + 4] = cpu.gs
        /\ stack'[Len(stack) + 5] = cpu.gp
        /\ cpu' \in Regs
        /\ cpu'.ip = "trap_handler" /\ cpu'.ss = cpu.ss
    BY Saved DEF Nested
  <1>4. /\ Len(Levels') = Len(Levels)
        /\ \A i \in 1..d : Levels'[i] = Levels[i]
        /\ Levels'[Len(Levels)] = cpu'
    BY <1>0, <1>3, LevelsStay DEF Nested, TypeInv
  <1>5. /\ stack \in Seq(StackWord) /\ Levels \in Seq(Regs)
        /\ Levels[Len(Levels)] = cpu
    BY LevelsType DEF Nested, TypeInv
  <1> HIDE DEF d
  <1>6. /\ base[d] \in Nat
        /\ Len(stack) = base[d] + Size(cpu.ip)
        /\ Framed(stack, base[d], Levels[d], cpu)
        /\ d > 1 /\ cpu.ip # "iret" => stack[base[d] + 5] < X86_PIC1_OFFSET
        /\ d = 1 => base[d] = 0
    BY <1>1, <1>2, TopFrame
  <1>7. Len(stack) = base[d] + 5
    BY <1>0, <1>6 DEF Size
  <1>8. Agree(stack, stack', base[d])
    BY <1>3, <1>6, <1>7 DEF Agree
  <1>9. /\ stack'[base[d] + 1] = stack[base[d] + 1] /\ stack'[base[d] + 2] = stack[base[d] + 2]
        /\ stack'[base[d] + 3] = stack[base[d] + 3] /\ stack'[base[d] + 5] = stack[base[d] + 5]
    <2>1. base[d] \in Nat /\ \A j \in 1..(base[d] + 5) : stack'[j] = stack[j]
      BY <1>3, <1>6, <1>7 DEF Agree
    <2>2. /\ base[d] + 1 \in 1..(base[d] + 5) /\ base[d] + 2 \in 1..(base[d] + 5)
          /\ base[d] + 3 \in 1..(base[d] + 5) /\ base[d] + 5 \in 1..(base[d] + 5)
      BY <2>1
    <2>3. QED
      BY <2>1, <2>2
  <1>10. /\ stack'[base[d] + 6] = cpu.ds /\ stack'[base[d] + 7] = cpu.es
         /\ stack'[base[d] + 8] = cpu.fs /\ stack'[base[d] + 9] = cpu.gs
         /\ stack'[base[d] + 10] = cpu.gp
    <2>1. /\ Len(stack) + 1 = base[d] + 6 /\ Len(stack) + 2 = base[d] + 7
          /\ Len(stack) + 3 = base[d] + 8 /\ Len(stack) + 4 = base[d] + 9
          /\ Len(stack) + 5 = base[d] + 10
      BY <1>6, <1>7
    <2>2. QED
      BY <1>3, <2>1
  <1>11. Framed(stack', base[d], Levels[d], cpu')
    BY <1>0, <1>3, <1>6, <1>9, <1>10 DEF Framed
  <1>12. /\ Len(stack') = base[d] + Size(cpu'.ip)
         /\ d > 1 /\ cpu'.ip # "iret" => stack'[base[d] + 5] < X86_PIC1_OFFSET
    BY <1>0, <1>3, <1>6, <1>7, <1>9 DEF Size
  <1>13. \E b \in [1..Len(Levels') -> Nat] : Frames(b, stack', Levels')
    BY <1>1, <1>2, <1>4, <1>5, <1>8, <1>11, <1>12, FramesTop
  <1>14. Levels[2].ip # "iret" => stack'[5] = stack[5]
    <2>1. CASE d = 1
      BY <2>1, <1>6, <1>9
    <2>2. CASE d # 1 /\ Levels[2].ip # "iret"
      <3>1. d \in Nat \ {0, 1} /\ d <= Len(Levels)
        BY <2>2, <1>1
      <3>2. base[d] >= 5
        BY <2>2, <3>1, <1>2, FirstFrame
      <3>3. QED
        BY <3>2, <1>6, <1>8 DEF Agree
    <2>3. QED
      BY <2>1, <2>2
  <1>15. Within
    BY <1>0, <1>1, <1>4, <1>5, <1>14 DEF Within, d
  <1>16. QED
    BY <1>13, <1>15 DEF FramesInv

\* trapret, which makes the frame shorter.
LEMMA RestoreStep ==
  ASSUME Nested, trapret
  PROVE  Within /\ FramesInv'
  <1> DEFINE d == Len(Levels) - 1
  <1>0. cpu.ip = "trapret" /\ cpu.ip \in HandlerIp /\ UNCHANGED interrupted
    BY DEF trapret, return_with, HandlerIp, Closed, history
  <1>1. d \in Nat \ {0} /\ Len(Levels) = d + 1
    BY <1>0, AtHandler, IpDisjoint
  <1>2. PICK base \in [1..Len(Levels) -> Nat] : Frames(base, stack, Levels)
    BY DEF Nested, FramesInv
  <1>3. /\ Len(stack') = base[d] + 3
        /\ Agree(stack, stack', base[d] + 3)
        /\ cpu' \in Regs
        /\ cpu'.ip = "iret" /\ cpu'.ss = Levels[d].ss
        /\ cpu'.ds = Levels[d].ds /\ cpu'.es = Levels[d].es /\ cpu'.fs = Levels[d].fs
        /\ cpu'.gs = Levels[d].gs /\ cpu'.gp = Levels[d].gp
    <2> HIDE DEF d
    <2>1. QED
      BY <1>1, <1>2, Popped
  <1>4. /\ Len(Levels') = Len(Levels)
        /\ \A i \in 1..d : Levels'[i] = Levels[i]
        /\ Levels'[Len(Levels)] = cpu'
    BY <1>0, <1>3, LevelsStay DEF Nested, TypeInv
  <1>5. /\ stack \in Seq(StackWord) /\ Levels \in Seq(Regs)
        /\ Levels[Len(Levels)] = cpu
    BY LevelsType DEF Nested, TypeInv
  <1> HIDE DEF d
  <1>6. /\ base[d] \in Nat
        /\ Framed(stack, base[d], Levels[d], cpu)
    BY <1>1, <1>2, TopFrame
  <1>7. /\ stack'[base[d] + 1] = stack[base[d] + 1] /\ stack'[base[d] + 2] = stack[base[d] + 2]
        /\ stack'[base[d] + 3] = stack[base[d] + 3]
        /\ Agree(stack, stack', base[d])
    <2>1. \A j \in 1..(base[d] + 3) : stack'[j] = stack[j]
      BY <1>3 DEF Agree
    <2>2. /\ base[d] + 1 \in 1..(base[d] + 3) /\ base[d] + 2 \in 1..(base[d] + 3)
          /\ base[d] + 3 \in 1..(base[d] + 3)
          /\ \A j \in 1..base[d] : j \in 1..(base[d] + 3)
      BY <1>6
    <2>3. QED
      BY <2>1, <2>2 DEF Agree
  <1>8. Framed(stack', base[d], Levels[d], cpu')
    BY <1>3, <1>6, <1>7 DEF Framed
  <1>9. /\ Len(stack') = base[d] + Size(cpu'.ip)
        /\ d > 1 /\ cpu'.ip # "iret" => stack'[base[d] + 5] < X86_PIC1_OFFSET
    BY <1>3 DEF Size
  <1>10. \E b \in [1..Len(Levels') -> Nat] : Frames(b, stack', Levels')
    BY <1>1, <1>2, <1>4, <1>5, <1>7, <1>8, <1>9, FramesTop
  <1>11. Levels[2].ip # "iret" /\ Levels'[2].ip # "iret" => stack'[5] = stack[5]
    <2>1. CASE d = 1
      BY <2>1, <1>1, <1>3, <1>4
    <2>2. CASE d # 1 /\ Levels[2].ip # "iret"
      <3>1. d \in Nat \ {0, 1} /\ d <= Len(Levels)
        BY <2>2, <1>1
      <3>2. base[d] >= 5
        BY <2>2, <3>1, <1>2, FirstFrame
      <3>3. QED
        BY <3>2, <1>6, <1>7 DEF Agree
    <2>3. QED
      BY <2>1, <2>2
  <1>12. Within
    BY <1>0, <1>1, <1>4, <1>5, <1>11 DEF Within, d
  <1>13. QED
    BY <1>10, <1>12 DEF FramesInv

\* iret, which takes the frame off; what was interrupted goes on as it was.
LEMMA ReturnStep ==
  ASSUME Nested, iret
  PROVE  /\ OutOf /\ FramesInv'
         /\ cpu' = Last(interrupted) /\ cpu' \in Regs
         /\ interrupted' \in Seq(Regs)
         /\ stack' \in Seq(StackWord)
  <1> DEFINE d == Len(Levels) - 1
  <1>0. cpu.ip = "iret" /\ cpu.ip \in HandlerIp /\ interrupted' = Front(interrupted)
    BY DEF iret, HandlerIp, Closed
  <1>1. d \in Nat \ {0} /\ Len(Levels) = d + 1 /\ interrupted # <<>> /\ Len(interrupted) = d
    BY <1>0, AtHandler, IpDisjoint
  <1>2. PICK base \in [1..Len(Levels) -> Nat] : Frames(base, stack, Levels)
    BY DEF Nested, FramesInv
  <1>3. /\ stack' \in Seq(StackWord)
        /\ Len(stack') = base[d]
        /\ Agree(stack, stack', base[d])
        /\ cpu' = Levels[d] /\ cpu' \in Regs
    <2> HIDE DEF d
    <2>1. QED
      BY <1>1, <1>2, Returned
  <1>4. /\ interrupted' \in Seq(Regs)
        /\ Len(Levels') = Len(Levels) - 1
        /\ \A i \in 1..(Len(Levels) - 1) : Levels'[i] = Levels[i]
    BY <1>0, <1>1, <1>3, LevelsPopped DEF Nested, TypeInv
  <1>5. /\ stack \in Seq(StackWord) /\ Levels \in Seq(Regs)
        /\ Levels[Len(Levels)] = cpu
        /\ \A i \in 1..Len(interrupted) : Levels[i] = interrupted[i]
    BY LevelsType DEF Nested, TypeInv
  <1>6. cpu' = Last(interrupted)
    BY <1>1, <1>3, <1>5 DEF Last
  <1>7. /\ \A i \in 1..d : Levels'[i] = Levels[i]
        /\ Len(Levels') = d
    BY <1>4
  <1> HIDE DEF d
  <1>8. \E b \in [1..Len(Levels') -> Nat] : Frames(b, stack', Levels')
    BY <1>1, <1>2, <1>3, <1>5, <1>7, FramesPopped
  <1>9. Len(Levels) > 2 /\ Levels[2].ip # "iret" => stack'[5] = stack[5]
    <2> SUFFICES ASSUME Len(Levels) > 2, Levels[2].ip # "iret"
                 PROVE  stack'[5] = stack[5]
      OBVIOUS
    <2>1. d \in Nat \ {0, 1} /\ d <= Len(Levels)
      BY <1>1
    <2>2. base[d] >= 5 /\ base[d] \in Nat
      BY <2>1, <1>2, FirstFrame
    <2>3. QED
      BY <2>2, <1>3 DEF Agree
  <1>10. OutOf
    BY <1>0, <1>1, <1>4, <1>5, <1>9 DEF OutOf
  <1>11. QED
    BY <1>3, <1>4, <1>6, <1>8, <1>10 DEF FramesInv

\* A trap, which puts a frame on top.  Interrupts are off in handlers, so only
\* an exception can arrive there.
LEMMA TrapStep ==
  ASSUME Nested, NEW v \in Vectors, Deliver(v), gates = "interrupt",
         Len(Levels) > 1 => v < X86_PIC1_OFFSET
  PROVE  Into(v) /\ FramesInv'
  <1> DEFINE n == Len(Levels)
  <1>1. /\ stack \in Seq(StackWord) /\ Levels \in Seq(Regs)
        /\ n \in Nat \ {0} /\ Levels[n] = cpu
    BY LevelsType DEF Nested, TypeInv
  <1>2. PICK base \in [1..Len(Levels) -> Nat] : Frames(base, stack, Levels)
    BY DEF Nested, FramesInv
  <1>3. /\ Len(stack') = Len(stack) + 5
        /\ Agree(stack, stack', Len(stack))
        /\ stack'[Len(stack) + 1] = cpu.flags /\ stack'[Len(stack) + 2] = cpu.cs
        /\ stack'[Len(stack) + 3] = cpu.ip /\ stack'[Len(stack) + 5] = v
        /\ cpu' \in Regs
        /\ cpu'.ip = "alltraps"
        /\ cpu'.flags = 0
        /\ cpu'.ds = cpu.ds /\ cpu'.es = cpu.es /\ cpu'.fs = cpu.fs /\ cpu'.gs = cpu.gs
        /\ cpu'.ss = cpu.ss /\ cpu'.gp = cpu.gp
    BY Delivered DEF Nested
  <1>4. /\ Len(Levels') = n + 1
        /\ \A i \in 1..n : Levels'[i] = Levels[i]
        /\ Levels'[n + 1] = cpu'
    BY <1>3, LevelsPushed DEF Nested, TypeInv, Deliver
  <1>5. v \in Nat
    BY DEF Vectors
  <1>6. Framed(stack', Len(stack), Levels[n], cpu')
    BY <1>1, <1>3, <1>5 DEF Framed
  <1>7. n > 1 => stack'[Len(stack) + 5] < X86_PIC1_OFFSET
    BY <1>3
  <1>8. \E b \in [1..Len(Levels') -> Nat] : Frames(b, stack', Levels')
    BY <1>1, <1>2, <1>3, <1>4, <1>6, <1>7, FramesPushed
  <1>9. n = 1 => stack'[5] = v
    <2>1. n = 1 => Len(stack) = 0
      BY <1>2 DEF Frames
    <2>2. QED
      BY <1>3, <2>1
  <1>10. n > 1 /\ Levels[2].ip # "iret" => stack'[5] = stack[5]
    <2> SUFFICES ASSUME n > 1, Levels[2].ip # "iret"
                 PROVE  stack'[5] = stack[5]
      OBVIOUS
    <2>1. n \in Nat \ {0, 1} /\ n <= Len(Levels)
      BY <1>1
    <2>2. Len(stack) >= 5
      <3>1. base[n] >= 5
        BY <2>1, <1>2, FirstFrame
      <3>2. QED
        BY <3>1, <1>2 DEF Frames
    <2>3. Len(stack) \in Nat
      BY <1>1, LenProperties
    <2>4. QED
      BY <1>3, <2>2, <2>3 DEF Agree
  <1>11. Into(v)
    BY <1>1, <1>3, <1>4, <1>9, <1>10 DEF Into
  <1>12. QED
    BY <1>8, <1>11 DEF FramesInv

-----------------------------------------------------------------------------
(* Levels and frames, one action after the other. *)

\* Steps outside of traps.
Devices ==
  \/ idle
  \/ \E line \in Lines : tick(line)
  \/ \E key \in Keys : press(key)

Traps ==
  \/ interrupt
  \/ \E v \in Exceptions : exception(v)
  \/ \E k \in 1..2 : spurious(k)

Middle ==
  \/ trap_handler \/ trap_announce \/ trap_callback
  \/ keyboard_handler \/ keyboard_log
  \/ x86_pic_eoi_1 \/ x86_pic_eoi_2

LEMMA NextCases ==
  ASSUME Next
  PROVE  alltraps \/ Middle \/ trapret \/ iret \/ Boot \/ Traps \/ Devices
  BY DEF Next, Handler, Middle, Traps, Devices

\* The kernel's level is below every handler.
LEMMA HereStays ==
  ASSUME Within \/ (\E v \in Vectors : Into(v)) \/ OutOf
  PROVE  Here' = Here
  <1>1. CASE Within \/ OutOf
    <2>1. Len(Levels) \in Nat \ {0, 1}
      BY <1>1 DEF Within, OutOf
    <2>2. \A i \in 1..(Len(Levels) - 1) : Levels'[i] = Levels[i]
      BY <1>1 DEF Within, OutOf
    <2>3. 1 \in 1..(Len(Levels) - 1)
      <3>1. \A n \in Nat \ {0, 1} : 1 \in 1..(n - 1)
        OBVIOUS
      <3>2. QED
        BY ONLY <2>1, <3>1
    <2>4. QED
      BY <2>2, <2>3 DEF Here
  <1>2. CASE \E v \in Vectors : Into(v)
    <2>1. Len(Levels) \in Nat \ {0} /\ \A i \in 1..Len(Levels) : Levels'[i] = Levels[i]
      BY <1>2 DEF Into
    <2>2. 1 \in 1..Len(Levels)
      BY <2>1
    <2>3. QED
      BY <2>1, <2>2 DEF Here
  <1>3. QED
    BY <1>1, <1>2

\* The processor changes its place only.
LEMMA GotoType ==
  ASSUME cpu \in Regs, NEW here, NEW there \in HandlerIp \cup KernelIp, Goto(here, there)
  PROVE  /\ cpu.ip = here
         /\ cpu' \in Regs /\ cpu'.ip = there /\ cpu'.ss = cpu.ss /\ cpu'.flags = cpu.flags
         /\ cpu'.gp = cpu.gp
  BY DEF Goto, Regs

\* What the middle of a handler does to the processor.
LEMMA MiddleMoves ==
  ASSUME Inv, Middle
  PROVE  /\ cpu.ip \in HandlerIp \ {"alltraps", "iret"}
         /\ cpu'.ip \in HandlerIp \ {"alltraps", "iret"}
         /\ cpu' \in Regs /\ cpu'.ss = cpu.ss /\ cpu'.flags = cpu.flags
         /\ UNCHANGED <<stack, interrupted>>
         /\ Len(Levels) > 2 => cpu'.ip \notin {"keyboard_handler", "keyboard_log"}
  <1>0. Nested /\ cpu \in Regs
    BY DEF Inv, Nested, TypeInv
  <1>1. CASE trap_handler
    <2>1. cpu' = [cpu EXCEPT !.ip = "announce", !.gp = "junk"] /\ cpu.ip = "trap_handler"
      BY <1>1 DEF trap_handler
    <2>2. "announce" \in HandlerIp /\ "junk" \in Values /\ "trap_handler" \in HandlerIp
      BY DEF HandlerIp, Open, Values
    <2>3. cpu' \in Regs /\ cpu'.ip = "announce" /\ cpu'.ss = cpu.ss /\ cpu'.flags = cpu.flags
      BY <1>0, <2>1, <2>2 DEF Regs
    <2>4. UNCHANGED <<stack, interrupted>>
      BY <1>1 DEF trap_handler, history
    <2>5. QED
      BY <2>1, <2>2, <2>3, <2>4
  <1>2. CASE trap_announce
    <2>1. Goto("announce", "callback") /\ UNCHANGED <<stack, interrupted>>
      BY <1>2 DEF trap_announce, history
    <2>2. "announce" \in HandlerIp /\ "callback" \in HandlerIp
      BY DEF HandlerIp, Open
    <2>3. QED
      BY <1>0, <2>1, <2>2, GotoType
  <1>3. CASE trap_callback
    <2> DEFINE there == IF tf_trapno \in DOMAIN callback THEN callback[tf_trapno] ELSE "eoi1"
    <2>1. Goto("callback", there) /\ UNCHANGED <<stack, interrupted>>
      BY <1>3 DEF trap_callback, history
    <2>2. cpu.ip = "callback"
      BY <2>1 DEF Goto
    <2>3. "callback" \in HandlerIp /\ "eoi1" \in HandlerIp /\ "keyboard_handler" \in HandlerIp
      BY DEF HandlerIp, Open
    <2>4. tf_trapno \in Nat /\ (Len(Levels) > 2 => tf_trapno < X86_PIC1_OFFSET)
      BY <1>0, <2>2, <2>3, TheTrapno
    <2>5. there \in {"eoi1", "keyboard_handler"} /\ (Len(Levels) > 2 => there = "eoi1")
      BY <2>4 DEF Inv, TablesInv, NoCallbacks, X86_PIC1_OFFSET
    <2> HIDE DEF there
    <2>6. there \in HandlerIp \cup KernelIp
      BY <2>3, <2>5
    <2>7. /\ cpu' \in Regs /\ cpu'.ip = there /\ cpu'.ss = cpu.ss /\ cpu'.flags = cpu.flags
      BY <1>0, <2>1, <2>6, GotoType
    <2>8. QED
      BY <2>1, <2>2, <2>3, <2>5, <2>7
  <1>4. CASE keyboard_handler
    <2>1. cpu' = [cpu EXCEPT !.ip = "keyboard_log", !.gp = kbd.byte] /\ cpu.ip = "keyboard_handler"
      BY <1>4 DEF keyboard_handler
    <2>2. "keyboard_log" \in HandlerIp /\ kbd.byte \in Values /\ "keyboard_handler" \in HandlerIp
      BY DEF HandlerIp, Open, Values, Inv, TypeInv
    <2>3. cpu' \in Regs /\ cpu'.ip = "keyboard_log" /\ cpu'.ss = cpu.ss /\ cpu'.flags = cpu.flags
      BY <1>0, <2>1, <2>2 DEF Regs
    <2>4. UNCHANGED <<stack, interrupted>>
      BY <1>4 DEF keyboard_handler, history
    <2>5. Len(Levels) <= 2
      <3>1. Levels[Len(Levels)] = cpu /\ Len(Levels) \in Nat
        BY LevelsType DEF Inv, TypeInv
      <3>2. QED
        BY <2>1, <3>1 DEF Inv, NestingInv
    <2>6. Len(Levels) \in Nat
      BY LevelsType DEF Inv, TypeInv
    <2>7. QED
      BY <2>1, <2>2, <2>3, <2>4, <2>5, <2>6
  <1>5. CASE keyboard_log
    <2>1. Goto("keyboard_log", "eoi1") /\ UNCHANGED <<stack, interrupted>>
      BY <1>5 DEF keyboard_log
    <2>2. "keyboard_log" \in HandlerIp /\ "eoi1" \in HandlerIp
      BY DEF HandlerIp, Open
    <2>3. QED
      BY <1>0, <2>1, <2>2, GotoType
  <1>6. CASE x86_pic_eoi_1
    <2>1. Goto("eoi1", "eoi2") /\ UNCHANGED <<stack, interrupted>>
      BY <1>6 DEF x86_pic_eoi_1, eoi_from, history
    <2>2. "eoi1" \in HandlerIp /\ "eoi2" \in HandlerIp
      BY DEF HandlerIp, Open, Closed
    <2>3. QED
      BY <1>0, <2>1, <2>2, GotoType
  <1>7. CASE x86_pic_eoi_2
    <2>1. Goto("eoi2", "trapret") /\ UNCHANGED <<stack, interrupted>>
      BY <1>7 DEF x86_pic_eoi_2, eoi_from, history
    <2>2. "eoi2" \in HandlerIp /\ "trapret" \in HandlerIp
      BY DEF HandlerIp, Open, Closed
    <2>3. QED
      BY <1>0, <2>1, <2>2, GotoType
  <1>8. QED
    BY <1>1, <1>2, <1>3, <1>4, <1>5, <1>6, <1>7 DEF Middle

\* What kmain does to the processor.
LEMMA BootMoves ==
  ASSUME Inv, Boot
  PROVE  /\ cpu.ip \in KernelIp
         /\ cpu' \in Regs /\ cpu'.ip \in KernelIp
         /\ cpu'.flags = (IF cpu'.ip = "idle" THEN FL_IF ELSE 0)
         /\ UNCHANGED <<stack, interrupted>>
  <1>0. cpu \in Regs /\ Nested
    BY DEF Inv, Nested, TypeInv
  <1>1. cpu.ip \in KernelIp => cpu.flags = (IF cpu.ip = "idle" THEN FL_IF ELSE 0)
    BY <1>0, AtKernel DEF Nested, NestingInv
  <1>2. ASSUME NEW here \in KernelIp \ {"idle"}, NEW there \in KernelIp \ {"idle"}, Goto(here, there)
        PROVE  /\ cpu.ip \in KernelIp
               /\ cpu' \in Regs /\ cpu'.ip \in KernelIp
               /\ cpu'.flags = (IF cpu'.ip = "idle" THEN FL_IF ELSE 0)
    <2>1. /\ cpu.ip = here
          /\ cpu' \in Regs /\ cpu'.ip = there /\ cpu'.flags = cpu.flags
      BY <1>0, <1>2, GotoType
    <2>2. QED
      BY <1>1, <1>2, <2>1
  <1>3. {"trap_init", "x86_lidt", "x86_pic_remap", "x86_idt_enable", "segments_init", "x86_gdt_set",
         "x86_lgdt", "mov_ds"} \subseteq KernelIp \ {"idle"}
    BY DEF KernelIp, Early, Late, Ready
  <1>4. CASE trap_init
    <2>1. Goto("trap_init", "x86_lidt") /\ UNCHANGED <<stack, interrupted>>
      BY <1>4 DEF trap_init, set_gates, history
    <2>2. QED
      BY <1>2, <1>3, <2>1
  <1>5. CASE x86_lidt
    <2>1. Goto("x86_lidt", "x86_pic_remap") /\ UNCHANGED <<stack, interrupted>>
      BY <1>5 DEF x86_lidt, load, history
    <2>2. QED
      BY <1>2, <1>3, <2>1
  <1>6. CASE x86_pic_remap_save
    <2>1. cpu.ip = "x86_pic_remap" /\ UNCHANGED <<cpu, stack, interrupted>>
      BY <1>6 DEF x86_pic_remap_save, history
    <2>2. QED
      BY <1>0, <1>1, <1>3, <2>1
  <1>7. CASE x86_pic_remap
    <2>1. /\ cpu.ip = "x86_pic_remap" /\ UNCHANGED <<stack, interrupted>>
          /\ cpu' = cpu \/ Goto("x86_pic_remap", "x86_idt_enable")
      BY <1>7 DEF x86_pic_remap, history, Goto
    <2>2. QED
      BY <1>0, <1>1, <1>2, <1>3, <2>1
  <1>8. CASE x86_idt_enable
    <2>1. Goto("x86_idt_enable", "segments_init") /\ UNCHANGED <<stack, interrupted>>
      BY <1>8 DEF x86_idt_enable, enable, history
    <2>2. QED
      BY <1>2, <1>3, <2>1
  <1>9. CASE segments_clear
    <2>1. Goto("segments_init", "x86_gdt_set") /\ UNCHANGED <<stack, interrupted>>
      BY <1>9 DEF segments_clear, history
    <2>2. QED
      BY <1>2, <1>3, <2>1
  <1>10. CASE segments_set
    <2>1. /\ Goto("x86_gdt_set", "x86_lgdt") \/ Goto("x86_gdt_set", "x86_gdt_set")
          /\ UNCHANGED <<stack, interrupted>>
      BY <1>10 DEF segments_set, history
    <2>2. QED
      BY <1>2, <1>3, <2>1
  <1>11. CASE x86_lgdt
    <2>1. Goto("x86_lgdt", "mov_ds") /\ UNCHANGED <<stack, interrupted>>
      BY <1>11 DEF x86_lgdt, load, history
    <2>2. QED
      BY <1>2, <1>3, <2>1
  <1>12. CASE x86_lgdt_reload
    <2>1. /\ cpu.ip \in {"mov_ds", "mov_es", "mov_gs", "mov_fs", "mov_ss", "ljmp"}
          /\ \/ cpu' = [cpu EXCEPT !.ds = 16, !.ip = "mov_es"]
             \/ cpu' = [cpu EXCEPT !.es = 16, !.ip = "mov_gs"]
             \/ cpu' = [cpu EXCEPT !.gs = 16, !.ip = "mov_fs"]
             \/ cpu' = [cpu EXCEPT !.fs = 16, !.ip = "mov_ss"]
             \/ cpu' = [cpu EXCEPT !.ss = 16, !.ip = "ljmp"]
             \/ cpu' = [cpu EXCEPT !.cs = 8, !.ip = "sti"]
          /\ UNCHANGED <<stack, interrupted>>
      BY <1>12 DEF x86_lgdt_reload, reload, history, X86_GDT_SEG_DATAK, X86_GDT_SEG_CODEK
    <2>2. {"mov_es", "mov_gs", "mov_fs", "mov_ss", "ljmp", "sti", "mov_ds"} \subseteq KernelIp \ {"idle"}
      BY DEF KernelIp, Ready
    <2>3. cpu' \in Regs /\ cpu'.ip \in KernelIp \ {"idle"} /\ cpu'.flags = cpu.flags
      <3>1. CASE cpu' = [cpu EXCEPT !.ds = 16, !.ip = "mov_es"]
        BY <1>0, <2>2, <3>1 DEF Regs
      <3>2. CASE cpu' = [cpu EXCEPT !.es = 16, !.ip = "mov_gs"]
        BY <1>0, <2>2, <3>2 DEF Regs
      <3>3. CASE cpu' = [cpu EXCEPT !.gs = 16, !.ip = "mov_fs"]
        BY <1>0, <2>2, <3>3 DEF Regs
      <3>4. CASE cpu' = [cpu EXCEPT !.fs = 16, !.ip = "mov_ss"]
        BY <1>0, <2>2, <3>4 DEF Regs
      <3>5. CASE cpu' = [cpu EXCEPT !.ss = 16, !.ip = "ljmp"]
        BY <1>0, <2>2, <3>5 DEF Regs
      <3>6. CASE cpu' = [cpu EXCEPT !.cs = 8, !.ip = "sti"]
        BY <1>0, <2>2, <3>6 DEF Regs
      <3>7. QED
        BY <2>1, <3>1, <3>2, <3>3, <3>4, <3>5, <3>6
    <2>4. QED
      BY <1>1, <2>1, <2>2, <2>3
  <1>13. CASE sti
    <2>1. /\ cpu.ip = "sti" /\ cpu' = [cpu EXCEPT !.ip = "idle", !.flags = FL_IF]
          /\ UNCHANGED <<stack, interrupted>>
      BY <1>13 DEF sti, history
    <2>2. "sti" \in KernelIp /\ "idle" \in KernelIp
      BY DEF KernelIp, Ready
    <2>3. cpu' \in Regs /\ cpu'.ip = "idle" /\ cpu'.flags = FL_IF
      BY <1>0, <2>1, <2>2 DEF Regs
    <2>4. QED
      BY <2>1, <2>2, <2>3
  <1>14. QED
    BY <1>4, <1>5, <1>6, <1>7, <1>8, <1>9, <1>10, <1>11, <1>12, <1>13 DEF Boot

-----------------------------------------------------------------------------
(* Interrupts. *)

\* The first of some lines of a controller.
LEMMA MinOfLines ==
  ASSUME NEW S \in SUBSET (0..7), S # {}
  PROVE  Min(S) \in S /\ \A x \in S : Min(S) <= x
  <1>1. \E x \in S : \A y \in S : x <= y
    <2>1. \E x \in S : x \in 0..7
      OBVIOUS
    <2>2. CASE 0 \in S
      BY <2>2
    <2>3. CASE 0 \notin S /\ 1 \in S
      BY <2>3
    <2>4. CASE 0 \notin S /\ 1 \notin S /\ 2 \in S
      BY <2>4
    <2>5. CASE 0 \notin S /\ 1 \notin S /\ 2 \notin S /\ 3 \in S
      BY <2>5
    <2>6. CASE 0 \notin S /\ 1 \notin S /\ 2 \notin S /\ 3 \notin S /\ 4 \in S
      BY <2>6
    <2>7. CASE 0 \notin S /\ 1 \notin S /\ 2 \notin S /\ 3 \notin S /\ 4 \notin S /\ 5 \in S
      BY <2>7
    <2>8. CASE 0 \notin S /\ 1 \notin S /\ 2 \notin S /\ 3 \notin S /\ 4 \notin S /\ 5 \notin S /\ 6 \in S
      BY <2>8
    <2>9. CASE 0 \notin S /\ 1 \notin S /\ 2 \notin S /\ 3 \notin S /\ 4 \notin S /\ 5 \notin S /\ 6 \notin S
      BY <2>1, <2>9
    <2>10. QED
      BY <2>2, <2>3, <2>4, <2>5, <2>6, <2>7, <2>8, <2>9
  <1>2. QED
    BY <1>1 DEF Min

\* The lines of controller k in service and raised change, and nothing else.
Lit(k, irr, isr) ==
  /\ pic'[k] \in Pic
  /\ pic'[k].base = pic[k].base /\ pic'[k].imr = pic[k].imr /\ pic'[k].expect = pic[k].expect
  /\ pic'[k].irr = irr /\ pic'[k].isr = isr

\* The interrupts the controllers may pass on: a line of the first, but not
\* the second controller's, or one of the second through line 2.
LEMMA InterruptMoves ==
  ASSUME Inv, interrupt
  PROVE  /\ pic' \in [1..2 -> Pic]
         /\ cpu.ip = "idle"
         /\ \E n \in 0..7 :
              \/ /\ n \in pic[1].irr /\ n # 2
                 /\ Deliver(X86_PIC1_OFFSET + n)
                 /\ Lit(1, pic[1].irr \ {n}, pic[1].isr \cup {n})
                 /\ Lit(2, pic[2].irr, pic[2].isr)
              \/ /\ Deliver(X86_PIC2_OFFSET + n)
                 /\ Lit(1, pic[1].irr, pic[1].isr \cup {2})
                 /\ Lit(2, pic[2].irr \ {n}, pic[2].isr \cup {n})
  <1> DEFINE n == Min(Pending)
             m == Min(Requests(2, pic[2].irr))
  <1>1. cpu.flags = FL_IF /\ Pending # {}
    BY DEF interrupt
  <1>2. cpu.ip = "idle" /\ Here = "idle"
    <2>1. cpu.ip = "idle"
      BY <1>1, AtIdle DEF Inv, Nested
    <2>2. cpu.ip \in KernelIp
      BY <2>1 DEF KernelIp, Ready
    <2>3. Levels[1] = cpu
      BY <2>2, AtKernel DEF Inv, Nested
    <2>4. QED
      BY <2>1, <2>3 DEF Here
  <1>3. /\ pic[1] \in Pic /\ pic[2] \in Pic /\ 2 \notin pic[1].irr
        /\ pic[1].base = X86_PIC1_OFFSET /\ pic[2].base = X86_PIC2_OFFSET
    BY <1>2 DEF Inv, PicInv, Ready, Offset
  <1>4. pic \in [1..2 -> Pic]
    BY DEF Inv, PicInv
  <1>5. Pending \in SUBSET (0..7)
    BY <1>3 DEF Pending, Requests, Pic
  <1>6. n \in Pending
    BY <1>1, <1>5, MinOfLines
  <1>7. CASE n = 2
    <2>1. Requests(2, pic[2].irr) # {} /\ Requests(2, pic[2].irr) \in SUBSET (0..7)
      BY <1>3, <1>6, <1>7 DEF Pending, Requests, Cascaded, Pic
    <2>2. m \in 0..7
      BY <2>1, MinOfLines
    <2>3. /\ pic' = [k \in 1..2 |-> IF k = 1 THEN [pic[1] EXCEPT !.isr = @ \cup {2}]
                                    ELSE [pic[2] EXCEPT !.isr = @ \cup {m}, !.irr = @ \ {m}]]
          /\ Deliver(pic[2].base + m)
      BY <1>7 DEF interrupt
    <2> HIDE DEF m, n
    <2>4. /\ pic'[1] = [pic[1] EXCEPT !.isr = @ \cup {2}]
          /\ pic'[2] = [[pic[2] EXCEPT !.isr = pic[2].isr \cup {m}] EXCEPT !.irr = pic[2].irr \ {m}]
          /\ DOMAIN pic' = 1..2 /\ pic' = [k \in 1..2 |-> pic'[k]]
      BY <2>3, <1>3 DEF Pic
    <2>5. Lit(1, pic[1].irr, pic[1].isr \cup {2})
      BY <2>4, <1>3 DEF Lit, Pic
    <2>6. Lit(2, pic[2].irr \ {m}, pic[2].isr \cup {m})
      <3> DEFINE p == pic[2]
                 q == pic'[2]
                 irr == p.irr \ {m}
                 isr == p.isr \cup {m}
      <3>1. irr \in SUBSET (0..7) /\ isr \in SUBSET (0..7) /\ p \in Pic
        BY <2>2, <1>3 DEF Pic
      <3>2. q = [[p EXCEPT !.isr = isr] EXCEPT !.irr = irr]
        BY <2>4
      <3> HIDE DEF p, q, irr, isr
      <3>3. /\ q \in Pic
            /\ q.base = p.base /\ q.imr = p.imr /\ q.expect = p.expect
            /\ q.irr = irr /\ q.isr = isr
        BY <3>1, <3>2 DEF Pic
      <3>4. QED
        BY <3>3 DEF Lit, p, q, irr, isr
    <2>7. pic' \in [1..2 -> Pic]
      BY <2>4, <2>5, <2>6 DEF Lit
    <2>8. QED
      BY <1>2, <1>3, <2>2, <2>3, <2>5, <2>6, <2>7
  <1>8. CASE n # 2
    <2>1. n \in pic[1].irr /\ n \in 0..7
      BY <1>3, <1>6, <1>8 DEF Pending, Requests, Pic
    <2>2. /\ pic' = [pic EXCEPT ![1].isr = @ \cup {n}, ![1].irr = @ \ {n}]
          /\ Deliver(pic[1].base + n)
      BY <1>8 DEF interrupt
    <2> HIDE DEF m, n
    <2>3. pic' = [pic EXCEPT ![1] = [[pic[1] EXCEPT !.isr = pic[1].isr \cup {n}] EXCEPT !.irr = pic[1].irr \ {n}]]
      BY <2>2, <1>3, <1>4 DEF Pic
    <2> DEFINE q == [[pic[1] EXCEPT !.isr = pic[1].isr \cup {n}] EXCEPT !.irr = pic[1].irr \ {n}]
    <2>4. /\ q \in Pic
          /\ q.base = pic[1].base /\ q.imr = pic[1].imr /\ q.expect = pic[1].expect
          /\ q.irr = pic[1].irr \ {n} /\ q.isr = pic[1].isr \cup {n}
      <3> DEFINE p == pic[1]
                 irr == p.irr \ {n}
                 isr == p.isr \cup {n}
      <3>1. irr \in SUBSET (0..7) /\ isr \in SUBSET (0..7) /\ p \in Pic
        BY <2>1, <1>3 DEF Pic
      <3>2. q = [[p EXCEPT !.isr = isr] EXCEPT !.irr = irr]
        OBVIOUS
      <3> HIDE DEF p, q, irr, isr
      <3>3. /\ q \in Pic
            /\ q.base = p.base /\ q.imr = p.imr /\ q.expect = p.expect
            /\ q.irr = irr /\ q.isr = isr
        BY <3>1, <3>2 DEF Pic
      <3>4. QED
        BY <3>3 DEF p, irr, isr
    <2>5. pic' = [pic EXCEPT ![1] = q]
      BY <2>3
    <2> HIDE DEF q
    <2>6. pic' \in [1..2 -> Pic] /\ pic'[1] = q /\ pic'[2] = pic[2]
      BY <2>4, <2>5, <1>4
    <2>7. /\ Lit(1, pic[1].irr \ {n}, pic[1].isr \cup {n})
          /\ Lit(2, pic[2].irr, pic[2].isr)
      BY <2>4, <2>6, <1>3 DEF Lit
    <2>8. QED
      BY <1>2, <1>3, <1>8, <2>1, <2>2, <2>6, <2>7
  <1>9. QED
    BY <1>7, <1>8

\* The spurious ones.
LEMMA SpuriousMoves ==
  ASSUME Inv, NEW k \in 1..2, spurious(k)
  PROVE  /\ pic' \in [1..2 -> Pic]
         /\ cpu.ip = "idle"
         /\ Deliver(IF k = 1 THEN 39 ELSE 47)
         /\ Lit(1, pic[1].irr, IF k = 1 THEN pic[1].isr ELSE pic[1].isr \cup {2})
         /\ Lit(2, pic[2].irr, pic[2].isr)
  <1>1. cpu.flags = FL_IF
    BY DEF spurious
  <1>2. cpu.ip = "idle" /\ Here = "idle"
    <2>1. cpu.ip = "idle"
      BY <1>1, AtIdle DEF Inv, Nested
    <2>2. cpu.ip \in KernelIp
      BY <2>1 DEF KernelIp, Ready
    <2>3. Levels[1] = cpu
      BY <2>2, AtKernel DEF Inv, Nested
    <2>4. QED
      BY <2>1, <2>3 DEF Here
  <1>3. /\ pic[1] \in Pic /\ pic[2] \in Pic
        /\ pic[1].base = X86_PIC1_OFFSET /\ pic[2].base = X86_PIC2_OFFSET
    BY <1>2 DEF Inv, PicInv, Ready, Offset
  <1>4. pic \in [1..2 -> Pic]
    BY DEF Inv, PicInv
  <1>5. Deliver(IF k = 1 THEN 39 ELSE 47)
    BY <1>3 DEF spurious, X86_PIC1_OFFSET, X86_PIC2_OFFSET
  <1>6. CASE k = 1
    <2>1. pic' = pic
      BY <1>6 DEF spurious
    <2>2. QED
      BY <1>2, <1>3, <1>4, <1>5, <1>6, <2>1 DEF Lit
  <1>7. CASE k = 2
    <2>1. pic' = [pic EXCEPT ![1].isr = @ \cup {2}]
      BY <1>7 DEF spurious
    <2> DEFINE q == [pic[1] EXCEPT !.isr = pic[1].isr \cup {2}]
    <2>2. /\ q \in Pic
          /\ q.base = pic[1].base /\ q.imr = pic[1].imr /\ q.expect = pic[1].expect
          /\ q.irr = pic[1].irr /\ q.isr = pic[1].isr \cup {2}
      BY <1>3 DEF Pic
    <2>3. pic' = [pic EXCEPT ![1] = q]
      BY <2>1
    <2> HIDE DEF q
    <2>4. /\ pic' \in [1..2 -> Pic] /\ pic'[1] = q /\ pic'[2] = pic[2]
      BY <2>2, <2>3, <1>4
    <2>5. Lit(1, pic[1].irr, pic[1].isr \cup {2}) /\ Lit(2, pic[2].irr, pic[2].isr)
      BY <2>2, <2>4, <1>3 DEF Lit
    <2>6. QED
      BY <1>2, <1>5, <1>7, <2>4, <2>5
  <1>8. QED
    BY <1>6, <1>7

\* All the traps.
LEMMA TrapMoves ==
  ASSUME Inv, Traps
  PROVE  \E v \in 0..47 :
           /\ Deliver(v)
           /\ gates = "interrupt" /\ Here \notin {"trap_init", "x86_lidt"}
           /\ Len(Levels) > 1 => v < X86_PIC1_OFFSET
  <1>0. Inv => Nested
    BY DEF Inv, Nested
  <1>1. ASSUME cpu.ip = "idle"
        PROVE  /\ ~(Len(Levels) > 1)
               /\ gates = "interrupt" /\ Here \notin {"trap_init", "x86_lidt"}
    <2>1. cpu.ip \in KernelIp
      BY <1>1 DEF KernelIp, Ready
    <2>2. Len(Levels) = 1 /\ Here = "idle"
      BY <1>0, <1>1, <2>1, AtKernel DEF Here
    <2>3. QED
      BY <2>2 DEF Inv, TablesInv
  <1>2. CASE interrupt
    <2>1. PICK n \in 0..7 : Deliver(X86_PIC1_OFFSET + n) \/ Deliver(X86_PIC2_OFFSET + n)
      BY <1>2, InterruptMoves
    <2>2. cpu.ip = "idle"
      BY <1>2, InterruptMoves
    <2>3. X86_PIC1_OFFSET + n \in 0..47 /\ X86_PIC2_OFFSET + n \in 0..47
      BY DEF X86_PIC1_OFFSET, X86_PIC2_OFFSET
    <2>4. \E v \in 0..47 : Deliver(v)
      BY <2>1, <2>3
    <2>5. ~(Len(Levels) > 1) /\ gates = "interrupt" /\ Here \notin {"trap_init", "x86_lidt"}
      BY <1>1, <2>2
    <2>6. QED
      BY <2>4, <2>5
  <1>3. ASSUME NEW k \in 1..2, spurious(k)
        PROVE  \E v \in 0..47 : /\ Deliver(v)
                                /\ gates = "interrupt" /\ Here \notin {"trap_init", "x86_lidt"}
                                /\ Len(Levels) > 1 => v < X86_PIC1_OFFSET
    <2>1. cpu.ip = "idle" /\ Deliver(IF k = 1 THEN 39 ELSE 47)
      BY <1>3, SpuriousMoves
    <2>2. \E v \in 0..47 : Deliver(v)
      <3>1. (IF k = 1 THEN 39 ELSE 47) \in 0..47
        OBVIOUS
      <3>2. QED
        BY <2>1, <3>1
    <2>3. ~(Len(Levels) > 1) /\ gates = "interrupt" /\ Here \notin {"trap_init", "x86_lidt"}
      BY <1>1, <2>1
    <2>4. QED
      BY <2>2, <2>3
  <1>4. ASSUME NEW v \in Exceptions, exception(v)
        PROVE  /\ v \in 0..47 /\ Deliver(v)
               /\ gates = "interrupt" /\ Here \notin {"trap_init", "x86_lidt"}
               /\ v < X86_PIC1_OFFSET
    <2>1. v \in 0..31
      BY TrapAssumption
    <2>2. "idt" \in loaded /\ Deliver(v)
      BY <1>4 DEF exception
    <2>3. Here \notin {"trap_init", "x86_lidt"}
      BY <2>2 DEF Inv, TablesInv
    <2>4. QED
      BY <2>1, <2>2, <2>3 DEF Inv, TablesInv, X86_PIC1_OFFSET
  <1>5. QED
    BY <1>2, <1>3, <1>4 DEF Traps

-----------------------------------------------------------------------------
(* Every step keeps the types, the frames and the nesting. *)

\* The data of the handlers.
Data == <<last_trapno, kbd, typed, letters>>

LEMMA DataTypes ==
  ASSUME Inv, Next
  PROVE  /\ last_trapno' \in Nat
         /\ kbd' \in [full : BOOLEAN, byte : Keys \cup {NONE}]
         /\ typed' \in Seq(Letters) /\ letters' \in Seq(Letters)
  <1>1. /\ last_trapno \in Nat
        /\ kbd \in [full : BOOLEAN, byte : Keys \cup {NONE}]
        /\ typed \in Seq(Letters) /\ letters \in Seq(Letters)
    BY DEF Inv, TypeInv
  <1>2. CASE UNCHANGED Data
    BY <1>1, <1>2 DEF Data
  <1>3. CASE trap_handler
    <2>1. cpu.ip = "trap_handler" /\ last_trapno' = tf_trapno /\ UNCHANGED <<kbd, typed, letters>>
      BY <1>3 DEF trap_handler, history
    <2>2. cpu.ip \in HandlerIp \ {"alltraps", "iret"}
      BY <2>1 DEF HandlerIp, Open
    <2>3. tf_trapno \in Nat
      BY <2>2, TheTrapno DEF Inv, Nested
    <2>4. QED
      BY <1>1, <2>1, <2>3
  <1>4. CASE keyboard_handler
    <2>1. kbd' = [kbd EXCEPT !.full = FALSE] /\ UNCHANGED <<last_trapno, typed, letters>>
      BY <1>4 DEF keyboard_handler, history
    <2>2. QED
      BY <1>1, <2>1
  <1>5. CASE keyboard_log
    <2>1. /\ letters' = IF cpu.gp \in Letters THEN Append(letters, cpu.gp) ELSE letters
          /\ UNCHANGED <<last_trapno, kbd, typed>>
      BY <1>5 DEF keyboard_log
    <2>2. QED
      BY <1>1, <2>1, Appended
  <1>6. ASSUME NEW key \in Keys, press(key)
        PROVE  /\ UNCHANGED <<last_trapno, letters>>
               /\ kbd' = [full |-> TRUE, byte |-> key]
               /\ typed' = IF key \in Letters THEN Append(typed, key) ELSE typed
    BY <1>6 DEF press
  <1>7. CASE \E key \in Keys : press(key)
    <2>1. PICK key \in Keys : press(key)
      BY <1>7
    <2>2. /\ UNCHANGED <<last_trapno, letters>>
          /\ kbd' = [full |-> TRUE, byte |-> key]
          /\ typed' = IF key \in Letters THEN Append(typed, key) ELSE typed
      BY <2>1, <1>6
    <2>3. typed' \in Seq(Letters)
      BY <1>1, <2>2, Appended
    <2>4. QED
      BY <1>1, <2>2, <2>3
  <1>8. ASSUME NEW v, Deliver(v)
        PROVE  UNCHANGED Data
    BY <1>8 DEF Deliver, Data
  <1>9. CASE Traps
    BY <1>2, <1>9, <1>8, TrapMoves
  <1>10. ASSUME Boot
         PROVE  UNCHANGED Data
    BY <1>10 DEF Boot, Data, history, trap_init, set_gates, x86_lidt, load, x86_pic_remap_save,
           x86_pic_remap, x86_idt_enable, enable, segments_clear, segments_set, x86_lgdt,
           x86_lgdt_reload, reload, sti
  <1>11. ASSUME alltraps \/ trap_announce \/ trap_callback \/ x86_pic_eoi_1 \/ x86_pic_eoi_2
                \/ trapret \/ iret
         PROVE  UNCHANGED Data
    BY <1>11 DEF Data, history, alltraps, trap_announce, trap_callback, x86_pic_eoi_1, x86_pic_eoi_2,
           eoi_from, trapret, return_with, iret
  <1>12. ASSUME idle \/ \E line \in Lines : tick(line)
         PROVE  UNCHANGED Data
    BY <1>12 DEF Data, history, idle, vars, tick
  <1>13. QED
    BY <1>2, <1>3, <1>4, <1>5, <1>7, <1>9, <1>10, <1>11, <1>12, NextCases DEF Middle, Devices

\* The levels after a step within a handler.
LEMMA NestingWithin ==
  ASSUME Inv, Within, cpu'.ip \in HandlerIp, cpu'.flags = cpu.flags,
         Len(Levels) > 2 => cpu'.ip \notin {"keyboard_handler", "keyboard_log"}
  PROVE  NestingInv'
  <1> DEFINE n == Len(Levels)
  <1>1. n \in Nat \ {0, 1} /\ Len(Levels') = n
    BY DEF Within
  <1>2. /\ \A i \in 1..(n - 1) : Levels'[i] = Levels[i]
        /\ Levels[n] = cpu /\ Levels'[n] = cpu'
    BY DEF Within
  <1>3. /\ Levels[1].ip \in KernelIp
        /\ Levels[1].flags = (IF Levels[1].ip = "idle" THEN FL_IF ELSE 0)
        /\ \A i \in 2..n : Levels[i].ip \in HandlerIp /\ Levels[i].flags = 0
        /\ \A i \in 3..n : Levels[i].ip \notin {"keyboard_handler", "keyboard_log"}
        /\ n > 1 => Levels[1].ip \notin {"trap_init", "x86_lidt"}
    BY DEF Inv, NestingInv
  <1> HIDE DEF n
  <1>4. Levels'[1] = Levels[1]
    BY <1>1, <1>2
  <1>5. \A i \in 2..n : Levels'[i].ip \in HandlerIp /\ Levels'[i].flags = 0
    BY <1>1, <1>2, <1>3
  <1>6. \A i \in 3..n : Levels'[i].ip \notin {"keyboard_handler", "keyboard_log"}
    BY <1>1, <1>2, <1>3 DEF n
  <1>7. QED
    BY <1>1, <1>3, <1>4, <1>5, <1>6 DEF NestingInv

\* After a trap.
LEMMA NestingInto ==
  ASSUME Inv, NEW v, Into(v), Here \notin {"trap_init", "x86_lidt"}
  PROVE  NestingInv'
  <1> DEFINE n == Len(Levels)
  <1>1. n \in Nat \ {0} /\ Len(Levels') = n + 1
    BY DEF Into
  <1>2. /\ \A i \in 1..n : Levels'[i] = Levels[i]
        /\ Levels'[n + 1].ip = "alltraps" /\ Levels'[n + 1].flags = 0
    BY DEF Into
  <1>3. /\ Levels[1].ip \in KernelIp
        /\ Levels[1].flags = (IF Levels[1].ip = "idle" THEN FL_IF ELSE 0)
        /\ \A i \in 2..n : Levels[i].ip \in HandlerIp /\ Levels[i].flags = 0
        /\ \A i \in 3..n : Levels[i].ip \notin {"keyboard_handler", "keyboard_log"}
        /\ Levels[1].ip \notin {"trap_init", "x86_lidt"}
    BY DEF Inv, NestingInv, Here
  <1> HIDE DEF n
  <1>4. Levels'[1] = Levels[1]
    BY <1>1, <1>2
  <1>5. "alltraps" \in HandlerIp
    BY DEF HandlerIp, Open
  <1>6. \A i \in 2..(n + 1) : Levels'[i].ip \in HandlerIp /\ Levels'[i].flags = 0
    <2> SUFFICES ASSUME NEW i \in 2..(n + 1)
                 PROVE  Levels'[i].ip \in HandlerIp /\ Levels'[i].flags = 0
      OBVIOUS
    <2>1. CASE i = n + 1
      BY <2>1, <1>2, <1>5
    <2>2. CASE i # n + 1
      <3>1. i \in 2..n /\ i \in 1..n
        BY <2>2, <1>1
      <3>2. QED
        BY <3>1, <1>2, <1>3
    <2>3. QED
      BY <2>1, <2>2
  <1>7. \A i \in 3..(n + 1) : Levels'[i].ip \notin {"keyboard_handler", "keyboard_log"}
    <2> SUFFICES ASSUME NEW i \in 3..(n + 1)
                 PROVE  Levels'[i].ip \notin {"keyboard_handler", "keyboard_log"}
      OBVIOUS
    <2>1. CASE i = n + 1
      BY <2>1, <1>2
    <2>2. CASE i # n + 1
      <3>1. i \in 3..n /\ i \in 1..n
        BY <2>2, <1>1
      <3>2. QED
        BY <3>1, <1>2, <1>3
    <2>3. QED
      BY <2>1, <2>2
  <1>8. QED
    BY <1>1, <1>3, <1>4, <1>6, <1>7 DEF NestingInv

\* After a return.
LEMMA NestingOutOf ==
  ASSUME Inv, OutOf
  PROVE  NestingInv'
  <1> DEFINE n == Len(Levels)
  <1>1. n \in Nat \ {0, 1} /\ Len(Levels') = n - 1
    BY DEF OutOf
  <1>2. \A i \in 1..(n - 1) : Levels'[i] = Levels[i]
    BY DEF OutOf
  <1>3. /\ Levels[1].ip \in KernelIp
        /\ Levels[1].flags = (IF Levels[1].ip = "idle" THEN FL_IF ELSE 0)
        /\ \A i \in 2..n : Levels[i].ip \in HandlerIp /\ Levels[i].flags = 0
        /\ \A i \in 3..n : Levels[i].ip \notin {"keyboard_handler", "keyboard_log"}
        /\ n > 1 => Levels[1].ip \notin {"trap_init", "x86_lidt"}
    BY DEF Inv, NestingInv
  <1> HIDE DEF n
  <1>4. Levels'[1] = Levels[1] /\ n > 1
    BY <1>1, <1>2
  <1>5. \A i \in 2..(n - 1) : i \in 2..n /\ i \in 1..(n - 1)
    BY <1>1
  <1>6. \A i \in 3..(n - 1) : i \in 3..n /\ i \in 1..(n - 1)
    BY <1>1
  <1>7. \A i \in 2..(n - 1) : Levels'[i].ip \in HandlerIp /\ Levels'[i].flags = 0
    BY <1>2, <1>3, <1>5
  <1>8. \A i \in 3..(n - 1) : Levels'[i].ip \notin {"keyboard_handler", "keyboard_log"}
    BY <1>2, <1>3, <1>6
  <1>9. QED
    BY <1>1, <1>3, <1>4, <1>7, <1>8 DEF NestingInv

\* What kind of step each action is.
LEMMA NestedFrom ==
  ASSUME Inv, Next,
         cpu' \in Regs, interrupted' \in Seq(Regs), stack' \in Seq(StackWord), FramesInv', NestingInv'
  PROVE  Nested'
  BY DataTypes DEF Nested, TypeInv

LEMMA BootKind ==
  ASSUME Inv, Boot
  PROVE  Nested' /\ InKernel
  <1>0. Nested /\ cpu \in Regs /\ interrupted \in Seq(Regs) /\ stack \in Seq(StackWord)
    BY DEF Inv, Nested, TypeInv
  <1>1. /\ cpu.ip \in KernelIp
        /\ cpu' \in Regs /\ cpu'.ip \in KernelIp
        /\ cpu'.flags = (IF cpu'.ip = "idle" THEN FL_IF ELSE 0)
        /\ UNCHANGED <<stack, interrupted>>
    BY BootMoves
  <1>2. InKernel /\ FramesInv'
    BY <1>0, <1>1, KernelStep
  <1>3. NestingInv'
    BY <1>1, <1>2 DEF NestingInv, InKernel
  <1>4. Next
    BY DEF Next
  <1>5. QED
    BY <1>0, <1>1, <1>2, <1>3, <1>4, NestedFrom

LEMMA WithinKind ==
  ASSUME Inv, alltraps \/ Middle \/ trapret
  PROVE  Nested' /\ Within /\ cpu'.ip \in HandlerIp
  <1>0. Nested /\ cpu \in Regs /\ interrupted \in Seq(Regs) /\ stack \in Seq(StackWord)
    BY DEF Inv, Nested, TypeInv
  <1>1. Next
    BY DEF Next, Handler, Middle
  <1>2. CASE alltraps
    <2>1. /\ stack' \in Seq(StackWord)
          /\ cpu' \in Regs
          /\ cpu'.ip = "trap_handler" /\ cpu'.flags = cpu.flags
      BY <1>2, Saved DEF Inv
    <2>2. Within /\ FramesInv'
      BY <1>0, <1>2, SaveStep
    <2>3. "trap_handler" \in HandlerIp /\ "trap_handler" \notin {"keyboard_handler", "keyboard_log"}
      BY DEF HandlerIp, Open
    <2>4. UNCHANGED interrupted
      BY <1>2 DEF alltraps, history
    <2>5. NestingInv'
      BY <2>1, <2>2, <2>3, NestingWithin
    <2>6. QED
      BY <1>0, <1>1, <2>1, <2>2, <2>3, <2>4, <2>5, NestedFrom
  <1>3. CASE Middle
    <2>1. /\ cpu.ip \in HandlerIp \ {"alltraps", "iret"}
          /\ cpu'.ip \in HandlerIp \ {"alltraps", "iret"}
          /\ cpu' \in Regs /\ cpu'.ss = cpu.ss /\ cpu'.flags = cpu.flags
          /\ UNCHANGED <<stack, interrupted>>
          /\ Len(Levels) > 2 => cpu'.ip \notin {"keyboard_handler", "keyboard_log"}
      BY <1>3, MiddleMoves
    <2>2. Within /\ FramesInv'
      BY <1>0, <2>1, MiddleStep
    <2>3. NestingInv'
      BY <2>1, <2>2, NestingWithin
    <2>4. QED
      BY <1>0, <1>1, <2>1, <2>2, <2>3, NestedFrom
  <1>4. CASE trapret
    <2>0. cpu.ip = "trapret" /\ UNCHANGED interrupted
      BY <1>4 DEF trapret, return_with, history
    <2>1. /\ stack' \in Seq(StackWord)
          /\ cpu' \in Regs
          /\ cpu'.ip = "iret" /\ cpu'.flags = cpu.flags
      <3> DEFINE d == Len(Levels) - 1
      <3>1. cpu.ip \in HandlerIp
        BY <2>0 DEF HandlerIp, Closed
      <3>2. d \in Nat \ {0} /\ Len(Levels) = d + 1
        BY <1>0, <3>1, AtHandler, IpDisjoint
      <3>3. PICK base \in [1..Len(Levels) -> Nat] : Frames(base, stack, Levels)
        BY <1>0 DEF Nested, FramesInv
      <3> HIDE DEF d
      <3>4. QED
        BY <1>0, <1>4, <3>2, <3>3, Popped
    <2>2. Within /\ FramesInv'
      BY <1>0, <1>4, RestoreStep
    <2>3. "iret" \in HandlerIp /\ "iret" \notin {"keyboard_handler", "keyboard_log"}
      BY DEF HandlerIp, Closed
    <2>4. NestingInv'
      BY <2>1, <2>2, <2>3, NestingWithin
    <2>5. QED
      BY <1>0, <1>1, <2>0, <2>1, <2>2, <2>3, <2>4, NestedFrom
  <1>5. QED
    BY <1>2, <1>3, <1>4

LEMMA OutOfKind ==
  ASSUME Inv, iret
  PROVE  Nested' /\ OutOf /\ cpu' = Last(interrupted)
  <1>1. Next
    BY DEF Next, Handler
  <1>2. /\ OutOf /\ FramesInv'
        /\ cpu' = Last(interrupted) /\ cpu' \in Regs
        /\ interrupted' \in Seq(Regs)
        /\ stack' \in Seq(StackWord)
    BY ReturnStep DEF Inv, Nested
  <1>3. NestingInv'
    BY <1>2, NestingOutOf
  <1>4. QED
    BY <1>1, <1>2, <1>3, NestedFrom

LEMMA IntoKind ==
  ASSUME Inv, Traps, NEW v \in 0..47, Deliver(v)
  PROVE  Nested' /\ Into(v)
  <1>0. Nested
    BY DEF Inv, Nested
  <1>1. Next
    BY DEF Next, Traps
  <1>2. PICK w \in 0..47 :
           /\ Deliver(w)
           /\ gates = "interrupt" /\ Here \notin {"trap_init", "x86_lidt"}
           /\ Len(Levels) > 1 => w < X86_PIC1_OFFSET
    BY TrapMoves
  <1>3. v \in Vectors /\ w \in Vectors
    BY DEF Vectors
  <1>4. v = w
    <2>1. stack'[Len(stack) + 5] = v
      BY <1>0, <1>3, Delivered DEF Nested
    <2>2. stack'[Len(stack) + 5] = w
      BY <1>0, <1>2, <1>3, Delivered DEF Nested
    <2>3. QED
      BY <2>1, <2>2
  <1>5. /\ cpu' \in Regs
        /\ interrupted' \in Seq(Regs)
        /\ stack' \in Seq(StackWord)
    BY <1>0, <1>3, Delivered DEF Nested
  <1>6. Into(v) /\ FramesInv'
    BY <1>0, <1>2, <1>3, <1>4, TrapStep
  <1>7. NestingInv'
    BY <1>2, <1>6, NestingInto
  <1>8. QED
    BY <1>1, <1>5, <1>6, <1>7, NestedFrom

LEMMA DevicesKind ==
  ASSUME Inv, Devices
  PROVE  Nested' /\ UNCHANGED <<cpu, stack, interrupted, Levels>>
  <1>1. Next
    BY DEF Next, Devices
  <1>2. UNCHANGED <<cpu, stack, interrupted>>
    BY DEF Devices, idle, vars, history, tick, press
  <1>3. UNCHANGED Levels
    BY <1>2 DEF Levels
  <1>4. FramesInv' /\ NestingInv'
    BY <1>2, <1>3 DEF Inv, FramesInv, NestingInv
  <1>5. QED
    BY <1>1, <1>2, <1>3, <1>4, NestedFrom DEF Inv, TypeInv

-----------------------------------------------------------------------------
(* The tables. *)

\* Only kmain changes tables, and where it is.
LEMMA CodeStays ==
  ASSUME Inv, Next, ~Boot
  PROVE  UNCHANGED <<code, Here>>
  <1>1. CASE alltraps \/ Middle \/ trapret
    <2>1. UNCHANGED Here
      BY <1>1, WithinKind, HereStays
    <2>2. UNCHANGED code
      BY <1>1 DEF Middle, alltraps, trap_handler, trap_announce, trap_callback, keyboard_handler,
             keyboard_log, x86_pic_eoi_1, x86_pic_eoi_2, eoi_from, trapret, return_with
    <2>3. QED
      BY <2>1, <2>2
  <1>2. CASE iret
    <2>1. UNCHANGED Here
      BY <1>2, OutOfKind, HereStays
    <2>2. QED
      BY <1>2, <2>1 DEF iret
  <1>3. CASE Traps
    <2>1. PICK v \in 0..47 : Deliver(v)
      BY <1>3, TrapMoves
    <2>2. v \in Vectors /\ Into(v)
      BY <1>3, <2>1, IntoKind DEF Vectors
    <2>3. QED
      BY <2>1, <2>2, HereStays DEF Deliver
  <1>4. CASE Devices
    <2>1. UNCHANGED Here
      BY <1>4, DevicesKind DEF Here
    <2>2. UNCHANGED code
      BY <1>4 DEF Devices, idle, vars, code, segs, tick, press
    <2>3. QED
      BY <2>1, <2>2
  <1>5. QED
    BY <1>1, <1>2, <1>3, <1>4, NextCases

\* Where kmain goes.
LEMMA BootHere ==
  ASSUME Inv, Boot
  PROVE  Here = cpu.ip /\ Here' = cpu'.ip
  BY BootKind DEF InKernel, Here

LEMMA GotoIp ==
  ASSUME Inv, NEW here, NEW there, Goto(here, there)
  PROVE  cpu.ip = here /\ cpu'.ip = there
  BY DEF Inv, TypeInv, Goto, Regs

LEMMA ReloadIp ==
  ASSUME Inv, x86_lgdt_reload
  PROVE  cpu.ip \in Ready \ {"sti", "idle"} /\ cpu'.ip \in Ready \ {"idle"}
  <1>1. cpu \in Regs
    BY DEF Inv, TypeInv
  <1>2. QED
    BY <1>1 DEF x86_lgdt_reload, reload, Ready, Regs

LEMMA TablesKept ==
  ASSUME Inv, Next
  PROVE  TablesInv'
  <1>1. CASE ~Boot
    <2>1. UNCHANGED <<gates, callback, loaded, Here>>
      BY <1>1, CodeStays DEF code
    <2>2. QED
      BY <2>1 DEF Inv, TablesInv
  <1>2. CASE Boot
    <2>0. /\ Here = cpu.ip /\ Here' = cpu'.ip
          /\ TablesInv
      BY <1>2, BootHere DEF Inv
    <2> USE DEF TablesInv, Early, Ready, Late, NoCallbacks
    <2>1. CASE trap_init
      <3>1. /\ Goto("trap_init", "x86_lidt") /\ UNCHANGED loaded
            /\ gates' = "interrupt" /\ callback' = NoCallbacks
        BY <2>1 DEF trap_init, set_gates
      <3>2. cpu.ip = "trap_init" /\ cpu'.ip = "x86_lidt"
        BY <3>1, GotoIp
      <3>3. QED
        BY <2>0, <3>1, <3>2
    <2>2. CASE x86_lidt
      <3>1. /\ Goto("x86_lidt", "x86_pic_remap") /\ loaded' = loaded \cup {"idt"}
            /\ UNCHANGED <<gates, callback>>
        BY <2>2 DEF x86_lidt, load
      <3>2. cpu.ip = "x86_lidt" /\ cpu'.ip = "x86_pic_remap"
        BY <3>1, GotoIp
      <3>3. QED
        BY <2>0, <3>1, <3>2
    <2>3. CASE x86_pic_remap_save
      <3>1. cpu' = cpu /\ UNCHANGED <<gates, callback, loaded>>
        BY <2>3 DEF x86_pic_remap_save, code
      <3>2. QED
        BY <2>0, <3>1
    <2>4. CASE x86_pic_remap
      <3>1. /\ cpu' = cpu \/ Goto("x86_pic_remap", "x86_idt_enable")
            /\ UNCHANGED <<gates, callback, loaded>>
        BY <2>4 DEF x86_pic_remap, code, Goto
      <3>2. cpu' = cpu \/ (cpu.ip = "x86_pic_remap" /\ cpu'.ip = "x86_idt_enable")
        BY <3>1, GotoIp
      <3>3. QED
        BY <2>0, <3>1, <3>2
    <2>5. CASE x86_idt_enable
      <3>1. /\ Goto("x86_idt_enable", "segments_init") /\ UNCHANGED <<gates, loaded>>
            /\ callback' = [x \in {X86_PIC1_OFFSET + 1} \cup DOMAIN callback |->
                              IF x = X86_PIC1_OFFSET + 1 THEN "keyboard_handler" ELSE callback[x]]
        BY <2>5 DEF x86_idt_enable, enable
      <3>2. cpu.ip = "x86_idt_enable" /\ cpu'.ip = "segments_init"
        BY <3>1, GotoIp
      <3>3. callback = NoCallbacks
        BY <2>0, <3>2
      <3>4. /\ DOMAIN callback' = {X86_PIC1_OFFSET + 1}
            /\ callback'[X86_PIC1_OFFSET + 1] = "keyboard_handler"
        BY <3>1, <3>3
      <3>5. QED
        BY <2>0, <3>1, <3>2, <3>4
    <2>6. CASE segments_clear \/ segments_set
      <3>1. /\ \/ Goto("segments_init", "x86_gdt_set")
               \/ Goto("x86_gdt_set", "x86_gdt_set")
               \/ Goto("x86_gdt_set", "x86_lgdt")
            /\ UNCHANGED <<gates, callback, loaded>>
        BY <2>6 DEF segments_clear, segments_set
      <3>2. /\ cpu.ip \in {"segments_init", "x86_gdt_set"}
            /\ cpu'.ip \in {"x86_gdt_set", "x86_lgdt"}
        BY <3>1, GotoIp
      <3>3. QED
        BY <2>0, <3>1, <3>2
    <2>7. CASE x86_lgdt
      <3>1. /\ Goto("x86_lgdt", "mov_ds") /\ loaded' = loaded \cup {"gdt"}
            /\ UNCHANGED <<gates, callback>>
        BY <2>7 DEF x86_lgdt, load
      <3>2. cpu.ip = "x86_lgdt" /\ cpu'.ip = "mov_ds"
        BY <3>1, GotoIp
      <3>3. QED
        BY <2>0, <3>1, <3>2
    <2>8. CASE x86_lgdt_reload \/ sti
      <3>1. UNCHANGED <<gates, callback, loaded>>
        BY <2>8 DEF x86_lgdt_reload, reload, sti, code
      <3>2. cpu.ip \in Ready /\ cpu'.ip \in Ready
        <4>1. CASE x86_lgdt_reload
          BY <4>1, ReloadIp
        <4>2. CASE sti
          <5>1. cpu \in Regs /\ cpu.ip = "sti" /\ cpu'.ip = "idle"
            BY <4>2 DEF sti, Inv, TypeInv, Regs
          <5>2. QED
            BY <5>1
        <4>3. QED
          BY <2>8, <4>1, <4>2
      <3>3. QED
        BY <2>0, <3>1, <3>2
    <2>9. QED
      BY <1>2, <2>1, <2>2, <2>3, <2>4, <2>5, <2>6, <2>7, <2>8 DEF Boot
  <1>3. QED
    BY <1>1, <1>2

\* The descriptors are set one after the other, and stay.
LEMMA SegmentsKept ==
  ASSUME Inv, Next
  PROVE  SegmentsInv'
  <1>0. SegmentsInv
    BY DEF Inv
  <1>1. CASE ~Boot
    <2>1. UNCHANGED <<cpu_gdt, filled, Here>>
      BY <1>1, CodeStays DEF code, segs
    <2>2. QED
      BY <1>0, <2>1 DEF SegmentsInv
  <1>2. ASSUME UNCHANGED <<cpu_gdt, filled>>,
               \/ Here \in Early /\ Here' \in Early \cup {"segments_init"}
               \/ Here \in {"x86_lgdt"} \cup Ready /\ Here' \in Ready
        PROVE  SegmentsInv'
    BY <1>0, <1>2 DEF SegmentsInv, Early, Ready
  <1>3. CASE Boot
    <2>0. Here = cpu.ip /\ Here' = cpu'.ip
      BY <1>3, BootHere
    <2>1. CASE trap_init \/ x86_lidt \/ x86_pic_remap_save \/ x86_pic_remap \/ x86_idt_enable
      <3>1. UNCHANGED <<cpu_gdt, filled>>
        BY <2>1 DEF trap_init, set_gates, x86_lidt, load, x86_pic_remap_save, x86_pic_remap,
               x86_idt_enable, enable, code, segs
      <3>2. \/ Goto("trap_init", "x86_lidt") \/ Goto("x86_lidt", "x86_pic_remap")
            \/ cpu.ip = "x86_pic_remap" /\ cpu' = cpu
            \/ Goto("x86_pic_remap", "x86_idt_enable")
            \/ Goto("x86_idt_enable", "segments_init")
        BY <2>1 DEF trap_init, set_gates, x86_lidt, load, x86_pic_remap_save, x86_pic_remap,
               x86_idt_enable, enable, Goto
      <3>3. cpu.ip \in Early /\ cpu'.ip \in Early \cup {"segments_init"}
        BY <3>2, GotoIp DEF Early
      <3>4. QED
        BY <1>2, <2>0, <3>1, <3>3
    <2>2. CASE x86_lgdt \/ x86_lgdt_reload \/ sti
      <3>1. UNCHANGED <<cpu_gdt, filled>>
        BY <2>2 DEF x86_lgdt, load, x86_lgdt_reload, reload, sti, code, segs
      <3>2. cpu.ip \in {"x86_lgdt"} \cup Ready /\ cpu'.ip \in Ready
        <4>1. CASE x86_lgdt
          <5>1. Goto("x86_lgdt", "mov_ds")
            BY <4>1 DEF x86_lgdt, load
          <5>2. QED
            BY <5>1, GotoIp DEF Ready
        <4>2. CASE x86_lgdt_reload
          BY <4>2, ReloadIp
        <4>3. CASE sti
          <5>1. cpu \in Regs /\ cpu.ip = "sti" /\ cpu'.ip = "idle"
            BY <4>3 DEF sti, Inv, TypeInv, Regs
          <5>2. QED
            BY <5>1 DEF Ready
        <4>4. QED
          BY <2>2, <4>1, <4>2, <4>3
      <3>3. QED
        BY <1>2, <2>0, <3>1, <3>2
    <2>3. CASE segments_clear
      <3>1. /\ Goto("segments_init", "x86_gdt_set") /\ UNCHANGED filled
            /\ cpu_gdt' = [i \in 0..(X86_GDT_SEG_SIZE - 1) |-> NullEntry]
        BY <2>3 DEF segments_clear
      <3>2. cpu.ip = "segments_init" /\ cpu'.ip = "x86_gdt_set"
        BY <3>1, GotoIp
      <3>3. filled = 0 /\ filled' = 0
        BY <1>0, <2>0, <3>1, <3>2 DEF SegmentsInv
      <3>4. QED
        BY <2>0, <3>1, <3>2, <3>3 DEF SegmentsInv, Early, Ready
    <2>4. CASE segments_set
      <3> DEFINE n == filled + 1
                 E == entries(TSS)
      <3>1. /\ Goto("x86_gdt_set", IF n = Len(E) THEN "x86_lgdt" ELSE "x86_gdt_set")
            /\ cpu_gdt' = [cpu_gdt EXCEPT ![E[n][1]] = E[n][2]]
            /\ filled' = n
        BY <2>4 DEF segments_set
      <3>2. cpu.ip = "x86_gdt_set" /\ cpu'.ip = (IF n = Len(E) THEN "x86_lgdt" ELSE "x86_gdt_set")
        BY <3>1, GotoIp
      <3>3. Len(E) = 5 /\ \A i \in 1..5 : E[i][1] = i
        <4>1. /\ Len(E) = 5 /\ E[1][1] = 1 /\ E[2][1] = 2 /\ E[3][1] = 3 /\ E[4][1] = 4 /\ E[5][1] = 5
          BY DEF entries, X86_GDT_SEG_CODEK, X86_GDT_SEG_DATAK, X86_GDT_SEG_CODEU,
                 X86_GDT_SEG_DATAU, X86_GDT_SEG_TSS
        <4>2. \A i \in 1..5 : i = 1 \/ i = 2 \/ i = 3 \/ i = 4 \/ i = 5
          OBVIOUS
        <4> HIDE DEF E
        <4>3. QED
          BY <4>1, <4>2
      <3> HIDE DEF E
      <3>4. /\ DOMAIN cpu_gdt = 0..5
            /\ filled \in 0..4
            /\ \A i \in 1..filled : cpu_gdt[E[i][1]] = E[i][2]
        BY <1>0, <2>0, <3>2 DEF SegmentsInv, X86_GDT_SEG_SIZE, E
      <3>5. n \in 1..5 /\ E[n][1] = n
        BY <3>3, <3>4
      <3>6. cpu_gdt' = [cpu_gdt EXCEPT ![n] = E[n][2]] /\ n \in DOMAIN cpu_gdt
        BY <3>1, <3>4, <3>5
      <3>7. \A i \in 1..n : cpu_gdt'[i] = E[i][2]
        <4> SUFFICES ASSUME NEW i \in 1..n PROVE cpu_gdt'[i] = E[i][2]
          OBVIOUS
        <4>1. CASE i = n
          BY <3>6, <4>1
        <4>2. CASE i # n
          <5>1. i \in 1..filled /\ i \in 1..5
            BY <3>4, <4>2
          <5>2. cpu_gdt'[i] = cpu_gdt[i]
            BY <3>6, <4>2
          <5>3. QED
            BY <3>3, <3>4, <5>1, <5>2
        <4>3. QED
          BY <4>1, <4>2
      <3>8. \A i \in 1..n : cpu_gdt'[E[i][1]] = E[i][2]
        <4>1. \A i \in 1..n : i \in 1..5
          BY <3>5
        <4>2. QED
          BY <3>3, <3>7, <4>1
      <3>9. DOMAIN cpu_gdt' = 0..5
        BY <3>4, <3>6
      <3>10. /\ Here' = "x86_gdt_set" => n < 5
             /\ Here' = "x86_lgdt" => n = 5
             /\ Here' \in {"x86_gdt_set", "x86_lgdt"}
        BY <2>0, <3>2, <3>3, <3>5
      <3>11. QED
        BY <3>1, <3>5, <3>8, <3>9, <3>10 DEF SegmentsInv, X86_GDT_SEG_SIZE, Early, Ready, E
    <2>5. QED
      BY <1>3, <2>1, <2>2, <2>3, <2>4 DEF Boot
  <1>4. QED
    BY <1>1, <1>3

-----------------------------------------------------------------------------
(* The interrupt controllers. *)

LEMMA PicTypes ==
  ASSUME Inv, NEW k \in 1..2
  PROVE  pic[k] \in Pic /\ pic \in [1..2 -> Pic]
  BY DEF Inv, PicInv

\* A controller gets a record of its own kind.
LEMMA PicSet ==
  ASSUME Inv, NEW k \in 1..2, NEW q \in Pic,
         q.base = pic[k].base, q.imr = pic[k].imr, q.expect = pic[k].expect,
         pic' = [pic EXCEPT ![k] = q]
  PROVE  /\ pic' \in [1..2 -> Pic]
         /\ Lit(k, q.irr, q.isr)
         /\ \A j \in (1..2) \ {k} : Lit(j, pic[j].irr, pic[j].isr)
  <1>1. pic \in [1..2 -> Pic]
    BY DEF Inv, PicInv
  <1>2. pic' \in [1..2 -> Pic] /\ pic'[k] = q /\ \A j \in (1..2) \ {k} : pic'[j] = pic[j] /\ pic[j] \in Pic
    BY <1>1
  <1>3. QED
    BY <1>2 DEF Lit

LEMMA PicUnchanged ==
  ASSUME Inv, UNCHANGED pic
  PROVE  pic' \in [1..2 -> Pic] /\ \A k \in 1..2 : Lit(k, pic[k].irr, pic[k].isr)
  BY PicTypes DEF Lit

\* A device raises its line.
LEMMA Raised ==
  ASSUME Inv, NEW line \in 0..15, pic' = Raise(pic, line)
  PROVE  /\ pic' \in [1..2 -> Pic]
         /\ Lit(1, IF line < 8 THEN pic[1].irr \cup {line} ELSE pic[1].irr, pic[1].isr)
         /\ Lit(2, IF line < 8 THEN pic[2].irr ELSE pic[2].irr \cup {line % 8}, pic[2].isr)
  <1> DEFINE k == IF line < 8 THEN 1 ELSE 2
             n == line % 8
             q == [pic[k] EXCEPT !.irr = pic[k].irr \cup {n}]
  <1>1. k \in 1..2 /\ n \in 0..7 /\ (line < 8 => n = line)
    OBVIOUS
  <1>2. pic' = [pic EXCEPT ![k] = q]
    BY <1>1, PicTypes DEF Raise
  <1>3. pic[k] \in Pic
    BY <1>1, PicTypes
  <1> HIDE DEF n
  <1>4. /\ q \in Pic
        /\ q.base = pic[k].base /\ q.imr = pic[k].imr /\ q.expect = pic[k].expect
        /\ q.irr = pic[k].irr \cup {n} /\ q.isr = pic[k].isr
    BY <1>1, <1>3 DEF Pic
  <1> HIDE DEF q
  <1>5. /\ pic' \in [1..2 -> Pic]
        /\ Lit(k, pic[k].irr \cup {n}, pic[k].isr)
        /\ \A j \in (1..2) \ {k} : Lit(j, pic[j].irr, pic[j].isr)
    <2> HIDE DEF k
    <2>1. QED
      BY <1>1, <1>2, <1>4, PicSet
  <1>6. CASE line < 8
    <2>1. k = 1 /\ n = line /\ 2 \in (1..2) \ {k}
      BY <1>1, <1>6
    <2>2. QED
      BY <1>5, <1>6, <2>1
  <1>7. CASE ~(line < 8)
    <2>1. k = 2 /\ 1 \in (1..2) \ {k}
      BY <1>7
    <2>2. QED
      BY <1>5, <1>7, <2>1 DEF n
  <1>8. QED
    BY <1>6, <1>7

\* An end of interrupt, when the trap is one of the controller's.
LEMMA Acknowledged ==
  ASSUME Inv, NEW k \in 1..2, NEW here, NEW there, NEW offset, eoi_from(k, here, there, offset)
  PROVE  /\ pic' \in [1..2 -> Pic]
         /\ Lit(k, pic[k].irr, IF tf_trapno >= offset /\ pic[k].isr # {}
                               THEN pic[k].isr \ {Min(pic[k].isr)} ELSE pic[k].isr)
         /\ \A j \in (1..2) \ {k} : Lit(j, pic[j].irr, pic[j].isr)
  <1>1. pic[k] \in Pic /\ pic \in [1..2 -> Pic]
    BY PicTypes
  <1>2. CASE tf_trapno >= offset
    <2> DEFINE isr == IF pic[k].isr = {} THEN pic[k].isr ELSE pic[k].isr \ {Min(pic[k].isr)}
               q == [pic[k] EXCEPT !.isr = isr]
    <2>1. pic' = [pic EXCEPT ![k] = q]
      BY <1>1, <1>2 DEF eoi_from, pic_eoi, Pic
    <2>2. isr \in SUBSET (0..7)
      BY <1>1 DEF Pic
    <2> HIDE DEF isr
    <2>3. /\ q \in Pic
          /\ q.base = pic[k].base /\ q.imr = pic[k].imr /\ q.expect = pic[k].expect
          /\ q.irr = pic[k].irr /\ q.isr = isr
      BY <1>1, <2>2 DEF Pic
    <2> HIDE DEF q
    <2>4. /\ pic' \in [1..2 -> Pic]
          /\ Lit(k, q.irr, q.isr)
          /\ \A j \in (1..2) \ {k} : Lit(j, pic[j].irr, pic[j].isr)
      BY <2>1, <2>3, PicSet
    <2>5. isr = IF tf_trapno >= offset /\ pic[k].isr # {}
                THEN pic[k].isr \ {Min(pic[k].isr)} ELSE pic[k].isr
      BY <1>2 DEF isr
    <2>6. QED
      BY <2>3, <2>4, <2>5
  <1>3. CASE ~(tf_trapno >= offset)
    <2>1. UNCHANGED pic
      BY <1>3 DEF eoi_from
    <2>2. QED
      BY <1>3, <2>1, PicUnchanged
  <1>4. QED
    BY <1>2, <1>3

\* Outside of x86_pic_remap only lines change, and never the cascade's.
Settled ==
  /\ pic' \in [1..2 -> Pic]
  /\ \A k \in 1..2 : /\ pic'[k].base = pic[k].base /\ pic'[k].imr = pic[k].imr
                     /\ pic'[k].expect = pic[k].expect
  /\ 2 \notin pic'[1].irr

LEMMA LitSettled ==
  ASSUME Inv, pic' \in [1..2 -> Pic], NEW irr, NEW isr, Lit(1, irr, isr), 2 \notin irr,
         NEW irr2, NEW isr2, Lit(2, irr2, isr2)
  PROVE  Settled
  <1>1. \A k \in 1..2 : k = 1 \/ k = 2
    OBVIOUS
  <1>2. QED
    BY <1>1 DEF Settled, Lit

LEMMA PicSettled ==
  ASSUME Inv, Next, ~Boot
  PROVE  Settled /\ UNCHANGED <<icw, a, firmware>>
  <1>0. 2 \notin pic[1].irr
    BY DEF Inv, PicInv
  <1>1. ASSUME UNCHANGED pic
        PROVE  Settled
    BY <1>0, <1>1, PicUnchanged, LitSettled
  <1>2. ASSUME NEW k \in 1..2, NEW here, NEW there, NEW offset, eoi_from(k, here, there, offset)
        PROVE  Settled
    <2> DEFINE s == IF tf_trapno >= offset /\ pic[k].isr # {}
                    THEN pic[k].isr \ {Min(pic[k].isr)} ELSE pic[k].isr
    <2>1. /\ pic' \in [1..2 -> Pic]
          /\ Lit(k, pic[k].irr, s)
          /\ \A j \in (1..2) \ {k} : Lit(j, pic[j].irr, pic[j].isr)
      BY <1>2, Acknowledged
    <2> HIDE DEF s
    <2>2. CASE k = 1
      <3>1. 2 \in (1..2) \ {k}
        BY <2>2
      <3>2. QED
        BY <1>0, <2>1, <2>2, <3>1, LitSettled
    <2>3. CASE k = 2
      <3>1. 1 \in (1..2) \ {k}
        BY <2>3
      <3>2. QED
        BY <1>0, <2>1, <2>3, <3>1, LitSettled
    <2>4. QED
      BY <2>2, <2>3
  <1>3. CASE alltraps \/ Middle \/ trapret
    <2>1. UNCHANGED <<icw, a, firmware>>
      BY <1>3 DEF Middle, history, alltraps, trap_handler, trap_announce, trap_callback, keyboard_handler,
             keyboard_log, x86_pic_eoi_1, x86_pic_eoi_2, eoi_from, trapret, return_with
    <2>2. UNCHANGED pic \/ x86_pic_eoi_1 \/ x86_pic_eoi_2
      BY <1>3 DEF Middle, alltraps, trap_handler, trap_announce, trap_callback, keyboard_handler,
             keyboard_log, trapret, return_with
    <2>3. x86_pic_eoi_1 \/ x86_pic_eoi_2 => Settled
      BY <1>2 DEF x86_pic_eoi_1, x86_pic_eoi_2
    <2>4. QED
      BY <1>1, <2>1, <2>2, <2>3
  <1>4. CASE iret
    <2>1. UNCHANGED <<pic, icw, a, firmware>>
      BY <1>4 DEF iret
    <2>2. QED
      BY <1>1, <2>1
  <1>5. CASE Traps
    <2>1. UNCHANGED <<icw, a, firmware>>
      <3>1. PICK v \in 0..47 : Deliver(v)
        BY <1>5, TrapMoves
      <3>2. QED
        BY <3>1 DEF Deliver
    <2>2. CASE interrupt
      <3>1. pic' \in [1..2 -> Pic]
        BY <2>2, InterruptMoves
      <3>2. PICK n \in 0..7 :
              \/ /\ Lit(1, pic[1].irr \ {n}, pic[1].isr \cup {n})
                 /\ Lit(2, pic[2].irr, pic[2].isr)
              \/ /\ Lit(1, pic[1].irr, pic[1].isr \cup {2})
                 /\ Lit(2, pic[2].irr \ {n}, pic[2].isr \cup {n})
        BY <2>2, InterruptMoves
      <3>3. 2 \notin pic[1].irr \ {n}
        BY <1>0
      <3>4. QED
        BY <1>0, <2>1, <3>1, <3>2, <3>3, LitSettled
    <2>3. ASSUME NEW v \in Exceptions, exception(v)
          PROVE  UNCHANGED pic
      BY <2>3 DEF exception
    <2>4. ASSUME NEW k \in 1..2, spurious(k)
          PROVE  Settled
      <3>1. /\ pic' \in [1..2 -> Pic]
            /\ Lit(1, pic[1].irr, IF k = 1 THEN pic[1].isr ELSE pic[1].isr \cup {2})
            /\ Lit(2, pic[2].irr, pic[2].isr)
        BY <2>4, SpuriousMoves
      <3>2. QED
        BY <1>0, <3>1, LitSettled
    <2>5. QED
      BY <1>1, <1>5, <2>1, <2>2, <2>3, <2>4 DEF Traps
  <1>6. CASE Devices
    <2>1. UNCHANGED <<icw, a, firmware>>
      BY <1>6 DEF Devices, idle, vars, history, tick, press
    <2>2. CASE idle
      <3>1. UNCHANGED pic
        BY <2>2 DEF idle, vars
      <3>2. QED
        BY <1>1, <2>1, <3>1
    <2>3. ASSUME NEW line \in (0..15) \ {2}, pic' = Raise(pic, line)
          PROVE  Settled
      <3> DEFINE irr == IF line < 8 THEN pic[1].irr \cup {line} ELSE pic[1].irr
                 irr2 == IF line < 8 THEN pic[2].irr ELSE pic[2].irr \cup {line % 8}
      <3>1. /\ pic' \in [1..2 -> Pic] /\ Lit(1, irr, pic[1].isr) /\ Lit(2, irr2, pic[2].isr)
        BY <2>3, Raised
      <3>2. 2 \notin irr
        BY <1>0
      <3> HIDE DEF irr, irr2
      <3>3. QED
        BY <3>1, <3>2, LitSettled
    <2>4. ASSUME NEW line \in Lines, tick(line)
          PROVE  Settled
      <3>1. line \in (0..15) \ {2} /\ pic' = Raise(pic, line)
        BY <2>4, TrapAssumption DEF tick
      <3>2. QED
        BY <2>3, <3>1
    <2>5. ASSUME NEW key \in Keys, press(key)
          PROVE  Settled
      <3>1. 1 \in (0..15) \ {2} /\ pic' = Raise(pic, 1)
        BY <2>5 DEF press
      <3>2. QED
        BY <2>3, <3>1
    <2>6. QED
      BY <1>6, <2>1, <2>2, <2>4, <2>5 DEF Devices
  <1>7. QED
    BY <1>3, <1>4, <1>5, <1>6, NextCases

\* A step of x86_pic_remap: the write goes to the controllers in turn.
LEMMA RemapWrites ==
  ASSUME icw \in 1..10
  PROVE  \E k \in 1..2 :
           /\ remap_writes[icw][1] = k
           /\ \/ icw = k
              \/ icw = k + 2 /\ remap_writes[icw][2] = Offset(k)
              \/ icw = k + 4
              \/ icw = k + 6
              \/ icw = k + 8 /\ remap_writes[icw][2] = a[k]
  <1> DEFINE w == remap_writes
  <1>1. /\ w[1] = <<1, "icw1">> /\ w[2] = <<2, "icw1">>
        /\ w[3] = <<1, X86_PIC1_OFFSET>> /\ w[4] = <<2, X86_PIC2_OFFSET>>
        /\ w[5] = <<1, 4>> /\ w[6] = <<2, 2>> /\ w[7] = <<1, 1>> /\ w[8] = <<2, 1>>
        /\ w[9] = <<1, a[1]>> /\ w[10] = <<2, a[2]>>
    BY DEF remap_writes, writes
  <1>2. Offset(1) = X86_PIC1_OFFSET /\ Offset(2) = X86_PIC2_OFFSET
    BY DEF Offset
  <1> HIDE DEF w
  <1>3. CASE icw \in {1, 3, 5, 7, 9}
    <2>1. /\ w[icw][1] = 1
          /\ icw = 3 => w[icw][2] = Offset(1)
          /\ icw = 9 => w[icw][2] = a[1]
          /\ icw = 1 \/ icw = 1 + 2 \/ icw = 1 + 4 \/ icw = 1 + 6 \/ icw = 1 + 8
      BY <1>1, <1>2, <1>3
    <2>2. QED
      BY <2>1 DEF w
  <1>4. CASE icw \in {2, 4, 6, 8, 10}
    <2>1. /\ w[icw][1] = 2
          /\ icw = 4 => w[icw][2] = Offset(2)
          /\ icw = 10 => w[icw][2] = a[2]
          /\ icw = 2 \/ icw = 2 + 2 \/ icw = 2 + 4 \/ icw = 2 + 6 \/ icw = 2 + 8
      BY <1>1, <1>2, <1>4
    <2>2. QED
      BY <2>1 DEF w
  <1>5. QED
    BY <1>3, <1>4

\* What a controller makes of the words of its initialisation.
LEMMA PicWords ==
  ASSUME NEW p \in Pic, NEW value
  PROVE  /\ LET q == pic_icw1(p)
            IN  q \in Pic /\ q.expect = "icw2" /\ q.isr = {} /\ q.irr = {}
         /\ p.expect = "icw2" /\ value \in Nat =>
              LET q == pic_data(p, value)
              IN  /\ q \in Pic /\ q.expect = "icw3" /\ q.base = value
                  /\ q.isr = p.isr /\ q.irr = p.irr
         /\ p.expect = "icw3" =>
              LET q == pic_data(p, value)
              IN  /\ q \in Pic /\ q.expect = "icw4" /\ q.base = p.base
                  /\ q.isr = p.isr /\ q.irr = p.irr
         /\ p.expect = "icw4" =>
              LET q == pic_data(p, value)
              IN  /\ q \in Pic /\ q.expect = "ocw" /\ q.base = p.base
                  /\ q.isr = p.isr /\ q.irr = p.irr
         /\ p.expect = "ocw" /\ value \in SUBSET (0..7) =>
              LET q == pic_data(p, value)
              IN  /\ q \in Pic /\ q.expect = "ocw" /\ q.base = p.base /\ q.imr = value
                  /\ q.isr = p.isr /\ q.irr = p.irr
  <1>1. LET q == pic_icw1(p)
        IN  q \in Pic /\ q.expect = "icw2" /\ q.isr = {} /\ q.irr = {}
    BY DEF pic_icw1, Pic
  <1>2. ASSUME p.expect = "icw2", value \in Nat
        PROVE  LET q == pic_data(p, value)
               IN  /\ q \in Pic /\ q.expect = "icw3" /\ q.base = value
                   /\ q.isr = p.isr /\ q.irr = p.irr
    <2>1. pic_data(p, value) = [p EXCEPT !.base = value, !.expect = "icw3"]
      BY <1>2 DEF pic_data
    <2>2. QED
      BY <1>2, <2>1 DEF Pic
  <1>3. ASSUME p.expect = "icw3"
        PROVE  LET q == pic_data(p, value)
               IN  /\ q \in Pic /\ q.expect = "icw4" /\ q.base = p.base
                   /\ q.isr = p.isr /\ q.irr = p.irr
    <2>1. pic_data(p, value) = [p EXCEPT !.expect = "icw4"]
      BY <1>3 DEF pic_data
    <2>2. QED
      BY <2>1 DEF Pic
  <1>4. ASSUME p.expect = "icw4"
        PROVE  LET q == pic_data(p, value)
               IN  /\ q \in Pic /\ q.expect = "ocw" /\ q.base = p.base
                   /\ q.isr = p.isr /\ q.irr = p.irr
    <2>1. pic_data(p, value) = [p EXCEPT !.expect = "ocw"]
      BY <1>4 DEF pic_data
    <2>2. QED
      BY <2>1 DEF Pic
  <1>5. ASSUME p.expect = "ocw", value \in SUBSET (0..7)
        PROVE  LET q == pic_data(p, value)
               IN  /\ q \in Pic /\ q.expect = "ocw" /\ q.base = p.base /\ q.imr = value
                   /\ q.isr = p.isr /\ q.irr = p.irr
    <2>1. pic_data(p, value) = [p EXCEPT !.imr = value]
      BY <1>5 DEF pic_data
    <2>2. QED
      BY <1>5, <2>1 DEF Pic
  <1>6. QED
    BY <1>1, <1>2, <1>3, <1>4, <1>5

\* The controller that is written to, and the other one.
Phase(k, q) ==
  \/ icw = k /\ q.expect = "icw2"
  \/ icw = k + 2 /\ q.expect = "icw3" /\ q.base = Offset(k)
  \/ icw = k + 4 /\ q.expect = "icw4" /\ q.base = Offset(k)
  \/ icw = k + 6 /\ q.expect = "ocw" /\ q.base = Offset(k)
  \/ icw = k + 8 /\ q.expect = "ocw" /\ q.base = Offset(k) /\ q.imr = firmware[k]

LEMMA RemapStep ==
  ASSUME Inv, x86_pic_remap
  PROVE  \E k \in 1..2 :
           /\ pic' \in [1..2 -> Pic]
           /\ \A j \in (1..2) \ {k} : pic'[j] = pic[j]
           /\ Phase(k, pic'[k])
           /\ pic'[k].isr \subseteq pic[k].isr /\ pic'[k].irr \subseteq pic[k].irr
  <1>1. icw \in 1..10
    BY DEF x86_pic_remap, Inv, PicInv
  <1>2. PICK k \in 1..2 :
           /\ remap_writes[icw][1] = k
           /\ \/ icw = k
              \/ icw = k + 2 /\ remap_writes[icw][2] = Offset(k)
              \/ icw = k + 4
              \/ icw = k + 6
              \/ icw = k + 8 /\ remap_writes[icw][2] = a[k]
    BY <1>1, RemapWrites
  <1> DEFINE p == pic[k]
             value == remap_writes[icw][2]
             q == IF icw <= 2 THEN pic_icw1(p) ELSE pic_data(p, value)
  <1>3. pic' = [pic EXCEPT ![k] = q]
    BY <1>2 DEF x86_pic_remap
  <1>4. /\ p \in Pic /\ pic \in [1..2 -> Pic]
        /\ p.expect = Expected(k)
        /\ icw > k + 2 => p.base = Offset(k)
        /\ a = firmware /\ firmware \in [1..2 -> SUBSET (0..7)]
    BY <1>1 DEF Inv, PicInv
  <1>5. Offset(k) \in Nat
    BY DEF Offset, X86_PIC1_OFFSET, X86_PIC2_OFFSET
  <1> HIDE DEF p, value
  <1>6. q \in Pic /\ Phase(k, q) /\ q.isr \subseteq p.isr /\ q.irr \subseteq p.irr
    <2>1. CASE icw = k
      <3>1. icw <= 2
        BY <2>1
      <3>2. QED
        BY <1>4, <2>1, <3>1, PicWords DEF Phase
    <2>2. CASE icw = k + 2 /\ value = Offset(k)
      <3>1. ~(icw <= 2) /\ p.expect = "icw2"
        BY <1>4, <2>2 DEF Expected
      <3>2. QED
        BY <1>4, <1>5, <2>2, <3>1, PicWords DEF Phase
    <2>3. CASE icw = k + 4
      <3>1. ~(icw <= 2) /\ p.expect = "icw3" /\ p.base = Offset(k)
        BY <1>4, <2>3 DEF Expected
      <3>2. QED
        BY <1>4, <2>3, <3>1, PicWords DEF Phase
    <2>4. CASE icw = k + 6
      <3>1. ~(icw <= 2) /\ p.expect = "icw4" /\ p.base = Offset(k)
        BY <1>4, <2>4 DEF Expected
      <3>2. QED
        BY <1>4, <2>4, <3>1, PicWords DEF Phase
    <2>5. CASE icw = k + 8 /\ value = a[k]
      <3>1. ~(icw <= 2) /\ p.expect = "ocw" /\ p.base = Offset(k)
        BY <1>4, <2>5 DEF Expected
      <3>2. value = firmware[k] /\ value \in SUBSET (0..7)
        BY <1>4, <2>5
      <3>3. QED
        BY <1>4, <2>5, <3>1, <3>2, PicWords DEF Phase
    <2>6. QED
      BY <1>2, <2>1, <2>2, <2>3, <2>4, <2>5 DEF value
  <1> HIDE DEF q
  <1>7. pic' \in [1..2 -> Pic] /\ pic'[k] = q /\ \A j \in (1..2) \ {k} : pic'[j] = pic[j]
    BY <1>3, <1>4, <1>6
  <1>8. QED
    BY <1>6, <1>7 DEF p

LEMMA PicKept ==
  ASSUME Inv, Next
  PROVE  PicInv'
  <1>0. PicInv
    BY DEF Inv
  <1>1. CASE ~Boot
    <2>1. Settled /\ UNCHANGED <<icw, a, firmware, Here>>
      BY <1>1, PicSettled, CodeStays
    <2>2. QED
      BY <1>0, <2>1 DEF PicInv, Settled, Expected
  <1>2. CASE Boot
    <2>0. Here = cpu.ip /\ Here' = cpu'.ip
      BY <1>2, BootHere
    <2>1. ASSUME UNCHANGED <<pic, icw, a, firmware>>, icw = 0,
                 Here' \in {"x86_idt_enable"} \cup Late \cup Ready =>
                   Here \in {"x86_idt_enable"} \cup Late \cup Ready
          PROVE  PicInv'
      BY <1>0, <2>1 DEF PicInv, Expected
    <2>2. CASE trap_init \/ x86_lidt \/ x86_idt_enable \/ segments_clear \/ segments_set \/ x86_lgdt
      <3>1. UNCHANGED <<pic, icw, a, firmware>>
        BY <2>2 DEF trap_init, set_gates, x86_lidt, load, x86_idt_enable, enable, segments_clear,
               segments_set, x86_lgdt, history
      <3>2. \/ Goto("trap_init", "x86_lidt") \/ Goto("x86_lidt", "x86_pic_remap")
            \/ Goto("x86_idt_enable", "segments_init") \/ Goto("segments_init", "x86_gdt_set")
            \/ Goto("x86_gdt_set", "x86_gdt_set") \/ Goto("x86_gdt_set", "x86_lgdt")
            \/ Goto("x86_lgdt", "mov_ds")
        BY <2>2 DEF trap_init, set_gates, x86_lidt, load, x86_idt_enable, enable, segments_clear,
               segments_set, x86_lgdt
      <3>3. /\ cpu.ip # "x86_pic_remap"
            /\ \/ cpu'.ip \in {"x86_lidt", "x86_pic_remap"}
               \/ cpu.ip \in {"x86_idt_enable"} \cup Late
        BY <3>2, GotoIp DEF Late
      <3>4. icw = 0
        BY <1>0, <2>0, <3>3 DEF PicInv
      <3>5. QED
        BY <2>0, <2>1, <3>1, <3>3, <3>4 DEF Late, Ready
    <2>3. CASE x86_lgdt_reload \/ sti
      <3>1. UNCHANGED <<pic, icw, a, firmware>>
        BY <2>3 DEF x86_lgdt_reload, reload, sti, history
      <3>2. cpu.ip \in Ready
        BY <2>3, ReloadIp DEF sti, Ready
      <3>3. icw = 0
        BY <1>0, <2>0, <3>2 DEF PicInv, Ready
      <3>4. QED
        BY <2>0, <2>1, <3>1, <3>2, <3>3
    <2>4. CASE x86_pic_remap_save
      <3>1. /\ cpu.ip = "x86_pic_remap" /\ icw = 0 /\ icw' = 1
            /\ a' = [k \in 1..2 |-> pic[k].imr]
            /\ UNCHANGED <<cpu, pic, firmware>>
        BY <2>4 DEF x86_pic_remap_save, history
      <3>2. \A k \in 1..2 : pic[k].imr = firmware[k] /\ pic[k].expect = "ocw"
        BY <1>0, <3>1 DEF PicInv, Expected
      <3>3. a' = firmware
        BY <1>0, <3>1, <3>2 DEF PicInv
      <3>4. Here' = "x86_pic_remap"
        BY <2>0, <3>1
      <3>5. \A k \in 1..2 : Expected(k)' = "ocw"
        BY <3>1 DEF Expected
      <3>6. QED
        BY <1>0, <3>1, <3>2, <3>3, <3>4, <3>5 DEF PicInv, Late, Ready
    <2>5. CASE x86_pic_remap
      <3>1. /\ cpu.ip = "x86_pic_remap" /\ icw > 0
            /\ icw' = IF icw = 10 THEN 0 ELSE icw + 1
            /\ cpu' = IF icw = 10 THEN [cpu EXCEPT !.ip = "x86_idt_enable"] ELSE cpu
            /\ UNCHANGED <<a, firmware>>
        BY <2>5 DEF x86_pic_remap, history
      <3>2. icw \in 1..10
        BY <1>0, <3>1 DEF PicInv
      <3>3. Here' = IF icw = 10 THEN "x86_idt_enable" ELSE "x86_pic_remap"
        <4>1. cpu \in Regs
          BY DEF Inv, TypeInv
        <4>2. QED
          BY <2>0, <3>1, <4>1 DEF Regs
      <3>4. PICK k \in 1..2 :
              /\ pic' \in [1..2 -> Pic]
              /\ \A j \in (1..2) \ {k} : pic'[j] = pic[j]
              /\ Phase(k, pic'[k])
              /\ pic'[k].isr \subseteq pic[k].isr /\ pic'[k].irr \subseteq pic[k].irr
        BY <2>5, RemapStep
      <3>5. /\ pic'[k].expect = Expected(k)'
            /\ icw' <= k \/ icw' > k + 8 => pic'[k].imr = firmware[k]
            /\ icw' > k + 2 \/ Here' \in {"x86_idt_enable"} \cup Late \cup Ready => pic'[k].base = Offset(k)
        BY <3>1, <3>2, <3>3, <3>4 DEF Phase, Expected, Late, Ready
      <3>6. ASSUME NEW j \in (1..2) \ {k}
            PROVE  /\ pic'[j].expect = Expected(j)'
                   /\ icw' <= j \/ icw' > j + 8 => pic'[j].imr = firmware[j]
                   /\ icw' > j + 2 \/ Here' \in {"x86_idt_enable"} \cup Late \cup Ready
                        => pic'[j].base = Offset(j)
        <4>1. /\ pic'[j] = pic[j]
              /\ pic[j].expect = Expected(j)
              /\ icw <= j \/ icw > j + 8 => pic[j].imr = firmware[j]
              /\ icw > j + 2 => pic[j].base = Offset(j)
          BY <1>0, <3>4 DEF PicInv
        <4>2. icw \in {k, k + 2, k + 4, k + 6, k + 8}
          BY <3>4 DEF Phase
        <4>3. QED
          BY <3>1, <3>2, <3>3, <4>1, <4>2 DEF Expected, Late, Ready
      <3>7. 2 \notin pic'[1].irr
        BY <1>0, <3>4 DEF PicInv
      <3>8. icw' \in 0..10 /\ (icw' > 0 => Here' = "x86_pic_remap") /\ (icw' > 0 => a' = firmware')
        BY <1>0, <3>1, <3>2, <3>3 DEF PicInv
      <3>9. firmware' \in [1..2 -> SUBSET (0..7)] /\ firmware' = firmware
        BY <1>0, <3>1 DEF PicInv
      <3>10. \A j \in 1..2 :
               /\ pic'[j].expect = Expected(j)'
               /\ icw' <= j \/ icw' > j + 8 => pic'[j].imr = firmware'[j]
               /\ icw' > j + 2 \/ Here' \in {"x86_idt_enable"} \cup Late \cup Ready => pic'[j].base = Offset(j)
        BY <3>5, <3>6, <3>9
      <3>11. QED
        BY <3>4, <3>7, <3>8, <3>9, <3>10 DEF PicInv, Offset
    <2>6. QED
      BY <1>2, <2>2, <2>3, <2>4, <2>5 DEF Boot
  <1>3. QED
    BY <1>1, <1>2

-----------------------------------------------------------------------------
(* What the first trap has in service. *)

\* A step above the first handler, or beside it.
Deep ==
  /\ Len(Levels) # 1 /\ Len(Levels') # 1
  /\ Len(Levels) > 1 /\ Len(Levels') > 1
  /\ Levels'[2] = Levels[2]
  /\ Levels[2].ip # "iret" => stack'[5] = stack[5]

LEMMA DeepWithin ==
  ASSUME Within, Len(Levels) # 2
  PROVE  Deep
  <1>1. Len(Levels) \in Nat \ {0, 1} /\ Len(Levels') = Len(Levels)
    BY DEF Within
  <1>2. \A n \in Nat \ {0, 1} : n # 2 => n > 1 /\ n # 1 /\ 2 \in 1..(n - 1)
    OBVIOUS
  <1>3. Len(Levels) > 1 /\ Len(Levels) # 1 /\ 2 \in 1..(Len(Levels) - 1)
    BY <1>1, <1>2
  <1>4. Levels'[2] = Levels[2] /\ (Levels[2].ip # "iret" /\ Levels'[2].ip # "iret" => stack'[5] = stack[5])
    BY <1>3 DEF Within
  <1>5. QED
    BY <1>1, <1>3, <1>4 DEF Deep

LEMMA DeepInto ==
  ASSUME NEW v, Into(v), Len(Levels) # 1
  PROVE  Deep
  <1>1. Len(Levels) \in Nat \ {0} /\ Len(Levels') = Len(Levels) + 1
    BY DEF Into
  <1>2. \A n \in Nat \ {0} : n # 1 => n > 1 /\ n + 1 > 1 /\ n + 1 # 1 /\ 2 \in 1..n
    OBVIOUS
  <1>3. Len(Levels) > 1 /\ Len(Levels') > 1 /\ Len(Levels') # 1 /\ 2 \in 1..Len(Levels)
    BY <1>1, <1>2
  <1>4. Levels'[2] = Levels[2] /\ (Levels[2].ip # "iret" => stack'[5] = stack[5])
    BY <1>3 DEF Into
  <1>5. QED
    BY <1>1, <1>3, <1>4 DEF Deep

LEMMA DeepOutOf ==
  ASSUME OutOf, Len(Levels) # 2
  PROVE  Deep
  <1>1. Len(Levels) \in Nat \ {0, 1} /\ Len(Levels') = Len(Levels) - 1
    BY DEF OutOf
  <1>2. \A n \in Nat \ {0, 1} : n # 2 => n > 1 /\ n # 1 /\ n > 2 /\ n - 1 > 1 /\ n - 1 # 1 /\ 2 \in 1..(n - 1)
    OBVIOUS
  <1>3. /\ Len(Levels) > 1 /\ Len(Levels) # 1 /\ Len(Levels) > 2
        /\ Len(Levels') > 1 /\ Len(Levels') # 1 /\ 2 \in 1..(Len(Levels) - 1)
    BY <1>1, <1>2
  <1>4. Levels'[2] = Levels[2] /\ (Levels[2].ip # "iret" => stack'[5] = stack[5])
    BY <1>3 DEF OutOf
  <1>5. QED
    BY <1>3, <1>4 DEF Deep

\* The handler that runs is the first.
LEMMA FirstWithin ==
  ASSUME Within, Len(Levels) = 2
  PROVE  /\ Len(Levels') = 2
         /\ Levels[2] = cpu /\ Levels'[2] = cpu'
         /\ cpu.ip # "iret" /\ cpu'.ip # "iret" => stack'[5] = stack[5]
  BY DEF Within

LEMMA DeepService ==
  ASSUME Deep \/ UNCHANGED <<Levels, stack>>, NEW k \in 1..2
  PROVE  InService(k)' = InService(k)
  <1>1. CASE UNCHANGED <<Levels, stack>>
    BY <1>1 DEF InService
  <1>2. CASE Deep /\ Levels[2].ip = "iret"
    BY <1>2 DEF Deep, InService, Closed
  <1>3. CASE Deep /\ Levels[2].ip # "iret"
    BY <1>3 DEF Deep, InService
  <1>4. QED
    BY <1>1, <1>2, <1>3 DEF Deep

\* One line at most is in service.
LEMMA OneInService ==
  ASSUME NEW k \in 1..2
  PROVE  InService(k) = {} \/ \E n : InService(k) = {n}
  BY DEF InService, Served

LEMMA LastInService ==
  ASSUME NEW S \in SUBSET (0..7), NEW n, S \subseteq {n}, S # {}
  PROVE  S \ {Min(S)} = {} /\ Min(S) = n /\ n \in 0..7
  BY MinOfLines

\* A step of the first handler before or after its ends of interrupt, or of
\* any other handler.
LEMMA WithinService ==
  ASSUME Within, NEW k \in 1..2,
         Len(Levels) = 2 => cpu.ip \notin Closed /\ cpu'.ip \notin Closed
  PROVE  InService(k)' = InService(k)
  <1>1. CASE Len(Levels) # 2
    BY <1>1, DeepWithin, DeepService
  <1>2. CASE Len(Levels) = 2
    <2>1. /\ Len(Levels') = 2 /\ Levels[2] = cpu /\ Levels'[2] = cpu'
          /\ cpu.ip # "iret" /\ cpu'.ip # "iret" => stack'[5] = stack[5]
      BY <1>2, FirstWithin
    <2>2. cpu.ip \notin Closed /\ cpu'.ip \notin Closed
      BY <1>2
    <2>3. stack'[5] = stack[5] /\ cpu.ip # "eoi2" /\ cpu'.ip # "eoi2"
      BY <2>1, <2>2 DEF Closed
    <2>4. QED
      BY <1>2, <2>1, <2>2, <2>3 DEF InService
  <1>3. QED
    BY <1>1, <1>2

\* An end of interrupt of a handler that is not the first's changes nothing.
LEMMA DeepAcknowledged ==
  ASSUME Inv, NEW j \in 1..2, NEW here, NEW there, NEW offset \in Nat, offset >= X86_PIC1_OFFSET,
         eoi_from(j, here, there, offset), here \in {"eoi1", "eoi2"}, Len(Levels) # 2,
         NEW k \in 1..2
  PROVE  pic'[k].isr = pic[k].isr
  <1>1. Nested /\ cpu.ip = here
    BY DEF Inv, Nested, eoi_from, Goto
  <1>2. cpu.ip \in HandlerIp \ {"alltraps", "iret"}
    BY <1>1 DEF HandlerIp, Open, Closed
  <1>3. Len(Levels) \in Nat \ {0, 1} /\ tf_trapno \in Nat
        /\ (Len(Levels) > 2 => tf_trapno < X86_PIC1_OFFSET)
    BY <1>1, <1>2, TheTrapno
  <1>4. \A n \in Nat \ {0, 1} : n # 2 => n > 2
    OBVIOUS
  <1>5. tf_trapno \in Nat /\ tf_trapno < X86_PIC1_OFFSET
    BY <1>3, <1>4
  <1>6. ~(tf_trapno >= offset)
    BY <1>5 DEF X86_PIC1_OFFSET
  <1>7. QED
    BY <1>6 DEF eoi_from

\* The end of interrupt of the first handler ends what its trap put in
\* service at that controller.
LEMMA FirstAcknowledged ==
  ASSUME Inv, NEW k \in 1..2, NEW here, NEW there, eoi_from(k, here, there, Offset(k)),
         here = IF k = 1 THEN "eoi1" ELSE "eoi2", Len(Levels) = 2
  PROVE  pic'[k].isr = {}
  <1>1. Nested /\ cpu.ip = here
    BY DEF Inv, Nested, eoi_from, Goto
  <1>2. cpu.ip \in HandlerIp \ {"alltraps", "iret"}
    BY <1>1 DEF HandlerIp, Open, Closed
  <1>3. tf_trapno \in Nat /\ tf_trapno = stack[5]
    BY <1>1, <1>2, TheTrapno
  <1>4. Levels[2] = cpu
    BY LevelsType DEF Inv, TypeInv
  <1>5. pic[k].isr \subseteq Served(tf_trapno, k)
    <2>1. InService(k) = Served(stack[5], k)
      BY <1>1, <1>4 DEF InService, Closed
    <2>2. QED
      BY <1>3, <2>1 DEF Inv, ServiceInv
  <1>6. Lit(k, pic[k].irr, IF tf_trapno >= Offset(k) /\ pic[k].isr # {}
                           THEN pic[k].isr \ {Min(pic[k].isr)} ELSE pic[k].isr)
    BY Acknowledged
  <1>7. pic[k].isr \in SUBSET (0..7)
    BY PicTypes DEF Pic
  <1>8. CASE tf_trapno >= Offset(k) /\ pic[k].isr # {}
    <2>1. \E n : Served(tf_trapno, k) \subseteq {n}
      BY DEF Served
    <2>2. PICK n : pic[k].isr \subseteq {n}
      BY <1>5, <2>1
    <2>3. pic[k].isr \ {Min(pic[k].isr)} = {}
      BY <1>7, <1>8, <2>2, LastInService
    <2>4. QED
      BY <1>6, <1>8, <2>3 DEF Lit
  <1>9. CASE ~(tf_trapno >= Offset(k))
    <2>1. Served(tf_trapno, k) = {}
      BY <1>3, <1>9 DEF Served, Offset, X86_PIC1_OFFSET, X86_PIC2_OFFSET
    <2>2. QED
      BY <1>5, <1>6, <1>9, <2>1 DEF Lit
  <1>10. CASE pic[k].isr = {}
    BY <1>6, <1>10 DEF Lit
  <1>11. QED
    BY <1>8, <1>9, <1>10

\* An end of interrupt, in any handler.
LEMMA EoiService ==
  ASSUME Inv, x86_pic_eoi_1 \/ x86_pic_eoi_2, NEW k \in 1..2
  PROVE  pic'[k].isr \subseteq InService(k)'
  <1>1. Nested' /\ Within
    BY WithinKind DEF Middle
  <1>2. pic[k].isr \subseteq InService(k)
    BY DEF Inv, ServiceInv
  <1>3. CASE Len(Levels) # 2
    <2>1. InService(k)' = InService(k)
      BY <1>1, <1>3, WithinService
    <2>2. CASE x86_pic_eoi_1
      <3>1. pic'[k].isr = pic[k].isr
        BY <1>3, <2>2, DeepAcknowledged DEF x86_pic_eoi_1, X86_PIC1_OFFSET
      <3>2. QED
        BY <1>2, <2>1, <3>1
    <2>3. CASE x86_pic_eoi_2
      <3>1. pic'[k].isr = pic[k].isr
        BY <1>3, <2>3, DeepAcknowledged DEF x86_pic_eoi_2, X86_PIC1_OFFSET, X86_PIC2_OFFSET
      <3>2. QED
        BY <1>2, <2>1, <3>1
    <2>4. QED
      BY <2>2, <2>3
  <1>4. CASE Len(Levels) = 2
    <2>1. /\ Len(Levels') = 2 /\ Levels[2] = cpu /\ Levels'[2] = cpu'
          /\ cpu.ip # "iret" /\ cpu'.ip # "iret" => stack'[5] = stack[5]
      BY <1>1, <1>4, FirstWithin
    <2>2. CASE x86_pic_eoi_1
      <3>1. eoi_from(1, "eoi1", "eoi2", Offset(1))
        BY <2>2 DEF x86_pic_eoi_1, Offset
      <3>2. pic'[1].isr = {}
        BY <1>4, <3>1, FirstAcknowledged
      <3>3. Lit(2, pic[2].irr, pic[2].isr)
        BY <3>1, Acknowledged
      <3>4. cpu.ip = "eoi1" /\ cpu'.ip = "eoi2"
        BY <3>1, GotoIp DEF eoi_from
      <3>5. InService(2)' = InService(2)
        BY <1>4, <2>1, <3>4 DEF InService, Closed
      <3>6. QED
        BY <1>2, <3>2, <3>3, <3>5 DEF Lit
    <2>3. CASE x86_pic_eoi_2
      <3>1. eoi_from(2, "eoi2", "trapret", Offset(2))
        BY <2>3 DEF x86_pic_eoi_2, Offset
      <3>2. pic'[2].isr = {}
        BY <1>4, <3>1, FirstAcknowledged
      <3>3. Lit(1, pic[1].irr, pic[1].isr)
        BY <3>1, Acknowledged
      <3>4. cpu.ip = "eoi2"
        BY <3>1, GotoIp DEF eoi_from
      <3>5. InService(1) = {}
        BY <1>4, <2>1, <3>4 DEF InService
      <3>6. QED
        BY <1>2, <3>2, <3>3, <3>5 DEF Lit
    <2>4. QED
      BY <2>2, <2>3
  <1>5. QED
    BY <1>3, <1>4

\* A trap that arrives in kmain finds nothing in service.
LEMMA FirstService ==
  ASSUME Inv, NEW v \in 0..47, Deliver(v), Traps, Len(Levels) = 1, NEW k \in 1..2
  PROVE  InService(k)' = Served(v, k) /\ pic[k].isr = {}
  <1>1. Into(v)
    BY IntoKind
  <1>2. Len(Levels') = 2 /\ Levels'[2].ip = "alltraps" /\ stack'[5] = v
    BY <1>1 DEF Into
  <1>3. InService(k)' = Served(v, k)
    BY <1>2 DEF InService, Closed
  <1>4. InService(k) = {} /\ pic[k].isr \subseteq InService(k)
    BY DEF InService, Inv, ServiceInv
  <1>5. QED
    BY <1>3, <1>4

LEMMA TrapsService ==
  ASSUME Inv, Traps, NEW k \in 1..2
  PROVE  pic'[k].isr \subseteq InService(k)'
  <1>1. Nested /\ (cpu.ip = "idle" => cpu.ip \in KernelIp)
    BY DEF Inv, Nested, KernelIp, Ready
  <1>2. CASE interrupt
    <2>1. Len(Levels) = 1
      BY <1>1, <1>2, InterruptMoves, AtKernel
    <2>2. PICK n \in 0..7 :
              \/ /\ n \in pic[1].irr /\ n # 2
                 /\ Deliver(X86_PIC1_OFFSET + n)
                 /\ Lit(1, pic[1].irr \ {n}, pic[1].isr \cup {n})
                 /\ Lit(2, pic[2].irr, pic[2].isr)
              \/ /\ Deliver(X86_PIC2_OFFSET + n)
                 /\ Lit(1, pic[1].irr, pic[1].isr \cup {2})
                 /\ Lit(2, pic[2].irr \ {n}, pic[2].isr \cup {n})
      BY <1>2, InterruptMoves
    <2>3. CASE /\ Deliver(X86_PIC1_OFFSET + n)
               /\ Lit(1, pic[1].irr \ {n}, pic[1].isr \cup {n})
               /\ Lit(2, pic[2].irr, pic[2].isr)
      <3>1. X86_PIC1_OFFSET + n \in 0..47 /\ Traps
        BY <2>2 DEF X86_PIC1_OFFSET
      <3>2. /\ InService(1)' = Served(X86_PIC1_OFFSET + n, 1) /\ pic[1].isr = {}
            /\ InService(2)' = Served(X86_PIC1_OFFSET + n, 2) /\ pic[2].isr = {}
        BY <2>1, <2>3, <3>1, FirstService
      <3>3. Served(X86_PIC1_OFFSET + n, 1) = {n}
        BY <2>2 DEF Served, X86_PIC1_OFFSET, X86_PIC2_OFFSET
      <3>4. QED
        BY <2>3, <3>2, <3>3 DEF Lit
    <2>4. CASE /\ Deliver(X86_PIC2_OFFSET + n)
               /\ Lit(1, pic[1].irr, pic[1].isr \cup {2})
               /\ Lit(2, pic[2].irr \ {n}, pic[2].isr \cup {n})
      <3>1. X86_PIC2_OFFSET + n \in 0..47 /\ Traps
        BY <2>2 DEF X86_PIC2_OFFSET
      <3>2. /\ InService(1)' = Served(X86_PIC2_OFFSET + n, 1) /\ pic[1].isr = {}
            /\ InService(2)' = Served(X86_PIC2_OFFSET + n, 2) /\ pic[2].isr = {}
        BY <2>1, <2>4, <3>1, FirstService
      <3>3. Served(X86_PIC2_OFFSET + n, 1) = {2} /\ Served(X86_PIC2_OFFSET + n, 2) = {n}
        BY <2>2 DEF Served, X86_PIC1_OFFSET, X86_PIC2_OFFSET
      <3>4. QED
        BY <2>4, <3>2, <3>3 DEF Lit
    <2>5. QED
      BY <2>2, <2>3, <2>4
  <1>3. CASE \E v \in Exceptions : exception(v)
    <2>1. PICK v \in Exceptions : exception(v)
      BY <1>3
    <2>2. v \in 0..47 /\ v < X86_PIC1_OFFSET /\ Deliver(v) /\ UNCHANGED pic
      BY <2>1, TrapAssumption DEF exception, X86_PIC1_OFFSET
    <2>3. Lit(k, pic[k].irr, pic[k].isr)
      BY <2>2, PicUnchanged
    <2>4. CASE Len(Levels) # 1
      <3>1. Into(v)
        BY <2>2, IntoKind
      <3>2. InService(k)' = InService(k)
        BY <2>4, <3>1, DeepInto, DeepService
      <3>3. QED
        BY <2>3, <3>2 DEF Lit, Inv, ServiceInv
    <2>5. CASE Len(Levels) = 1
      <3>1. pic[k].isr = {}
        BY <2>2, <2>5, FirstService
      <3>2. QED
        BY <2>3, <3>1 DEF Lit
    <2>6. QED
      BY <2>4, <2>5
  <1>4. CASE \E j \in 1..2 : spurious(j)
    <2>1. PICK j \in 1..2 : spurious(j)
      BY <1>4
    <2>2. Len(Levels) = 1
      BY <1>1, <2>1, SpuriousMoves, AtKernel
    <2>3. /\ Deliver(IF j = 1 THEN 39 ELSE 47)
          /\ Lit(1, pic[1].irr, IF j = 1 THEN pic[1].isr ELSE pic[1].isr \cup {2})
          /\ Lit(2, pic[2].irr, pic[2].isr)
      BY <2>1, SpuriousMoves
    <2>4. (IF j = 1 THEN 39 ELSE 47) \in 0..47
      OBVIOUS
    <2>5. /\ InService(1)' = Served(IF j = 1 THEN 39 ELSE 47, 1) /\ pic[1].isr = {}
          /\ InService(2)' = Served(IF j = 1 THEN 39 ELSE 47, 2) /\ pic[2].isr = {}
      BY <2>2, <2>3, <2>4, FirstService
    <2>6. Served(47, 1) = {2}
      BY DEF Served, X86_PIC1_OFFSET, X86_PIC2_OFFSET
    <2>7. QED
      BY <2>3, <2>5, <2>6 DEF Lit
  <1>5. QED
    BY <1>2, <1>3, <1>4 DEF Traps

\* What is in service is what the first trap put there.
LEMMA ServiceKept ==
  ASSUME Inv, Next
  PROVE  ServiceInv'
  <1> SUFFICES ASSUME NEW k \in 1..2
               PROVE  pic'[k].isr \subseteq InService(k)'
    BY DEF ServiceInv
  <1>1. pic[k].isr \subseteq InService(k)
    BY DEF Inv, ServiceInv
  <1>2. CASE Boot
    <2>1. Len(Levels) = 1 /\ Len(Levels') = 1
      BY <1>2, BootKind DEF InKernel
    <2>2. pic'[k].isr \subseteq pic[k].isr
      <3>1. CASE x86_pic_remap
        BY <3>1, RemapStep
      <3>2. CASE UNCHANGED pic
        BY <3>2
      <3>3. QED
        BY <1>2, <3>1, <3>2
        DEF Boot, trap_init, set_gates, x86_lidt, load, x86_pic_remap_save, x86_idt_enable, enable, sti,
            segments_clear, segments_set, x86_lgdt, x86_lgdt_reload, reload
    <2>3. QED
      BY <1>1, <2>1, <2>2 DEF InService
  <1>3. CASE alltraps \/ trap_handler \/ trap_announce \/ trap_callback \/ keyboard_handler \/ keyboard_log
    <2>1. Within /\ cpu'.ip \in HandlerIp
      BY <1>3, WithinKind DEF Middle
    <2>2. UNCHANGED pic
      BY <1>3 DEF alltraps, trap_handler, trap_announce, trap_callback, keyboard_handler, keyboard_log
    <2>3. cpu.ip \in Open \ {"eoi1"}
      BY <1>3 DEF alltraps, trap_handler, trap_announce, trap_callback, keyboard_handler, keyboard_log,
                  Goto, Open
    <2>4. cpu'.ip \in Open
      <3>1. CASE alltraps
        BY <3>1, Saved DEF Inv, Open
      <3>2. CASE trap_handler
        BY <3>2 DEF trap_handler, Inv, TypeInv, Regs, Open
      <3>3. CASE trap_announce
        BY <3>3, GotoIp DEF trap_announce, Open
      <3>4. CASE keyboard_handler
        BY <3>4 DEF keyboard_handler, Inv, TypeInv, Regs, Open
      <3>5. CASE keyboard_log
        BY <3>5, GotoIp DEF keyboard_log, Open
      <3>6. CASE trap_callback
        <4>1. cpu'.ip = IF tf_trapno \in DOMAIN callback THEN callback[tf_trapno] ELSE "eoi1"
          BY <3>6, GotoIp DEF trap_callback
        <4>2. tf_trapno \in DOMAIN callback => callback[tf_trapno] = "keyboard_handler"
          BY DEF Inv, TablesInv, NoCallbacks
        <4>3. QED
          BY <4>1, <4>2 DEF Open
      <3>7. QED
        BY <1>3, <3>1, <3>2, <3>3, <3>4, <3>5, <3>6
    <2>5. cpu.ip \notin Closed /\ cpu'.ip \notin Closed
      BY <2>3, <2>4 DEF Open, Closed
    <2>6. InService(k)' = InService(k)
      BY <2>1, <2>5, WithinService
    <2>7. QED
      BY <1>1, <2>2, <2>6
  <1>4. CASE x86_pic_eoi_1 \/ x86_pic_eoi_2
    BY <1>4, EoiService
  <1>5. CASE trapret
    <2>1. Within /\ UNCHANGED pic
      BY <1>5, WithinKind DEF trapret, return_with
    <2>2. CASE Len(Levels) # 2
      BY <1>1, <2>1, <2>2, WithinService
    <2>3. CASE Len(Levels) = 2
      <3>1. Levels[2] = cpu /\ cpu.ip = "trapret"
        BY <1>5, <2>1, <2>3, FirstWithin DEF trapret, return_with
      <3>2. InService(k) = {}
        BY <3>1 DEF InService, Closed
      <3>3. QED
        BY <1>1, <2>1, <3>2
    <2>4. QED
      BY <2>2, <2>3
  <1>6. CASE iret
    <2>1. OutOf /\ UNCHANGED pic
      BY <1>6, OutOfKind DEF iret
    <2>2. CASE Len(Levels) # 2
      BY <1>1, <2>1, <2>2, DeepOutOf, DeepService
    <2>3. CASE Len(Levels) = 2
      <3>1. Levels[2] = cpu /\ cpu.ip = "iret"
        BY <2>1, <2>3 DEF OutOf
      <3>2. InService(k) = {}
        BY <3>1 DEF InService, Closed
      <3>3. QED
        BY <1>1, <2>1, <3>2
    <2>4. QED
      BY <2>2, <2>3
  <1>7. CASE Traps
    BY <1>7, TrapsService
  <1>8. CASE Devices
    <2>1. UNCHANGED <<Levels, stack>>
      BY <1>8, DevicesKind
    <2>2. InService(k)' = InService(k)
      BY <2>1, DeepService
    <2>3. pic'[k].isr = pic[k].isr
      <3>1. CASE idle
        BY <3>1 DEF idle, vars
      <3>2. CASE \E line \in Lines : tick(line)
        <4>1. PICK line \in Lines : tick(line)
          BY <3>2
        <4>2. line \in 0..15 /\ pic' = Raise(pic, line)
          BY <4>1, TrapAssumption DEF tick
        <4>3. QED
          BY <4>2, Raised DEF Lit
      <3>3. CASE \E key \in Keys : press(key)
        <4>1. pic' = Raise(pic, 1)
          BY <3>3 DEF press
        <4>2. QED
          BY <4>1, Raised DEF Lit
      <3>4. QED
        BY <1>8, <3>1, <3>2, <3>3 DEF Devices
    <2>4. QED
      BY <1>1, <2>2, <2>3
  <1>9. QED
    BY <1>2, <1>3, <1>4, <1>5, <1>6, <1>7, <1>8, NextCases DEF Middle

-----------------------------------------------------------------------------
(* What trap_handler announces. *)

\* Only trap_handler comes to where a trap is announced.
LEMMA AnnounceWithin ==
  ASSUME Inv, Within, UNCHANGED last_trapno, cpu'.ip # "announce"
  PROVE  AnnounceInv'
  <1> SUFFICES ASSUME last_trapno = X86_PIC1_OFFSET
               PROVE  /\ \A i \in 3..Len(Levels') : Levels'[i].ip # "announce"
                      /\ Len(Levels') > 1 /\ Levels'[2].ip = "announce" => stack'[5] = X86_PIC1_OFFSET
    BY DEF AnnounceInv
  <1>1. /\ \A i \in 3..Len(Levels) : Levels[i].ip # "announce"
        /\ Len(Levels) > 1 /\ Levels[2].ip = "announce" => stack[5] = X86_PIC1_OFFSET
    BY DEF Inv, AnnounceInv
  <1>2. /\ Len(Levels) \in Nat \ {0, 1} /\ Len(Levels') = Len(Levels)
        /\ \A i \in 1..(Len(Levels) - 1) : Levels'[i] = Levels[i]
        /\ Levels'[Len(Levels)] = cpu'
    BY DEF Within
  <1>3. \A n \in Nat \ {0, 1} : \A i \in 3..n : i = n \/ i \in 1..(n - 1)
    OBVIOUS
  <1>4. \A i \in 3..Len(Levels') : Levels'[i].ip # "announce"
    <2> TAKE i \in 3..Len(Levels')
    <2>1. i \in 3..Len(Levels) /\ (i = Len(Levels) \/ i \in 1..(Len(Levels) - 1))
      BY <1>2, <1>3
    <2>2. QED
      BY <1>1, <1>2, <2>1
  <1>5. ASSUME Len(Levels') > 1, Levels'[2].ip = "announce"
        PROVE  stack'[5] = X86_PIC1_OFFSET
    <2>1. Len(Levels) # 2
      BY <1>2, <1>5
    <2>2. Deep
      BY <2>1, DeepWithin
    <2>3. QED
      BY <1>1, <1>5, <2>2 DEF Deep
  <1>6. QED
    BY <1>4, <1>5

\* A trap is announced as the timer's when it is, or another is in progress
\* above it.
LEMMA AnnounceKept ==
  ASSUME Inv, Next
  PROVE  AnnounceInv'
  <1>1. last_trapno = X86_PIC1_OFFSET =>
          /\ \A i \in 3..Len(Levels) : Levels[i].ip # "announce"
          /\ Len(Levels) > 1 /\ Levels[2].ip = "announce" => stack[5] = X86_PIC1_OFFSET
    BY DEF Inv, AnnounceInv
  <1>2. CASE trap_handler
    <2>1. Nested /\ cpu.ip \in HandlerIp \ {"alltraps", "iret"}
      BY <1>2 DEF Inv, Nested, trap_handler, HandlerIp, Open
    <2>2. /\ Len(Levels) > 2 => tf_trapno < X86_PIC1_OFFSET
          /\ Len(Levels) = 2 => tf_trapno = stack[5]
          /\ Len(Levels) \in Nat \ {0, 1}
      BY <2>1, TheTrapno
    <2>3. Within /\ stack' = stack /\ last_trapno' = tf_trapno
      BY <1>2, WithinKind DEF Middle, trap_handler
    <2>4. \A n \in Nat \ {0, 1} : n # 2 => n > 2
      OBVIOUS
    <2>5. CASE tf_trapno = X86_PIC1_OFFSET
      <3>1. Len(Levels) = 2
        <4>1. ~(Len(Levels) > 2)
          BY <2>2, <2>5 DEF X86_PIC1_OFFSET
        <4>2. QED
          BY <2>2, <2>4, <4>1
      <3>2. Len(Levels') = 2 /\ stack'[5] = X86_PIC1_OFFSET
        BY <2>2, <2>3, <2>5, <3>1 DEF Within
      <3>3. QED
        BY <3>2 DEF AnnounceInv
    <2>6. CASE tf_trapno # X86_PIC1_OFFSET
      BY <2>3, <2>6 DEF AnnounceInv
    <2>7. QED
      BY <2>5, <2>6
  <1>3. CASE alltraps \/ trap_announce \/ trap_callback \/ keyboard_handler \/ keyboard_log
             \/ x86_pic_eoi_1 \/ x86_pic_eoi_2 \/ trapret
    <2>1. Within
      BY <1>3, WithinKind DEF Middle
    <2>2. UNCHANGED last_trapno
      BY <1>3 DEF alltraps, trap_announce, trap_callback, keyboard_handler, keyboard_log,
                  x86_pic_eoi_1, x86_pic_eoi_2, eoi_from, trapret, return_with
    <2>3. cpu'.ip # "announce"
      <3>1. CASE alltraps
        BY <3>1, Saved DEF Inv
      <3>2. CASE trap_announce
        BY <3>2, GotoIp DEF trap_announce
      <3>3. CASE trap_callback
        <4>1. cpu'.ip = IF tf_trapno \in DOMAIN callback THEN callback[tf_trapno] ELSE "eoi1"
          BY <3>3, GotoIp DEF trap_callback
        <4>2. tf_trapno \in DOMAIN callback => callback[tf_trapno] = "keyboard_handler"
          BY DEF Inv, TablesInv, NoCallbacks
        <4>3. QED
          BY <4>1, <4>2
      <3>4. CASE keyboard_handler
        BY <3>4 DEF keyboard_handler, Inv, TypeInv, Regs
      <3>5. CASE keyboard_log
        BY <3>5, GotoIp DEF keyboard_log
      <3>6. CASE x86_pic_eoi_1 \/ x86_pic_eoi_2
        BY <3>6, GotoIp DEF x86_pic_eoi_1, x86_pic_eoi_2, eoi_from
      <3>7. CASE trapret
        BY <3>7 DEF trapret, return_with, Inv, TypeInv, Regs
      <3>8. QED
        BY <1>3, <3>1, <3>2, <3>3, <3>4, <3>5, <3>6, <3>7
    <2>4. QED
      BY <2>1, <2>2, <2>3, AnnounceWithin
  <1>4. CASE Boot
    <2>1. Len(Levels') = 1
      BY <1>4, BootKind DEF InKernel
    <2>2. QED
      BY <2>1 DEF AnnounceInv
  <1>5. CASE Traps
    <2>1. PICK v \in 0..47 : Deliver(v)
      BY <1>5, TrapMoves
    <2>2. Into(v) /\ UNCHANGED last_trapno
      BY <1>5, <2>1, IntoKind DEF Deliver
    <2>3. /\ Len(Levels) \in Nat \ {0} /\ Len(Levels') = Len(Levels) + 1
          /\ \A i \in 1..Len(Levels) : Levels'[i] = Levels[i]
          /\ Levels'[Len(Levels) + 1].ip = "alltraps"
      BY <2>2 DEF Into
    <2>4. \A n \in Nat \ {0} : \A i \in 2..(n + 1) : i = n + 1 \/ (i \in 1..n /\ (i > 2 => i \in 3..n))
      OBVIOUS
    <2>5. \A i \in 2..Len(Levels') : Levels'[i].ip = "alltraps"
                                     \/ (i \in 1..Len(Levels) /\ (i > 2 => i \in 3..Len(Levels)) /\ Levels'[i] = Levels[i])
      BY <2>3, <2>4
    <2>6. \A i \in 3..Len(Levels') : last_trapno = X86_PIC1_OFFSET => Levels'[i].ip # "announce"
      BY <1>1, <2>5
    <2>7. Len(Levels) # 1 /\ last_trapno = X86_PIC1_OFFSET /\ Levels'[2].ip = "announce" => stack'[5] = X86_PIC1_OFFSET
      BY <1>1, <2>2, DeepInto DEF Deep
    <2>8. Len(Levels) = 1 => Levels'[2].ip # "announce"
      BY <2>3
    <2>9. QED
      BY <2>2, <2>6, <2>7, <2>8 DEF AnnounceInv
  <1>6. CASE iret
    <2>1. OutOf /\ UNCHANGED last_trapno
      BY <1>6, OutOfKind DEF iret
    <2>2. /\ Len(Levels) \in Nat \ {0, 1} /\ Len(Levels') = Len(Levels) - 1
          /\ \A i \in 1..(Len(Levels) - 1) : Levels'[i] = Levels[i]
      BY <2>1 DEF OutOf
    <2>3. \A n \in Nat \ {0, 1} : \A i \in 3..(n - 1) : i \in 3..n /\ i \in 1..(n - 1)
      OBVIOUS
    <2>4. \A i \in 3..Len(Levels') : last_trapno = X86_PIC1_OFFSET => Levels'[i].ip # "announce"
      BY <1>1, <2>2, <2>3
    <2>5. Len(Levels) # 2 /\ last_trapno = X86_PIC1_OFFSET /\ Levels'[2].ip = "announce" => stack'[5] = X86_PIC1_OFFSET
      BY <1>1, <2>1, DeepOutOf DEF Deep
    <2>6. Len(Levels) = 2 => ~(Len(Levels') > 1)
      BY <2>2
    <2>7. QED
      BY <2>1, <2>4, <2>5, <2>6 DEF AnnounceInv
  <1>7. CASE Devices
    <2>1. UNCHANGED <<Levels, stack>>
      BY <1>7, DevicesKind
    <2>2. UNCHANGED last_trapno
      BY <1>7 DEF Devices, idle, vars, tick, press
    <2>3. QED
      BY <1>1, <2>1, <2>2 DEF AnnounceInv
  <1>8. QED
    BY <1>2, <1>3, <1>4, <1>5, <1>6, <1>7, NextCases DEF Middle

-----------------------------------------------------------------------------
(* What is on its way from the keyboard. *)

\* A sequence on its own, and one read out of the buffer.
LEMMA OnTheWay ==
  ASSUME NEW s \in Seq(Letters), NEW x \in Letters
  PROVE  /\ (s \o <<>>) \o <<>> = s
         /\ (s \o <<>>) \o <<x>> = (s \o <<x>>) \o <<>>
         /\ (s \o <<x>>) \o <<>> = Append(s, x)
  <1>1. s \o <<>> = s
    BY ConcatEmptySeq
  <1>2. s \o <<x>> = Append(s, x)
    BY ConcatOne
  <1>3. Append(s, x) \o <<>> = Append(s, x)
    BY ConcatEmptySeq
  <1>4. QED
    BY <1>1, <1>2, <1>3

\* Nothing moves on the way.
LEMMA KeyboardStays ==
  ASSUME Inv, UNCHANGED <<kbd, typed, letters, Here>>, InHand' = InHand,
         1 \in pic'[1].irr => 1 \in pic[1].irr,
         Len(Levels') > 1 /\ Levels'[2].ip \in {"keyboard_handler", "keyboard_log"}
           => stack'[5] = X86_PIC1_OFFSET + 1,
         Len(Levels') > 1 /\ Levels'[2].ip \in Open \ {"keyboard_log", "eoi1"}
           /\ stack'[5] = X86_PIC1_OFFSET + 1 => kbd.full /\ 1 \notin pic[1].irr
  PROVE  KeyboardInv'
  <1>1. InBuffer' = InBuffer
    BY DEF InBuffer
  <1>2. /\ typed = (letters \o InHand) \o InBuffer
        /\ 1 \in pic[1].irr => kbd.full
        /\ Here \in Early => ~kbd.full
    BY DEF Inv, KeyboardInv
  <1>3. typed' = (letters' \o InHand') \o InBuffer'
    BY <1>1, <1>2
  <1>4. QED
    BY <1>2, <1>3 DEF KeyboardInv

\* Steps above the first handler, or beside it.
LEMMA KeyboardDeep ==
  ASSUME Inv, Deep \/ UNCHANGED <<Levels, stack>>, UNCHANGED <<kbd, typed, letters, Here>>,
         1 \in pic'[1].irr => 1 \in pic[1].irr
  PROVE  KeyboardInv'
  <1>1. /\ Len(Levels) > 1 /\ Levels[2].ip \in {"keyboard_handler", "keyboard_log"}
             => stack[5] = X86_PIC1_OFFSET + 1
        /\ Len(Levels) > 1 /\ Levels[2].ip \in Open \ {"keyboard_log", "eoi1"}
             /\ stack[5] = X86_PIC1_OFFSET + 1 => kbd.full /\ 1 \notin pic[1].irr
    BY DEF Inv, KeyboardInv
  <1>2. "iret" \notin Open
    BY DEF Open
  <1>3. CASE UNCHANGED <<Levels, stack>>
    <2>1. InHand' = InHand
      BY <1>3 DEF InHand
    <2>2. QED
      BY <1>1, <1>3, <2>1, KeyboardStays
  <1>4. CASE Deep
    <2>1. InHand' = InHand
      BY <1>4 DEF InHand, Deep
    <2>2. /\ Len(Levels) > 1 /\ Levels'[2] = Levels[2]
          /\ Levels[2].ip # "iret" => stack'[5] = stack[5]
      BY <1>4 DEF Deep
    <2>3. Levels[2].ip = "iret" \/ stack'[5] = stack[5]
      BY <2>2
    <2>4. QED
      BY <1>1, <1>2, <2>1, <2>2, <2>3, KeyboardStays
  <1>5. QED
    BY <1>3, <1>4

\* The first handler, when it leaves the keyboard alone.
LEMMA KeyboardFirst ==
  ASSUME Inv, Within, Len(Levels) = 2, UNCHANGED <<kbd, typed, letters, Here>>,
         1 \in pic'[1].irr => 1 \in pic[1].irr,
         cpu.ip # "keyboard_log" /\ cpu'.ip # "keyboard_log",
         cpu'.ip \in Open \ {"eoi1"} => cpu.ip \in Open \ {"eoi1"},
         cpu'.ip = "keyboard_handler" => stack'[5] = X86_PIC1_OFFSET + 1
  PROVE  KeyboardInv'
  <1>1. /\ Len(Levels') = 2 /\ Levels[2] = cpu /\ Levels'[2] = cpu'
        /\ cpu.ip # "iret" /\ cpu'.ip # "iret" => stack'[5] = stack[5]
    BY FirstWithin
  <1>2. Len(Levels) > 1 /\ Levels[2].ip \in Open \ {"keyboard_log", "eoi1"}
           /\ stack[5] = X86_PIC1_OFFSET + 1 => kbd.full /\ 1 \notin pic[1].irr
    BY DEF Inv, KeyboardInv
  <1>3. InHand' = InHand
    BY <1>1 DEF InHand
  <1>4. "iret" \notin Open /\ Len(Levels) > 1
    BY DEF Open
  <1>5. Levels'[2].ip \in Open \ {"keyboard_log", "eoi1"} /\ stack'[5] = X86_PIC1_OFFSET + 1
          => kbd.full /\ 1 \notin pic[1].irr
    BY <1>1, <1>2, <1>4
  <1>6. QED
    BY <1>1, <1>3, <1>5, KeyboardStays

\* Where the keyboard's handler runs.
LEMMA FirstOnly ==
  ASSUME Inv, cpu.ip \in {"keyboard_handler", "keyboard_log"}, Within
  PROVE  Len(Levels) = 2
  <1>1. Len(Levels) \in Nat \ {0, 1} /\ Levels[Len(Levels)] = cpu
    BY DEF Within
  <1>2. \A i \in 3..Len(Levels) : Levels[i].ip \notin {"keyboard_handler", "keyboard_log"}
    BY DEF Inv, NestingInv
  <1>3. \A n \in Nat \ {0, 1} : n # 2 => n \in 3..n
    OBVIOUS
  <1>4. QED
    BY <1>1, <1>2, <1>3

\* keyboard_handler takes the byte, which nothing announces any more.
LEMMA KeyboardRead ==
  ASSUME Inv, keyboard_handler, UNCHANGED Here
  PROVE  KeyboardInv'
  <1>1. Within
    BY WithinKind DEF Middle
  <1>2. cpu.ip = "keyboard_handler" /\ kbd' = [kbd EXCEPT !.full = FALSE]
        /\ UNCHANGED <<stack, pic, typed, letters>>
    BY DEF keyboard_handler, history
  <1>3. Len(Levels) = 2
    BY <1>1, <1>2, FirstOnly
  <1>4. Len(Levels') = 2 /\ Levels[2] = cpu /\ Levels'[2] = cpu'
    BY <1>1, <1>3, FirstWithin
  <1>5. cpu'.ip = "keyboard_log" /\ cpu'.gp = kbd.byte
    BY DEF keyboard_handler, Inv, TypeInv, Regs
  <1>6. kbd' = [full |-> FALSE, byte |-> kbd.byte]
    BY <1>2 DEF Inv, TypeInv
  <1>7. /\ typed = (letters \o InHand) \o InBuffer
        /\ Len(Levels) > 1 /\ Levels[2].ip \in {"keyboard_handler", "keyboard_log"}
             => stack[5] = X86_PIC1_OFFSET + 1
        /\ Len(Levels) > 1 /\ Levels[2].ip \in Open \ {"keyboard_log", "eoi1"}
             /\ stack[5] = X86_PIC1_OFFSET + 1 => kbd.full /\ 1 \notin pic[1].irr
    BY DEF Inv, KeyboardInv
  <1>8. stack[5] = X86_PIC1_OFFSET + 1 /\ kbd.full /\ 1 \notin pic[1].irr
    <2>1. Len(Levels) > 1 /\ cpu.ip \in Open \ {"keyboard_log", "eoi1"}
      BY <1>2, <1>3 DEF Open
    <2>2. QED
      BY <1>2, <1>4, <1>7, <2>1
  <1>9. typed' = (letters' \o InHand') \o InBuffer'
    <2>1. InHand = <<>> /\ InBuffer' = <<>>
      BY <1>2, <1>4, <1>6 DEF InHand, InBuffer
    <2>2. letters \in Seq(Letters)
      BY DEF Inv, TypeInv
    <2>3. CASE kbd.byte \in Letters
      <3>1. InHand' = <<kbd.byte>>
        BY <1>4, <1>5, <2>3 DEF InHand
      <3>2. InBuffer = <<kbd.byte>>
        BY <1>8, <2>3 DEF InBuffer
      <3>3. (letters \o <<>>) \o <<kbd.byte>> = (letters \o <<kbd.byte>>) \o <<>>
        BY <2>2, <2>3, OnTheWay
      <3>4. QED
        BY <1>2, <1>7, <2>1, <3>1, <3>2, <3>3
    <2>4. CASE kbd.byte \notin Letters
      <3>1. InHand' = <<>> /\ InBuffer = <<>>
        BY <1>4, <1>5, <2>4 DEF InHand, InBuffer
      <3>2. QED
        BY <1>2, <1>7, <2>1, <3>1
    <2>5. QED
      BY <2>3, <2>4
  <1>10. QED
    BY <1>2, <1>4, <1>5, <1>6, <1>8, <1>9 DEF KeyboardInv

\* keyboard_log logs what it holds.
LEMMA KeyboardLogged ==
  ASSUME Inv, keyboard_log, UNCHANGED Here
  PROVE  KeyboardInv'
  <1>1. Within
    BY WithinKind DEF Middle
  <1>2. /\ cpu.ip = "keyboard_log"
        /\ letters' = IF cpu.gp \in Letters THEN Append(letters, cpu.gp) ELSE letters
        /\ UNCHANGED <<stack, pic, typed, kbd>>
    BY DEF keyboard_log, Goto
  <1>3. Len(Levels) = 2
    BY <1>1, <1>2, FirstOnly
  <1>4. Len(Levels') = 2 /\ Levels[2] = cpu /\ Levels'[2] = cpu'
    BY <1>1, <1>3, FirstWithin
  <1>5. cpu'.ip = "eoi1"
    BY GotoIp DEF keyboard_log
  <1>6. /\ typed = (letters \o InHand) \o InBuffer
        /\ 1 \in pic[1].irr => kbd.full
        /\ Here \in Early => ~kbd.full
    BY DEF Inv, KeyboardInv
  <1>7. typed' = (letters' \o InHand') \o InBuffer'
    <2>1. InHand' = <<>> /\ InBuffer' = InBuffer
      BY <1>2, <1>4, <1>5 DEF InHand, InBuffer
    <2>2. letters \in Seq(Letters)
      BY DEF Inv, TypeInv
    <2>3. CASE cpu.gp \in Letters
      <3>1. InHand = <<cpu.gp>>
        BY <1>2, <1>3, <1>4, <2>3 DEF InHand
      <3>2. letters \o <<cpu.gp>> = Append(letters, cpu.gp)
        BY <2>2, <2>3, ConcatOne
      <3>3. Append(letters, cpu.gp) \in Seq(Letters)
        BY <2>2, <2>3
      <3>4. Append(letters, cpu.gp) \o <<>> = Append(letters, cpu.gp)
        BY <3>3, ConcatEmptySeq
      <3>5. QED
        BY <1>2, <1>6, <2>1, <2>3, <3>1, <3>2, <3>4
    <2>4. CASE cpu.gp \notin Letters
      <3>1. InHand = <<>>
        BY <1>4, <2>4 DEF InHand
      <3>2. QED
        BY <1>2, <1>6, <2>1, <2>4, <3>1
    <2>5. QED
      BY <2>3, <2>4
  <1>8. "eoi1" \notin {"keyboard_handler", "keyboard_log"}
    OBVIOUS
  <1>9. QED
    BY <1>2, <1>4, <1>5, <1>6, <1>7, <1>8 DEF KeyboardInv

\* A key fills the buffer, and its line is raised.
LEMMA KeyboardPressed ==
  ASSUME Inv, NEW key \in Keys, press(key), UNCHANGED <<Levels, stack, Here>>
  PROVE  KeyboardInv'
  <1>1. /\ ~kbd.full /\ callback # NoCallbacks
        /\ kbd' = [full |-> TRUE, byte |-> key]
        /\ typed' = IF key \in Letters THEN Append(typed, key) ELSE typed
        /\ letters' = letters
    BY DEF press
  <1>2. /\ typed = (letters \o InHand) \o InBuffer
        /\ Len(Levels) > 1 /\ Levels[2].ip \in {"keyboard_handler", "keyboard_log"}
             => stack[5] = X86_PIC1_OFFSET + 1
        /\ Len(Levels) > 1 /\ Levels[2].ip \in Open \ {"keyboard_log", "eoi1"}
             /\ stack[5] = X86_PIC1_OFFSET + 1 => kbd.full
    BY DEF Inv, KeyboardInv
  <1>3. Here \notin Early
    BY <1>1 DEF Inv, TablesInv
  <1>4. typed' = (letters' \o InHand') \o InBuffer'
    <2>1. InHand' = InHand /\ InBuffer = <<>>
      BY <1>1 DEF InHand, InBuffer
    <2>2. letters \o InHand \in Seq(Letters)
      <3>1. letters \in Seq(Letters) /\ InHand \in Seq(Letters)
        BY DEF Inv, TypeInv, InHand
      <3>2. QED
        BY <3>1, ConcatProperties
    <2> DEFINE s == letters \o InHand
    <2>3. s \in Seq(Letters) /\ typed = s
      <3>1. s \in Seq(Letters)
        BY <2>2
      <3>2. s \o <<>> = s
        BY <3>1, ConcatEmptySeq
      <3>3. QED
        BY <1>2, <2>1, <3>1, <3>2
    <2>4. letters' \o InHand' = s
      BY <1>1, <2>1
    <2> HIDE DEF s
    <2>5. CASE key \in Letters
      <3>1. InBuffer' = <<key>>
        BY <1>1, <2>5 DEF InBuffer
      <3>2. s \o <<key>> = Append(s, key)
        BY <2>3, <2>5, ConcatOne
      <3>3. QED
        BY <1>1, <2>3, <2>4, <2>5, <3>1, <3>2
    <2>6. CASE key \notin Letters
      <3>1. InBuffer' = <<>>
        BY <1>1, <2>6 DEF InBuffer
      <3>2. s \o <<>> = s
        BY <2>3, ConcatEmptySeq
      <3>3. QED
        BY <1>1, <2>3, <2>4, <2>6, <3>1, <3>2
    <2>7. QED
      BY <2>5, <2>6
  <1>5. kbd'.full
    BY <1>1
  <1>6. ~(Len(Levels) > 1 /\ Levels[2].ip \in Open \ {"keyboard_log", "eoi1"}
             /\ stack[5] = X86_PIC1_OFFSET + 1)
    BY <1>1, <1>2
  <1>7. QED
    BY <1>2, <1>3, <1>4, <1>5, <1>6 DEF KeyboardInv

\* A trap that arrives in kmain: the keyboard's, which its byte announced, or
\* another.
LEMMA KeyboardTrap ==
  ASSUME Inv, Traps, NEW v \in 0..47, Deliver(v), Len(Levels) = 1, UNCHANGED Here,
         \/ v # X86_PIC1_OFFSET + 1 /\ (1 \in pic'[1].irr => 1 \in pic[1].irr)
         \/ 1 \in pic[1].irr /\ 1 \notin pic'[1].irr
  PROVE  KeyboardInv'
  <1>1. Into(v)
    BY IntoKind
  <1>2. Len(Levels') = 2 /\ Levels'[2].ip = "alltraps" /\ stack'[5] = v
    BY <1>1 DEF Into
  <1>3. UNCHANGED <<kbd, typed, letters>>
    BY DEF Deliver
  <1>4. InHand = <<>> /\ InHand' = <<>>
    BY <1>2 DEF InHand
  <1>5. InBuffer' = InBuffer
    BY <1>3 DEF InBuffer
  <1>6. /\ typed = (letters \o InHand) \o InBuffer
        /\ 1 \in pic[1].irr => kbd.full
        /\ Here \in Early => ~kbd.full
    BY DEF Inv, KeyboardInv
  <1>7. /\ 1 \in pic'[1].irr => kbd'.full
        /\ stack'[5] = X86_PIC1_OFFSET + 1 => kbd'.full /\ 1 \notin pic'[1].irr
    BY <1>2, <1>3, <1>6
  <1>8. Levels'[2].ip \notin {"keyboard_handler", "keyboard_log"}
    BY <1>2
  <1>9. typed' = (letters' \o InHand') \o InBuffer'
    BY <1>3, <1>4, <1>5, <1>6
  <1>10. QED
    BY <1>3, <1>6, <1>7, <1>8, <1>9 DEF KeyboardInv

LEMMA TrapsKeyboard ==
  ASSUME Inv, Traps, UNCHANGED Here
  PROVE  KeyboardInv'
  <1>1. Nested /\ (cpu.ip = "idle" => cpu.ip \in KernelIp)
    BY DEF Inv, Nested, KernelIp, Ready
  <1>2. CASE interrupt
    <2>1. Len(Levels) = 1
      BY <1>1, <1>2, InterruptMoves, AtKernel
    <2>2. PICK n \in 0..7 :
              \/ /\ n \in pic[1].irr /\ n # 2
                 /\ Deliver(X86_PIC1_OFFSET + n)
                 /\ Lit(1, pic[1].irr \ {n}, pic[1].isr \cup {n})
                 /\ Lit(2, pic[2].irr, pic[2].isr)
              \/ /\ Deliver(X86_PIC2_OFFSET + n)
                 /\ Lit(1, pic[1].irr, pic[1].isr \cup {2})
                 /\ Lit(2, pic[2].irr \ {n}, pic[2].isr \cup {n})
      BY <1>2, InterruptMoves
    <2>3. CASE /\ n \in pic[1].irr /\ Deliver(X86_PIC1_OFFSET + n)
               /\ Lit(1, pic[1].irr \ {n}, pic[1].isr \cup {n})
      <3>1. X86_PIC1_OFFSET + n \in 0..47
        BY <2>2 DEF X86_PIC1_OFFSET
      <3>2. n = 1 \/ X86_PIC1_OFFSET + n # X86_PIC1_OFFSET + 1
        BY <2>2 DEF X86_PIC1_OFFSET
      <3>3. pic'[1].irr = pic[1].irr \ {n}
        BY <2>3 DEF Lit
      <3>4. \/ X86_PIC1_OFFSET + n # X86_PIC1_OFFSET + 1 /\ (1 \in pic'[1].irr => 1 \in pic[1].irr)
            \/ 1 \in pic[1].irr /\ 1 \notin pic'[1].irr
        BY <2>3, <3>2, <3>3
      <3>5. QED
        BY <2>1, <2>3, <3>1, <3>4, KeyboardTrap
    <2>4. CASE Deliver(X86_PIC2_OFFSET + n) /\ Lit(1, pic[1].irr, pic[1].isr \cup {2})
      <3>1. X86_PIC2_OFFSET + n \in 0..47 /\ X86_PIC2_OFFSET + n # X86_PIC1_OFFSET + 1
        BY <2>2 DEF X86_PIC1_OFFSET, X86_PIC2_OFFSET
      <3>2. 1 \in pic'[1].irr => 1 \in pic[1].irr
        BY <2>4 DEF Lit
      <3>3. QED
        BY <2>1, <2>4, <3>1, <3>2, KeyboardTrap
    <2>5. QED
      BY <2>2, <2>3, <2>4
  <1>3. CASE \E v \in Exceptions : exception(v)
    <2>1. PICK v \in Exceptions : exception(v)
      BY <1>3
    <2>2. v \in 0..47 /\ v # X86_PIC1_OFFSET + 1 /\ Deliver(v) /\ UNCHANGED pic
      BY <2>1, TrapAssumption DEF exception, X86_PIC1_OFFSET
    <2>3. UNCHANGED <<kbd, typed, letters>>
      BY <2>2 DEF Deliver
    <2>4. CASE Len(Levels) # 1
      <3>1. Deep
        BY <2>2, <2>4, IntoKind, DeepInto
      <3>2. QED
        BY <2>2, <2>3, <3>1, KeyboardDeep
    <2>5. CASE Len(Levels) = 1
      BY <2>2, <2>5, KeyboardTrap
    <2>6. QED
      BY <2>4, <2>5
  <1>4. CASE \E j \in 1..2 : spurious(j)
    <2>1. PICK j \in 1..2 : spurious(j)
      BY <1>4
    <2>2. Len(Levels) = 1
      BY <1>1, <2>1, SpuriousMoves, AtKernel
    <2>3. Deliver(IF j = 1 THEN 39 ELSE 47) /\ pic'[1].irr = pic[1].irr
      BY <2>1, SpuriousMoves DEF Lit
    <2>4. (IF j = 1 THEN 39 ELSE 47) \in 0..47 /\ (IF j = 1 THEN 39 ELSE 47) # X86_PIC1_OFFSET + 1
      BY DEF X86_PIC1_OFFSET
    <2>5. QED
      BY <2>2, <2>3, <2>4, KeyboardTrap
  <1>5. QED
    BY <1>2, <1>3, <1>4 DEF Traps

\* kmain takes no byte, and none comes before trap_init is done.
LEMMA BootKeyboard ==
  ASSUME Inv, Boot
  PROVE  KeyboardInv'
  <1>1. Len(Levels) = 1 /\ Len(Levels') = 1
    BY BootKind DEF InKernel
  <1>2. UNCHANGED <<kbd, typed, letters>>
    BY DEF Boot, trap_init, set_gates, x86_lidt, load, x86_pic_remap_save, x86_pic_remap,
           x86_idt_enable, enable, sti, segments_clear, segments_set, x86_lgdt, x86_lgdt_reload, reload,
           history
  <1>3. pic'[1].irr \subseteq pic[1].irr
    <2>1. CASE x86_pic_remap
      BY <2>1, RemapStep
    <2>2. CASE UNCHANGED pic
      BY <2>2
    <2>3. QED
      BY <2>1, <2>2
      DEF Boot, trap_init, set_gates, x86_lidt, load, x86_pic_remap_save, x86_idt_enable, enable, sti,
          segments_clear, segments_set, x86_lgdt, x86_lgdt_reload, reload
  <1>4. Here' \in Early => Here \in Early
    <2>1. Here = cpu.ip /\ Here' = cpu'.ip
      BY BootHere
    <2>2. CASE trap_init \/ x86_lidt
      BY <2>1, <2>2, GotoIp DEF trap_init, set_gates, x86_lidt, load, Early
    <2>3. CASE x86_pic_remap_save \/ x86_pic_remap
      BY <2>1, <2>3 DEF x86_pic_remap_save, x86_pic_remap, Early
    <2>4. CASE x86_idt_enable
      BY <2>1, <2>4, GotoIp DEF x86_idt_enable, enable, Early
    <2>5. CASE segments_clear \/ segments_set
      BY <2>1, <2>5, GotoIp DEF segments_clear, segments_set, Early
    <2>6. CASE x86_lgdt
      BY <2>1, <2>6, GotoIp DEF x86_lgdt, load, Early
    <2>7. CASE x86_lgdt_reload
      BY <2>1, <2>7, ReloadIp DEF Early, Ready
    <2>8. CASE sti
      BY <2>1, <2>8 DEF sti, Early, Inv, TypeInv, Regs
    <2>9. QED
      BY <2>2, <2>3, <2>4, <2>5, <2>6, <2>7, <2>8 DEF Boot
  <1>5. InHand' = InHand /\ InBuffer' = InBuffer
    BY <1>1, <1>2 DEF InHand, InBuffer
  <1>6. /\ typed = (letters \o InHand) \o InBuffer
        /\ 1 \in pic[1].irr => kbd.full
        /\ Here \in Early => ~kbd.full
    BY DEF Inv, KeyboardInv
  <1>7. typed' = (letters' \o InHand') \o InBuffer'
    BY <1>2, <1>5, <1>6
  <1>8. ~(Len(Levels') > 1)
    BY <1>1
  <1>9. QED
    BY <1>2, <1>3, <1>4, <1>6, <1>7, <1>8 DEF KeyboardInv

\* No byte is lost on its way, and none is logged twice.
LEMMA KeyboardKept ==
  ASSUME Inv, Next
  PROVE  KeyboardInv'
  <1>1. CASE Boot
    BY <1>1, BootKeyboard
  <1>2. ~Boot => UNCHANGED Here
    BY CodeStays
  <1>3. CASE keyboard_handler /\ UNCHANGED Here
    BY <1>3, KeyboardRead
  <1>4. CASE keyboard_log /\ UNCHANGED Here
    BY <1>4, KeyboardLogged
  <1>5. CASE /\ alltraps \/ trap_handler \/ trap_announce \/ trap_callback \/ x86_pic_eoi_1
                \/ x86_pic_eoi_2 \/ trapret
             /\ UNCHANGED Here
    <2>1. Within
      BY <1>5, WithinKind DEF Middle
    <2>2. UNCHANGED <<kbd, typed, letters>>
      BY <1>5 DEF alltraps, trap_handler, trap_announce, trap_callback, x86_pic_eoi_1, x86_pic_eoi_2,
                  eoi_from, trapret, return_with, history
    <2>3. pic'[1].irr = pic[1].irr
      <3>1. CASE x86_pic_eoi_1
        BY <3>1, Acknowledged DEF x86_pic_eoi_1, Lit, X86_PIC1_OFFSET
      <3>2. CASE x86_pic_eoi_2
        BY <3>2, Acknowledged DEF x86_pic_eoi_2, Lit, X86_PIC2_OFFSET
      <3>3. CASE UNCHANGED pic
        BY <3>3
      <3>4. QED
        BY <1>5, <3>1, <3>2, <3>3 DEF alltraps, trap_handler, trap_announce, trap_callback, trapret, return_with
    <2>4. CASE Len(Levels) # 2
      BY <1>5, <2>1, <2>2, <2>3, <2>4, DeepWithin, KeyboardDeep
    <2>5. CASE Len(Levels) = 2
      <3>1. /\ cpu.ip # "keyboard_log" /\ cpu'.ip # "keyboard_log"
            /\ cpu'.ip \in Open \ {"eoi1"} => cpu.ip \in Open \ {"eoi1"}
            /\ cpu'.ip = "keyboard_handler" => stack'[5] = X86_PIC1_OFFSET + 1
        <4>1. CASE alltraps
          <5>1. cpu.ip = "alltraps" /\ cpu'.ip = "trap_handler"
            BY <4>1, Saved DEF alltraps, Inv
          <5>2. QED
            BY <5>1 DEF Open
        <4>2. CASE trap_handler
          <5>1. cpu.ip = "trap_handler" /\ cpu'.ip = "announce"
            BY <4>2 DEF trap_handler, Inv, TypeInv, Regs
          <5>2. QED
            BY <5>1 DEF Open
        <4>3. CASE trap_announce
          <5>1. cpu.ip = "announce" /\ cpu'.ip = "callback"
            BY <4>3, GotoIp DEF trap_announce
          <5>2. QED
            BY <5>1 DEF Open
        <4>4. CASE trap_callback
          <5>1. /\ cpu.ip = "callback"
                /\ cpu'.ip = IF tf_trapno \in DOMAIN callback THEN callback[tf_trapno] ELSE "eoi1"
            BY <4>4, GotoIp DEF trap_callback
          <5>2. tf_trapno \in DOMAIN callback =>
                  callback[tf_trapno] = "keyboard_handler" /\ tf_trapno = X86_PIC1_OFFSET + 1
            BY DEF Inv, TablesInv, NoCallbacks
          <5>3. stack' = stack
            BY <4>4 DEF trap_callback
          <5>4. tf_trapno = stack[5]
            <6>1. Nested /\ cpu.ip \in HandlerIp \ {"alltraps", "iret"}
              BY <5>1 DEF Inv, Nested, HandlerIp, Open
            <6>2. QED
              BY <2>5, <6>1, TheTrapno
          <5>5. QED
            BY <5>1, <5>2, <5>3, <5>4 DEF Open
        <4>5. CASE x86_pic_eoi_1
          <5>1. cpu.ip = "eoi1" /\ cpu'.ip = "eoi2"
            BY <4>5, GotoIp DEF x86_pic_eoi_1, eoi_from
          <5>2. QED
            BY <5>1 DEF Open
        <4>6. CASE x86_pic_eoi_2
          <5>1. cpu.ip = "eoi2" /\ cpu'.ip = "trapret"
            BY <4>6, GotoIp DEF x86_pic_eoi_2, eoi_from
          <5>2. QED
            BY <5>1 DEF Open
        <4>7. CASE trapret
          <5>1. cpu.ip = "trapret" /\ cpu'.ip = "iret"
            BY <4>7 DEF trapret, return_with, Inv, TypeInv, Regs
          <5>2. QED
            BY <5>1 DEF Open
        <4>8. QED
          BY <1>5, <4>1, <4>2, <4>3, <4>4, <4>5, <4>6, <4>7
      <3>2. QED
        BY <1>5, <2>1, <2>2, <2>3, <2>5, <3>1, KeyboardFirst
    <2>6. QED
      BY <2>4, <2>5
  <1>6. CASE iret /\ UNCHANGED Here
    <2>1. OutOf /\ UNCHANGED <<kbd, typed, letters, pic>>
      BY <1>6, OutOfKind DEF iret
    <2>2. CASE Len(Levels) # 2
      BY <1>6, <2>1, <2>2, DeepOutOf, KeyboardDeep
    <2>3. CASE Len(Levels) = 2
      <3>1. Levels[2] = cpu /\ cpu.ip = "iret" /\ Len(Levels') = 1
        BY <2>1, <2>3 DEF OutOf
      <3>2. InHand = <<>> /\ InHand' = <<>> /\ ~(Len(Levels') > 1)
        BY <3>1 DEF InHand
      <3>3. QED
        BY <1>6, <2>1, <3>2, KeyboardStays
    <2>4. QED
      BY <2>2, <2>3
  <1>7. CASE Traps /\ UNCHANGED Here
    BY <1>7, TrapsKeyboard
  <1>8. CASE Devices /\ UNCHANGED Here
    <2>1. UNCHANGED <<Levels, stack>>
      BY <1>8, DevicesKind
    <2>2. CASE idle
      BY <1>8, <2>1, <2>2, KeyboardDeep DEF idle, vars, history
    <2>3. CASE \E line \in Lines : tick(line)
      <3>1. PICK line \in Lines : tick(line)
        BY <2>3
      <3>2. line \in 0..15 /\ line # 1 /\ pic' = Raise(pic, line) /\ UNCHANGED <<kbd, typed, letters>>
        BY <3>1, TrapAssumption DEF tick, history
      <3>3. 1 \in pic'[1].irr => 1 \in pic[1].irr
        BY <3>2, Raised DEF Lit
      <3>4. QED
        BY <1>8, <2>1, <3>2, <3>3, KeyboardDeep
    <2>4. CASE \E key \in Keys : press(key)
      BY <1>8, <2>1, <2>4, KeyboardPressed
    <2>5. QED
      BY <1>8, <2>2, <2>3, <2>4 DEF Devices
  <1>9. QED
    BY <1>1, <1>2, <1>3, <1>4, <1>5, <1>6, <1>7, <1>8, NextCases DEF Middle

-----------------------------------------------------------------------------
(* The invariant holds. *)

LEMMA InitInv ==
  ASSUME Init
  PROVE  Inv
  <1>1. cpu \in Regs
    BY TrapAssumption DEF Init, Regs, KernelIp, Early, Values
  <1>2. TypeInv
    <2>1. interrupted \in Seq(Regs) /\ stack \in Seq(StackWord)
          /\ typed \in Seq(Letters) /\ letters \in Seq(Letters)
      BY DEF Init
    <2>2. kbd \in [full : BOOLEAN, byte : Keys \cup {NONE}]
      BY DEF Init
    <2>3. QED
      BY <1>1, <2>1, <2>2 DEF TypeInv, Init
  <1>3. Len(Levels) = 1 /\ Levels[1] = cpu
    <2>1. interrupted = <<>> /\ Len(interrupted) = 0
      BY DEF Init
    <2>2. cpu \in Regs /\ interrupted \in Seq(Regs)
      BY <1>2 DEF TypeInv
    <2>3. Len(Levels) = Len(interrupted) + 1 /\ Levels[Len(Levels)] = cpu
      BY <2>2, LevelsType
    <2>4. QED
      BY <2>1, <2>3
  <1>4. cpu.ip = "trap_init" /\ cpu.flags = 0 /\ Here = "trap_init"
    BY <1>3 DEF Init, Here
  <1>5. FramesInv
    <2> DEFINE base == [i \in 1..1 |-> 0]
    <2>1. base \in [1..1 -> Nat] /\ base[1] = 0
      OBVIOUS
    <2>2. Len(stack) = 0
      BY DEF Init
    <2> HIDE DEF base
    <2>3. Frames(base, stack, Levels)
      BY <1>3, <2>1, <2>2 DEF Frames
    <2>4. QED
      BY <1>3, <2>1, <2>3 DEF FramesInv
  <1>6. NestingInv
    BY <1>3, <1>4 DEF NestingInv, KernelIp, Early
  <1>7. TablesInv
    BY <1>4 DEF TablesInv, Early, Init
  <1>8. SegmentsInv
    <2>1. DOMAIN cpu_gdt = 0..(X86_GDT_SEG_SIZE - 1) /\ filled = 0
      BY DEF Init
    <2>2. QED
      BY <1>4, <2>1 DEF SegmentsInv, Early, Late, Ready
  <1>9. PicInv
    <2>1. PICK mask \in Masks :
            /\ firmware = [k \in 1..2 |-> {n \in 0..7 : n + 8 * (k - 1) \in mask}]
            /\ pic = [k \in 1..2 |-> [base |-> IF k = 1 THEN 8 ELSE 112, irr |-> {}, isr |-> {},
                                      imr |-> firmware[k], expect |-> "ocw"]]
      BY DEF Init
    <2>2. firmware \in [1..2 -> SUBSET (0..7)]
      BY <2>1
    <2>3. /\ \A k \in 1..2 : pic[k] = [base |-> IF k = 1 THEN 8 ELSE 112, irr |-> {}, isr |-> {},
                                       imr |-> firmware[k], expect |-> "ocw"]
          /\ DOMAIN pic = 1..2 /\ pic = [k \in 1..2 |-> pic[k]]
      BY <2>1
    <2>4. \A k \in 1..2 : pic[k] \in Pic
      BY <2>2, <2>3 DEF Pic
    <2>5. pic \in [1..2 -> Pic]
      BY <2>3, <2>4
    <2>6. icw = 0
      BY DEF Init
    <2>7. \A k \in 1..2 : pic[k].expect = Expected(k) /\ pic[k].imr = firmware[k]
      BY <2>3, <2>6 DEF Expected
    <2>8. \A k \in 1..2 : ~(icw > k + 2) /\ Here \notin {"x86_idt_enable"} \cup Late \cup Ready
      BY <1>4, <2>6 DEF Late, Ready
    <2>9. 2 \notin pic[1].irr
      BY <2>3
    <2>10. QED
      BY <2>2, <2>5, <2>6, <2>7, <2>8, <2>9 DEF PicInv
  <1>10. \A k \in 1..2 : pic[k].isr = {} /\ pic[k].irr = {}
    BY DEF Init
  <1>11. ServiceInv
    BY <1>10 DEF ServiceInv
  <1>12. AnnounceInv
    BY DEF Init, AnnounceInv, X86_PIC1_OFFSET
  <1>13. KeyboardInv
    <2>1. InHand = <<>> /\ InBuffer = <<>> /\ typed = <<>> /\ letters = <<>>
      BY <1>3 DEF Init, InHand, InBuffer
    <2>2. (<<>> \o <<>>) \o <<>> = <<>>
      <3>1. <<>> \in Seq(Letters)
        OBVIOUS
      <3>2. <<>> \o <<>> = <<>>
        BY <3>1, ConcatEmptySeq
      <3>3. QED
        BY <3>2
    <2>3. kbd.full = FALSE
      BY DEF Init
    <2>4. QED
      BY <1>3, <1>10, <2>1, <2>2, <2>3 DEF KeyboardInv
  <1>14. QED
    BY <1>2, <1>5, <1>6, <1>7, <1>8, <1>9, <1>11, <1>12, <1>13 DEF Inv

LEMMA InvStutters ==
  ASSUME Inv, UNCHANGED vars
  PROVE  Inv'
  <1>1. /\ UNCHANGED <<cpu, stack, gates, callback, loaded, cpu_gdt, filled, pic, icw, a>>
        /\ UNCHANGED <<last_trapno, kbd, firmware, interrupted, typed, letters>>
    BY DEF vars, code, segs, history
  <1>2. UNCHANGED Levels
    BY <1>1 DEF Levels
  <1>3. TypeInv' /\ FramesInv' /\ NestingInv'
    BY <1>1, <1>2 DEF Inv, TypeInv, FramesInv, NestingInv
  <1>4. UNCHANGED Here
    BY <1>2 DEF Here
  <1>5. TablesInv' /\ SegmentsInv'
    BY <1>1, <1>4 DEF Inv, TablesInv, SegmentsInv
  <1>6. PicInv'
    <2>1. \A k \in 1..2 : Expected(k)' = Expected(k)
      BY <1>1 DEF Expected
    <2>2. QED
      BY <1>1, <1>4, <2>1 DEF Inv, PicInv
  <1>7. ServiceInv'
    <2>1. \A k \in 1..2 : InService(k)' = InService(k)
      BY <1>1, <1>2 DEF InService
    <2>2. QED
      BY <1>1, <2>1 DEF Inv, ServiceInv
  <1>8. AnnounceInv'
    BY <1>1, <1>2 DEF Inv, AnnounceInv
  <1>9. KeyboardInv'
    <2>1. UNCHANGED <<InHand, InBuffer>>
      BY <1>1, <1>2 DEF InHand, InBuffer
    <2>2. QED
      BY <1>1, <1>2, <1>4, <2>1 DEF Inv, KeyboardInv
  <1>10. QED
    BY <1>3, <1>5, <1>6, <1>7, <1>8, <1>9 DEF Inv

LEMMA InvNext ==
  ASSUME Inv, [Next]_vars
  PROVE  Inv'
  <1>1. CASE UNCHANGED vars
    BY <1>1, InvStutters
  <1>2. CASE Next
    <2>1. Nested'
      <3>1. CASE Boot
        BY <3>1, BootKind
      <3>2. CASE alltraps \/ Middle \/ trapret
        BY <3>2, WithinKind
      <3>3. CASE iret
        BY <3>3, OutOfKind
      <3>4. CASE Traps
        BY <3>4, TrapMoves, IntoKind
      <3>5. CASE Devices
        BY <3>5, DevicesKind
      <3>6. QED
        BY <1>2, <3>1, <3>2, <3>3, <3>4, <3>5, NextCases
    <2>2. QED
      BY <1>2, <2>1, TablesKept, SegmentsKept, PicKept, ServiceKept, AnnounceKept, KeyboardKept
      DEF Inv, Nested
  <1>3. QED
    BY <1>1, <1>2

\* Every reachable state has its traps in frames on the stack, the tables and
\* the controllers as far as kmain has come with them, in service only what
\* the first trap has not acknowledged, and on its way from the keyboard what
\* was typed and not yet logged.
THEOREM InvHolds == Spec => []Inv
  <1>1. Init => Inv
    BY InitInv
  <1>2. Inv /\ [Next]_vars => Inv'
    BY InvNext
  <1>3. QED
    BY <1>1, <1>2, PTL DEF Spec

-----------------------------------------------------------------------------
(* What follows from the invariant. *)

\* The number of traps in progress, before and after a step.
LEMMA Depth ==
  ASSUME Inv
  PROVE  Len(Levels) = Len(interrupted) + 1 /\ Len(interrupted) \in Nat
  BY LevelsType, LenProperties DEF Inv, TypeInv

LEMMA DepthAfter ==
  ASSUME TypeInv'
  PROVE  Len(Levels') = Len(interrupted') + 1 /\ Len(interrupted') \in Nat
  <1>1. cpu' \in Regs /\ interrupted' \in Seq(Regs)
    BY DEF TypeInv
  <1>2. Len(Append(interrupted', cpu')) = Len(interrupted') + 1 /\ Len(interrupted') \in Nat
    BY <1>1, Appended, LenProperties
  <1>3. QED
    BY <1>2 DEF Levels

LEMMA RestoreFromInv ==
  ASSUME Inv, Next, Len(interrupted') < Len(interrupted)
  PROVE  cpu' = Last(interrupted) /\ (interrupted' = <<>> => stack' = <<>>)
  <1>1. Len(Levels) = Len(interrupted) + 1 /\ Len(interrupted) \in Nat
    BY Depth
  <1>2. TypeInv' /\ FramesInv'
    BY InvNext DEF Inv
  <1>3. Len(Levels') = Len(interrupted') + 1 /\ Len(interrupted') \in Nat
    BY <1>2, DepthAfter
  <1>4. Len(Levels') < Len(Levels)
    BY <1>1, <1>3
  <1>5. iret
    <2>1. CASE Boot
      BY <1>1, <1>4, <2>1, BootKind DEF InKernel
    <2>2. CASE alltraps \/ Middle \/ trapret
      BY <1>1, <1>4, <2>2, WithinKind DEF Within
    <2>3. CASE Traps
      <3>1. PICK v \in 0..47 : Deliver(v)
        BY <2>3, TrapMoves
      <3>2. Len(Levels') = Len(Levels) + 1
        BY <2>3, <3>1, IntoKind DEF Into
      <3>3. QED
        BY <1>1, <1>4, <3>2
    <2>4. CASE Devices
      BY <1>1, <1>4, <2>4, DevicesKind
    <2>5. QED
      BY <2>1, <2>2, <2>3, <2>4, NextCases
  <1>6. cpu' = Last(interrupted)
    BY <1>5, OutOfKind
  <1>7. ASSUME interrupted' = <<>>
        PROVE  stack' = <<>>
    <2>1. Len(Levels') = 1
      BY <1>3, <1>7
    <2>2. PICK base \in [1..Len(Levels') -> Nat] : Frames(base, stack', Levels')
      BY <1>2 DEF FramesInv
    <2>3. Len(stack') = 0
      BY <2>1, <2>2 DEF Frames
    <2>4. stack' \in Seq(StackWord)
      BY <1>2 DEF TypeInv
    <2>5. QED
      BY <2>3, <2>4, EmptySeq
  <1>8. QED
    BY <1>6, <1>7

\* A trap gives back what it interrupted, to the last register, however many
\* traps came in its handler: trapret and iret undo what the processor, the
\* stub and alltraps pushed.  After the outermost the stack is as it was.
THEOREM TrapsRestoreContext == Spec => ContextRestored
  <1>1. Inv /\ [Next]_vars =>
          [Len(interrupted') < Len(interrupted)
             => cpu' = Last(interrupted) /\ (interrupted' = <<>> => stack' = <<>>)]_vars
    BY RestoreFromInv
  <1>2. QED
    BY <1>1, InvHolds, PTL DEF Spec, ContextRestored

LEMMA ReadyFromInv ==
  ASSUME Inv
  PROVE  ReadyForInterrupts
  <1> SUFFICES ASSUME cpu.flags = FL_IF
               PROVE  /\ loaded = {"idt", "gdt"}
                      /\ pic[1].base = X86_PIC1_OFFSET /\ pic[2].base = X86_PIC2_OFFSET
                      /\ \A k \in 1..2 : pic[k].expect = "ocw" /\ pic[k].imr = firmware[k]
    BY DEF ReadyForInterrupts
  <1>1. Nested
    BY DEF Inv, Nested
  <1>2. cpu.ip = "idle" /\ cpu.ip \in KernelIp
    BY <1>1, AtIdle DEF KernelIp, Ready
  <1>3. Here = "idle"
    BY <1>1, <1>2, AtKernel DEF Here
  <1>4. loaded = {"idt", "gdt"}
    BY <1>3 DEF Inv, TablesInv, Ready
  <1>5. icw = 0
    BY <1>3 DEF Inv, PicInv
  <1>6. \A k \in 1..2 : /\ pic[k].expect = Expected(k)
                        /\ icw <= k => pic[k].imr = firmware[k]
                        /\ Here \in Ready => pic[k].base = Offset(k)
    BY DEF Inv, PicInv
  <1>7. \A k \in 1..2 : /\ pic[k].expect = "ocw" /\ pic[k].imr = firmware[k]
                        /\ pic[k].base = Offset(k)
    BY <1>3, <1>5, <1>6 DEF Expected, Ready
  <1>8. QED
    BY <1>4, <1>7 DEF Offset

\* Interrupts come on only when kmain has loaded both tables, and both
\* controllers are out of their initialisation, with their vectors and the
\* firmware's masks.
THEOREM InterruptsComeOnReady == Spec => []ReadyForInterrupts
  <1>1. Inv => ReadyForInterrupts
    BY ReadyFromInv
  <1>2. QED
    BY <1>1, InvHolds, PTL

LEMMA AcknowledgedFromInv ==
  ASSUME Inv
  PROVE  AllAcknowledged
  <1> SUFFICES ASSUME interrupted = <<>>
               PROVE  pic[1].isr = {} /\ pic[2].isr = {}
    BY DEF AllAcknowledged
  <1>1. Len(Levels) = 1
    BY Depth
  <1>2. \A k \in 1..2 : InService(k) = {}
    BY <1>1 DEF InService
  <1>3. QED
    BY <1>2 DEF Inv, ServiceInv

\* When no trap is in progress nothing is in service: x86_pic_eoi has ended
\* every interrupt at both controllers it came through.
THEOREM InterruptsAreAcknowledged == Spec => []AllAcknowledged
  <1>1. Inv => AllAcknowledged
    BY AcknowledgedFromInv
  <1>2. QED
    BY <1>1, InvHolds, PTL

LEMMA OwnFromInv ==
  ASSUME Inv, NEW k \in 1..2, x86_pic_eoi_1 \/ x86_pic_eoi_2
  PROVE  pic[k].isr \ pic'[k].isr \subseteq {LineOf(tf_trapno, k)}
  <1>1. CASE Len(Levels) # 2
    <2>1. CASE x86_pic_eoi_1
      BY <1>1, <2>1, DeepAcknowledged DEF x86_pic_eoi_1, X86_PIC1_OFFSET
    <2>2. CASE x86_pic_eoi_2
      BY <1>1, <2>2, DeepAcknowledged DEF x86_pic_eoi_2, X86_PIC1_OFFSET, X86_PIC2_OFFSET
    <2>3. QED
      BY <2>1, <2>2
  <1>2. CASE Len(Levels) = 2
    <2>1. Nested /\ cpu.ip \in {"eoi1", "eoi2"}
      BY DEF Inv, Nested, x86_pic_eoi_1, x86_pic_eoi_2, eoi_from, Goto
    <2>2. cpu.ip \in HandlerIp \ {"alltraps", "iret"}
      BY <2>1 DEF HandlerIp, Open, Closed
    <2>3. tf_trapno \in Nat /\ tf_trapno = stack[5]
      BY <1>2, <2>1, <2>2, TheTrapno
    <2>4. pic[k].isr \subseteq InService(k) /\ (InService(k) = {} \/ InService(k) = Served(stack[5], k))
      BY DEF Inv, ServiceInv, InService
    <2>5. pic[k].isr \subseteq Served(tf_trapno, k)
      BY <2>3, <2>4
    <2>6. Served(tf_trapno, k) \subseteq {LineOf(tf_trapno, k)}
      BY <2>3 DEF Served, LineOf, X86_PIC1_OFFSET, X86_PIC2_OFFSET
    <2>7. QED
      BY <2>5, <2>6
  <1>3. QED
    BY <1>1, <1>2

\* A handler acknowledges its own interrupt: in a trap that came in another's
\* handler the number is an exception's, and x86_pic_eoi sends nothing.
THEOREM HandlersAcknowledgeOwn == Spec => AcknowledgesOwn
  <1>1. Inv /\ [Next]_vars =>
          [\A k \in 1..2 : x86_pic_eoi_1 \/ x86_pic_eoi_2 =>
             pic[k].isr \ pic'[k].isr \subseteq {LineOf(tf_trapno, k)}]_vars
    BY OwnFromInv
  <1>2. QED
    BY <1>1, InvHolds, PTL DEF Spec, AcknowledgesOwn

LEMMA SilentFromInv ==
  ASSUME Inv
  PROVE  OnlyTimerSilent
  <1> SUFFICES ASSUME cpu.ip = "announce", last_trapno = X86_PIC1_OFFSET
               PROVE  tf_trapno = X86_PIC1_OFFSET
    BY DEF OnlyTimerSilent
  <1>1. Nested /\ cpu.ip \in HandlerIp \ {"alltraps", "iret"}
    BY DEF Inv, Nested, HandlerIp, Open
  <1>2. Len(Levels) \in Nat \ {0, 1} /\ (Len(Levels) = 2 => tf_trapno = stack[5])
    BY <1>1, TheTrapno
  <1>3. Levels[Len(Levels)] = cpu
    BY LevelsType DEF Inv, TypeInv
  <1>4. /\ \A i \in 3..Len(Levels) : Levels[i].ip # "announce"
        /\ Len(Levels) > 1 /\ Levels[2].ip = "announce" => stack[5] = X86_PIC1_OFFSET
    BY DEF Inv, AnnounceInv
  <1>5. \A n \in Nat \ {0, 1} : n = 2 \/ n \in 3..n
    OBVIOUS
  <1>6. Len(Levels) = 2
    BY <1>2, <1>3, <1>4, <1>5
  <1>7. QED
    BY <1>2, <1>3, <1>4, <1>6

\* A trap other than the timer's is announced, whatever traps come between
\* the assignment of last_trapno and its test.
THEOREM OthersAreAnnounced == Spec => []OnlyTimerSilent
  <1>1. Inv => OnlyTimerSilent
    BY SilentFromInv
  <1>2. QED
    BY <1>1, InvHolds, PTL

\* What a sequence begins with.
LEMMA Begins ==
  ASSUME NEW S, NEW s \in Seq(S), NEW u \in Seq(S)
  PROVE  IsPrefix(s, s \o u)
  <1>1. /\ s \o u \in Seq(S) /\ Len(s \o u) = Len(s) + Len(u)
        /\ \A i \in 1..(Len(s) + Len(u)) : (s \o u)[i] = IF i <= Len(s) THEN s[i] ELSE u[i - Len(s)]
        /\ Len(s) \in Nat /\ Len(u) \in Nat
    BY ConcatProperties, LenProperties
  <1> DEFINE t == s \o u
  <1>2. t \in Seq(S) /\ Len(s) <= Len(t) /\ Len(t) \in Nat /\ \A i \in 1..Len(s) : t[i] = s[i]
    BY <1>1
  <1> HIDE DEF t
  <1>3. Len(s) \in 0..Len(s) /\ Len(s) \in 0..Len(t)
    BY <1>1, <1>2
  <1>4. /\ SubSeq(s, 1, Len(s)) \in Seq(S) /\ Len(SubSeq(s, 1, Len(s))) = Len(s)
        /\ \A i \in 1..Len(s) : SubSeq(s, 1, Len(s))[i] = s[i]
    BY <1>3, Cut
  <1>5. /\ SubSeq(t, 1, Len(s)) \in Seq(S) /\ Len(SubSeq(t, 1, Len(s))) = Len(s)
        /\ \A i \in 1..Len(s) : SubSeq(t, 1, Len(s))[i] = t[i]
    BY <1>2, <1>3, Cut
  <1>6. SubSeq(s, 1, Len(s)) = SubSeq(t, 1, Len(s))
    BY <1>2, <1>4, <1>5, SeqEqual
  <1>7. IsPrefix(s, t)
    BY <1>2, <1>6 DEF IsPrefix
  <1>8. QED
    BY <1>7 DEF t

LEMMA TypedFromInv ==
  ASSUME Inv
  PROVE  LettersAsTyped
  <1>1. typed = (letters \o InHand) \o InBuffer
    BY DEF Inv, KeyboardInv
  <1>2. letters \in Seq(Letters) /\ InHand \in Seq(Letters) /\ InBuffer \in Seq(Letters)
    BY DEF Inv, TypeInv, InHand, InBuffer
  <1>3. typed = letters \o (InHand \o InBuffer) /\ InHand \o InBuffer \in Seq(Letters)
    BY <1>1, <1>2, ConcatAssociative, ConcatProperties
  <1>4. IsPrefix(letters, typed)
    BY <1>2, <1>3, Begins
  <1>5. ASSUME interrupted = <<>>, ~kbd.full
        PROVE  letters = typed
    <2>1. InHand = <<>> /\ InBuffer = <<>>
      <3>1. Len(Levels) = 1
        BY <1>5, Depth
      <3>2. ~(Len(Levels) > 1)
        BY <3>1
      <3>3. QED
        BY <1>5, <3>2 DEF InHand, InBuffer
    <2>2. letters \o <<>> = letters
      BY <1>2, ConcatEmptySeq
    <2>3. QED
      BY <1>1, <2>1, <2>2
  <1>6. QED
    BY <1>4, <1>5 DEF LettersAsTyped

\* The letters keyboard_handler logs are those typed, in order, none lost and
\* none twice, whatever interrupts its handler.
THEOREM LettersAreLogged == Spec => []LettersAsTyped
  <1>1. Inv => LettersAsTyped
    BY TypedFromInv
  <1>2. QED
    BY <1>1, InvHolds, PTL

-----------------------------------------------------------------------------
(* Selectors. *)

\* What trap_init, which passes 0x8, and alltraps, which loads 0x10 before
\* there is a table of the kernel's, take for granted: the loader's selectors
\* are the kernel's, and name flat segments, as qemu's loader's do.
KernelSelectors ==
  /\ LoaderCode = 8 * X86_GDT_SEG_CODEK /\ LoaderData = 8 * X86_GDT_SEG_DATAK
  /\ CodeSelector(LoaderTable, 8 * (Max(DOMAIN LoaderTable) + 1) - 1, LoaderCode)
  /\ DataSelector(LoaderTable, 8 * (Max(DOMAIN LoaderTable) + 1) - 1, LoaderData)

Selecting(r) ==
  /\ r.cs = 8 /\ r.ds = 16 /\ r.es = 16 /\ r.fs = 16 /\ r.gs = 16 /\ r.ss = 16

SelectorsInv == \A i \in 1..Len(Levels) : Selecting(Levels[i])

\* The entries of the kernel's code and data, read as the processor does.
LEMMA KernelEntries ==
  /\ Present(Flat(154)) /\ Ring(Flat(154)) = 0 /\ IsFlat(Flat(154)) /\ IsCode(Flat(154))
  /\ Present(Flat(146)) /\ Ring(Flat(146)) = 0 /\ IsFlat(Flat(146)) /\ IsWritable(Flat(146))
  <1>1. \A x \in {146, 154} :
          /\ Flat(x).ge_base_low = 0 /\ Flat(x).ge_base_mid = 0 /\ Flat(x).ge_base_high = 0
          /\ Flat(x).ge_limit_low = 65535 /\ Flat(x).ge_flags = 207 /\ Flat(x).ge_access = x
    <2>1. 0 % 256 = 0 /\ 0 \div 256 = 0 /\ (65535 % 16) + 16 * (207 \div 16) = 207
      OBVIOUS
    <2>2. QED
      BY <2>1 DEF Flat, Most, x86_gdt_set
  <1>2. 154 \div 128 = 1 /\ 146 \div 128 = 1 /\ 154 \div 32 = 4 /\ 146 \div 32 = 4
        /\ 154 \div 16 = 9 /\ 146 \div 16 = 9 /\ 154 \div 8 = 19 /\ 146 \div 8 = 18 /\ 146 \div 2 = 73
        /\ 207 \div 128 = 1 /\ 207 \div 64 = 3 /\ 207 % 16 = 15
    OBVIOUS
  <1>3. 1 % 2 = 1 /\ 4 % 4 = 0 /\ 9 % 2 = 1 /\ 19 % 2 = 1 /\ 18 % 2 = 0 /\ 73 % 2 = 1 /\ 3 % 2 = 1
    OBVIOUS
  <1>4. IsFlat(Flat(154)) /\ IsFlat(Flat(146))
    BY <1>1, <1>2, <1>3 DEF IsFlat, Bit
  <1>5. Present(Flat(154)) /\ Ring(Flat(154)) = 0 /\ IsCode(Flat(154))
    BY <1>1, <1>2, <1>3 DEF Present, Ring, IsCode, Bit
  <1>6. Present(Flat(146)) /\ Ring(Flat(146)) = 0 /\ IsWritable(Flat(146))
    BY <1>1, <1>2, <1>3 DEF Present, Ring, IsWritable, Bit
  <1>7. QED
    BY <1>4, <1>5, <1>6

\* Each step leaves in the processor the same selectors.
LEMMA SelectingKept ==
  ASSUME Inv, SelectorsInv, Next
  PROVE  Selecting(cpu')
  <1>1. Selecting(cpu)
    <2>1. Len(Levels) \in Nat \ {0} /\ Levels[Len(Levels)] = cpu
      BY LevelsType DEF Inv, TypeInv
    <2>2. Len(Levels) \in 1..Len(Levels)
      BY <2>1
    <2>3. QED
      BY <2>1, <2>2 DEF SelectorsInv
  <1>2. cpu \in Regs /\ Nested
    BY DEF Inv, TypeInv, Nested
  <1>3. CASE Boot
    <2>1. CASE sti
      BY <1>1, <1>2, <2>1 DEF sti, Selecting, Regs
    <2>2. CASE x86_lgdt_reload
      <3>1. reload /\ cpu.ip \in {"mov_ds", "mov_es", "mov_gs", "mov_fs", "mov_ss", "ljmp"}
        BY <2>2 DEF x86_lgdt_reload
      <3>2. 8 * X86_GDT_SEG_DATAK = 16 /\ 8 * X86_GDT_SEG_CODEK = 8
        BY DEF X86_GDT_SEG_DATAK, X86_GDT_SEG_CODEK
      <3>3. \/ cpu' = [cpu EXCEPT !.ds = 16, !.ip = "mov_es"]
            \/ cpu' = [cpu EXCEPT !.es = 16, !.ip = "mov_gs"]
            \/ cpu' = [cpu EXCEPT !.gs = 16, !.ip = "mov_fs"]
            \/ cpu' = [cpu EXCEPT !.fs = 16, !.ip = "mov_ss"]
            \/ cpu' = [cpu EXCEPT !.ss = 16, !.ip = "ljmp"]
            \/ cpu' = [cpu EXCEPT !.cs = 8, !.ip = "sti"]
        BY <3>1, <3>2 DEF reload
      <3>4. QED
        BY <1>1, <1>2, <3>3 DEF Selecting, Regs
    <2>3. CASE \E ip \in KernelIp : cpu' = [cpu EXCEPT !.ip = ip]
      BY <1>1, <1>2, <2>3 DEF Selecting, Regs
    <2>4. CASE cpu' = cpu
      BY <1>1, <2>4
    <2>5. CASE trap_init \/ x86_lidt \/ x86_pic_remap_save \/ x86_pic_remap \/ x86_idt_enable
               \/ segments_clear \/ segments_set \/ x86_lgdt
      <3>1. cpu' = cpu \/ \E ip \in {"x86_lidt", "x86_pic_remap", "x86_idt_enable", "segments_init",
                                     "x86_gdt_set", "x86_lgdt", "mov_ds"} : cpu' = [cpu EXCEPT !.ip = ip]
        BY <2>5 DEF trap_init, set_gates, x86_lidt, load, x86_pic_remap_save, x86_pic_remap,
                    x86_idt_enable, enable, segments_clear, segments_set, x86_lgdt, Goto
      <3>2. QED
        BY <2>3, <2>4, <3>1 DEF KernelIp, Early, Late, Ready
    <2>6. QED
      BY <1>3, <2>1, <2>2, <2>5 DEF Boot
  <1>4. CASE alltraps
    <2>1. 8 * X86_GDT_SEG_DATAK = 16
      BY DEF X86_GDT_SEG_DATAK
    <2>2. cpu' = [cpu EXCEPT !.ip = "trap_handler", !.ds = 16, !.es = 16]
      BY <1>4, <2>1 DEF alltraps
    <2>3. QED
      BY <1>1, <1>2, <2>2 DEF Selecting, Regs
  <1>5. CASE Middle
    <2>1. CASE \E ip \in HandlerIp : cpu' = [cpu EXCEPT !.ip = ip]
      BY <1>1, <1>2, <2>1 DEF Selecting, Regs
    <2>2. CASE trap_handler \/ keyboard_handler
      BY <1>1, <1>2, <2>2 DEF trap_handler, keyboard_handler, Selecting, Regs
    <2>3. CASE trap_callback
      <3>1. tf_trapno \in DOMAIN callback => callback[tf_trapno] = "keyboard_handler"
        BY DEF Inv, TablesInv, NoCallbacks
      <3>2. cpu' = [cpu EXCEPT !.ip = "keyboard_handler"] \/ cpu' = [cpu EXCEPT !.ip = "eoi1"]
        BY <2>3, <3>1 DEF trap_callback, Goto
      <3>3. QED
        BY <2>1, <3>2 DEF HandlerIp, Open
    <2>4. CASE trap_announce \/ keyboard_log \/ x86_pic_eoi_1 \/ x86_pic_eoi_2
      <3>1. \E ip \in {"callback", "eoi1", "eoi2", "trapret"} : cpu' = [cpu EXCEPT !.ip = ip]
        BY <2>4 DEF trap_announce, keyboard_log, x86_pic_eoi_1, x86_pic_eoi_2, eoi_from, Goto
      <3>2. QED
        BY <2>1, <3>1 DEF HandlerIp, Open, Closed
    <2>5. QED
      BY <1>5, <2>2, <2>3, <2>4 DEF Middle
  <1>6. CASE trapret
    <2>1. cpu.ip \notin KernelIp
      BY <1>6, IpDisjoint DEF trapret, return_with, HandlerIp, Closed
    <2>2. Len(Levels) - 1 \in Nat \ {0} /\ Len(Levels) = (Len(Levels) - 1) + 1
      BY <1>2, <2>1, AtHandler
    <2>3. PICK d \in Nat \ {0} : Len(Levels) = d + 1
      BY <2>2
    <2>4. PICK base \in [1..Len(Levels) -> Nat] : Frames(base, stack, Levels)
      BY <1>2 DEF Nested, FramesInv
    <2>5. /\ cpu'.ss = Levels[d].ss
          /\ cpu'.ds = Levels[d].ds /\ cpu'.es = Levels[d].es /\ cpu'.fs = Levels[d].fs
          /\ cpu'.gs = Levels[d].gs
      BY <1>2, <1>6, <2>3, <2>4, Popped
    <2>6. Selecting(Levels[d])
      BY <2>3 DEF SelectorsInv
    <2>7. cpu'.cs = cpu.cs
      BY <1>2, <1>6 DEF trapret, return_with, Regs
    <2>8. QED
      BY <1>1, <2>5, <2>6, <2>7 DEF Selecting
  <1>7. CASE iret
    <2>1. cpu.ip \notin KernelIp
      BY <1>7, IpDisjoint DEF iret, HandlerIp, Closed
    <2>2. Len(Levels) - 1 \in Nat \ {0} /\ Len(Levels) = (Len(Levels) - 1) + 1
      BY <1>2, <2>1, AtHandler
    <2>3. PICK d \in Nat \ {0} : Len(Levels) = d + 1
      BY <2>2
    <2>4. PICK base \in [1..Len(Levels) -> Nat] : Frames(base, stack, Levels)
      BY <1>2 DEF Nested, FramesInv
    <2>5. cpu' = Levels[d]
      BY <1>2, <1>7, <2>3, <2>4, Returned
    <2>6. QED
      BY <2>3, <2>5 DEF SelectorsInv
  <1>8. CASE Traps
    <2>1. PICK v \in 0..47 : Deliver(v)
      BY <1>8, TrapMoves
    <2>2. v \in Vectors /\ TypeInv
      BY DEF Vectors, Inv
    <2>3. /\ cpu'.cs = GATE_SEGMENT /\ cpu'.ss = cpu.ss
          /\ cpu'.ds = cpu.ds /\ cpu'.es = cpu.es /\ cpu'.fs = cpu.fs /\ cpu'.gs = cpu.gs
      BY <2>1, <2>2, Delivered
    <2>4. QED
      BY <1>1, <2>3 DEF Selecting, GATE_SEGMENT
  <1>9. CASE Devices
    BY <1>1, <1>9, DevicesKind
  <1>10. QED
    BY <1>3, <1>4, <1>5, <1>6, <1>7, <1>8, <1>9, NextCases

\* And the levels below are as they were.
LEMMA SelectorsKept ==
  ASSUME Inv, SelectorsInv, Next
  PROVE  SelectorsInv'
  <1> SUFFICES ASSUME NEW i \in 1..Len(Levels')
               PROVE  Selecting(Levels'[i])
    BY DEF SelectorsInv
  <1>1. Selecting(cpu') /\ \A j \in 1..Len(Levels) : Selecting(Levels[j])
    BY SelectingKept DEF SelectorsInv
  <1>2. TypeInv'
    BY InvNext DEF Inv
  <1>3. /\ Len(Levels') \in Nat /\ Levels'[Len(Levels')] = cpu'
    <2>1. cpu' \in Regs /\ interrupted' \in Seq(Regs)
      BY <1>2 DEF TypeInv
    <2>2. Len(Levels') = Len(interrupted') + 1 /\ Len(interrupted') \in Nat
      BY <1>2, DepthAfter
    <2>3. Append(interrupted', cpu')[Len(interrupted') + 1] = cpu'
      BY <2>1, Appended
    <2>4. QED
      BY <2>2, <2>3 DEF Levels
  <1>4. CASE i = Len(Levels')
    BY <1>1, <1>3, <1>4
  <1>5. CASE i # Len(Levels')
    <2>1. i \in 1..(Len(Levels') - 1)
      BY <1>3, <1>5
    <2>2. CASE Boot
      <3>1. Len(Levels') = 1
        BY <2>2, BootKind DEF InKernel
      <3>2. QED
        BY <1>5, <3>1
    <2>3. CASE alltraps \/ Middle \/ trapret
      <3>1. /\ Len(Levels) \in Nat /\ Len(Levels') = Len(Levels)
            /\ \A j \in 1..(Len(Levels) - 1) : Levels'[j] = Levels[j]
        BY <2>3, WithinKind DEF Within
      <3>2. Levels'[i] = Levels[i] /\ i \in 1..Len(Levels)
        BY <2>1, <3>1
      <3>3. QED
        BY <1>1, <3>2
    <2>4. CASE iret
      <3>1. /\ Len(Levels) \in Nat /\ Len(Levels') = Len(Levels) - 1
            /\ \A j \in 1..(Len(Levels) - 1) : Levels'[j] = Levels[j]
        BY <2>4, OutOfKind DEF OutOf
      <3>2. i \in 1..(Len(Levels) - 1) /\ i \in 1..Len(Levels)
        BY <3>1
      <3>3. QED
        BY <1>1, <3>1, <3>2
    <2>5. CASE Traps
      <3>1. PICK v \in 0..47 : Deliver(v)
        BY <2>5, TrapMoves
      <3>2. /\ Len(Levels) \in Nat /\ Len(Levels') = Len(Levels) + 1
            /\ \A j \in 1..Len(Levels) : Levels'[j] = Levels[j]
        BY <2>5, <3>1, IntoKind DEF Into
      <3>3. i \in 1..Len(Levels)
        BY <2>1, <3>2
      <3>4. QED
        BY <1>1, <3>2, <3>3
    <2>6. CASE Devices
      BY <1>1, <2>6, DevicesKind
    <2>7. QED
      BY <2>2, <2>3, <2>4, <2>5, <2>6, NextCases
  <1>6. QED
    BY <1>4, <1>5

LEMMA SelectorsStutter ==
  ASSUME SelectorsInv, UNCHANGED vars
  PROVE  SelectorsInv'
  BY DEF SelectorsInv, Levels, vars, history

LEMMA SelectorsInit ==
  ASSUME Init, KernelSelectors
  PROVE  SelectorsInv
  <1>1. Len(Levels) = 1 /\ Levels[1] = cpu
    <2>1. Inv /\ interrupted = <<>>
      BY InitInv DEF Init
    <2>2. Len(Levels) = Len(interrupted) + 1 /\ Levels[Len(Levels)] = cpu
      BY <2>1, LevelsType DEF Inv, TypeInv
    <2>3. QED
      BY <2>1, <2>2, EmptySeq
  <1>2. Selecting(cpu)
    BY DEF Init, KernelSelectors, Selecting, X86_GDT_SEG_CODEK, X86_GDT_SEG_DATAK
  <1>3. QED
    BY <1>1, <1>2 DEF SelectorsInv

\* The table in force has those segments.
LEMMA TableSelects ==
  ASSUME Inv, KernelSelectors
  PROVE  CodeSelector(Table, Limit, 8) /\ DataSelector(Table, Limit, 16)
  <1>1. CASE "gdt" \notin loaded
    <2>1. Table = LoaderTable /\ Limit = 8 * (Max(DOMAIN LoaderTable) + 1) - 1
      BY <1>1 DEF Table, Limit
    <2>2. LoaderCode = 8 /\ LoaderData = 16
      BY DEF KernelSelectors, X86_GDT_SEG_CODEK, X86_GDT_SEG_DATAK
    <2>3. QED
      BY <2>1, <2>2 DEF KernelSelectors
  <1>2. CASE "gdt" \in loaded
    <2>1. Here \in Ready
      BY <1>2 DEF Inv, TablesInv
    <2>2. filled = 5
      BY <2>1 DEF Inv, SegmentsInv
    <2>3. \A n \in 1..5 : cpu_gdt[entries(TSS)[n][1]] = entries(TSS)[n][2]
      BY <2>2 DEF Inv, SegmentsInv
    <2>4. /\ entries(TSS)[1][1] = 1 /\ entries(TSS)[1][2] = Flat(154)
          /\ entries(TSS)[2][1] = 2 /\ entries(TSS)[2][2] = Flat(146)
      BY DEF entries, X86_GDT_SEG_CODEK, X86_GDT_SEG_DATAK
    <2>5. cpu_gdt[1] = Flat(154) /\ cpu_gdt[2] = Flat(146)
      <3>1. 1 \in 1..5 /\ 2 \in 1..5
        OBVIOUS
      <3>2. QED
        BY <2>3, <2>4, <3>1
    <2>6. Table = cpu_gdt /\ Limit = 47
      BY <1>2 DEF Table, Limit, X86_GDT_SEG_SIZE
    <2>7. Selects(8, 47) /\ Selects(16, 47) /\ 8 \div 8 = 1 /\ 16 \div 8 = 2
      BY DEF Selects
    <2>8. QED
      BY <2>5, <2>6, <2>7, KernelEntries DEF CodeSelector, DataSelector
  <1>3. QED
    BY <1>1, <1>2

LEMMA UsableFromInv ==
  ASSUME Inv, SelectorsInv, KernelSelectors
  PROVE  SelectorsUsable
  <1>1. CodeSelector(Table, Limit, 8) /\ DataSelector(Table, Limit, 16)
    BY TableSelects
  <1>2. ASSUME NEW r \in {cpu} \cup Range(interrupted)
        PROVE  Selecting(r)
    <2>1. cpu \in Regs /\ interrupted \in Seq(Regs)
      BY DEF Inv, TypeInv
    <2>2. /\ Len(Levels) = Len(interrupted) + 1 /\ Len(interrupted) \in Nat
          /\ \A i \in 1..Len(interrupted) : Levels[i] = interrupted[i]
          /\ Levels[Len(Levels)] = cpu
      BY <2>1, LevelsType, LenProperties
    <2>3. \E i \in 1..Len(Levels) : r = Levels[i]
      <3>1. CASE r = cpu
        <4>1. Len(Levels) \in 1..Len(Levels)
          BY <2>2
        <4>2. QED
          BY <2>2, <3>1, <4>1
      <3>2. CASE r \in Range(interrupted)
        <4>1. PICK i \in DOMAIN interrupted : r = interrupted[i]
          BY <3>2 DEF Range
        <4>2. i \in 1..Len(interrupted) /\ i \in 1..Len(Levels)
          BY <2>1, <2>2, LenProperties
        <4>3. QED
          BY <2>2, <4>1, <4>2
      <3>3. QED
        BY <1>2, <3>1, <3>2
    <2>4. QED
      BY <2>3 DEF SelectorsInv
  <1>3. \A r \in {cpu} \cup Range(interrupted) :
          /\ CodeSelector(Table, Limit, r.cs)
          /\ \A selector \in {r.ds, r.es, r.fs, r.gs, r.ss} : DataSelector(Table, Limit, selector)
    BY <1>1, <1>2 DEF Selecting
  <1>4. 8 * X86_GDT_SEG_DATAK = 16 /\ GATE_SEGMENT = 8
    BY DEF X86_GDT_SEG_DATAK, GATE_SEGMENT
  <1>5. QED
    BY <1>1, <1>3, <1>4 DEF SelectorsUsable

\* From a loader that left the kernel's own selectors in place, every selector
\* in use, and every one a trap would load, names a flat segment of the right
\* kind in the table in force, while segments_init replaces that table too.
THEOREM SelectorsStayUsable ==
  ASSUME KernelSelectors
  PROVE  Spec => []SelectorsUsable
  <1>1. Init => SelectorsInv
    BY SelectorsInit
  <1>2. Inv /\ SelectorsInv /\ [Next]_vars => SelectorsInv'
    BY SelectorsKept, SelectorsStutter
  <1>3. Inv /\ SelectorsInv => SelectorsUsable
    BY UsableFromInv
  <1>4. QED
    BY <1>1, <1>2, <1>3, InvHolds, PTL DEF Spec

=============================================================================
