----------------------------- MODULE MemOpProofs -----------------------------
(***************************************************************************)
(* MemOp for every memory and every call: the loops leave what one         *)
(* simultaneous store would.                                               *)
(*                                                                         *)
(* Result is a statement about the end of a call.  What holds between is   *)
(* Progress: the bytes already passed by the cursor have their new value,  *)
(* all others their old one, and the source bytes still to be read are     *)
(* among the others.  The last part is why the direction matters.          *)
(***************************************************************************)
EXTENDS MemOp, TLAPS

\* The cursors and the size move together, inside the regions.
Cursors ==
  /\ call.dst_ + call.len <= Top /\ call.src_ + call.len <= Top
  /\ call.size <= call.len
  /\ call.loop \in {"set", "up"} =>
       call.dst = call.dst_ + (call.len - call.size)
  /\ call.loop = "up" => call.src = call.src_ + (call.len - call.size)
  /\ call.loop = "down" => call.dst = call.dst_ + call.size /\ call.src = call.src_ + call.size

\* Forward copies go down, or between regions apart; backward ones go up.
Direction ==
  /\ call.loop = "up" => call.dst_ < call.src_ \/ Disjoint(call.dst_, call.src_, call.len)
  /\ call.loop = "down" => call.dst_ >= call.src_

Written(x) ==
  IF call.loop = "down"
  THEN call.dst <= x /\ x < call.dst_ + call.len
  ELSE call.dst_ <= x /\ x < call.dst

Progress == ~Idle => \A x \in Addr : mem[x] = IF Written(x) THEN Result[x] ELSE before[x]

IInv == TypeOK /\ Cursors /\ Direction /\ Progress

-----------------------------------------------------------------------------
LEMMA InitInv == Init => IInv
  BY MemAssumption
  DEF Init, IInv, TypeOK, Cursors, Direction, Progress, NoCall, Call, Loops, Idle, Disjoint

\* A call begins with nothing written.
LEMMA EnterInv ==
  ASSUME IInv,
         NEW loop \in {"set", "up", "down"}, NEW dst_ \in 0..Top, NEW src_ \in 0..Top,
         NEW val \in Byte, NEW len \in 0..Top, NEW dst \in 0..Top, NEW src \in 0..Top,
         Enter(loop, dst_, src_, val, len, dst, src),
         loop = "down" => dst = dst_ + len /\ src = src_ + len /\ dst_ >= src_,
         loop # "down" => dst = dst_ /\ src = src_,
         loop = "up" => dst_ < src_ \/ Disjoint(dst_, src_, len)
  PROVE  IInv'
  <1>1. call' = [loop |-> loop, dst_ |-> dst_, src_ |-> src_, val |-> val, len |-> len,
                 dst |-> dst, src |-> src, size |-> len]
    BY DEF Enter
  <1>2. mem' = mem /\ before' = mem
    BY DEF Enter
  <1>3. TypeOK'
    BY <1>1, <1>2, MemAssumption DEF IInv, TypeOK, Call, Loops
  <1>4. Cursors' /\ Direction'
    BY <1>1, MemAssumption DEF Enter, Cursors, Direction, Disjoint
  <1>5. \A x \in Addr : ~Written(x)'
    BY <1>1, MemAssumption DEF Written, Addr
  <1>6. Progress'
    BY <1>2, <1>5 DEF Progress
  <1> QED
    BY <1>3, <1>4, <1>6 DEF IInv

\* Result does not change while a call is in progress.
LEMMA SameResult ==
  ASSUME before' = before, call'.loop = call.loop, call'.dst_ = call.dst_,
         call'.src_ = call.src_, call'.val = call.val, call'.len = call.len
  PROVE  Result' = Result
  BY DEF Result

LEMMA SetInv == IInv /\ set_byte => IInv'
  <1> SUFFICES ASSUME IInv, set_byte PROVE IInv'
    OBVIOUS
  <1>1. call \in Call /\ mem \in [Addr -> Byte] /\ before \in [Addr -> Byte]
    BY DEF IInv, TypeOK
  <1>2. call.dst = call.dst_ + (call.len - call.size) /\ call.dst_ + call.len <= Top
        /\ call.size > 0 /\ call.size <= call.len /\ call.loop = "set"
    BY <1>1 DEF IInv, Cursors, set_byte, Call
  <1>3. call' = [call EXCEPT !.dst = @ + 1, !.size = @ - 1] /\ before' = before
    BY DEF set_byte
  <1>4. mem' = [mem EXCEPT ![call.dst] = call.val] /\ call.dst \in Addr
    BY <1>1, <1>2, MemAssumption DEF set_byte, Addr, Call
  <1>5. TypeOK'
    <2>1. call.dst + 1 \in 0..Top /\ call.size - 1 \in 0..Top
      BY <1>1, <1>2, MemAssumption DEF Call
    <2>2. call' \in Call
      BY <1>1, <1>3, <2>1 DEF Call
    <2>3. mem' \in [Addr -> Byte]
      BY <1>1, <1>4 DEF Call
    <2> QED
      BY <1>1, <1>3, <2>2, <2>3 DEF TypeOK
  <1>6. Cursors' /\ Direction'
    BY <1>1, <1>2, <1>3, MemAssumption DEF IInv, Cursors, Direction, Call
  <1>7. Result' = Result
    BY <1>1, <1>3, SameResult DEF Call
  <1>8. \A x \in Addr : Written(x)' <=> Written(x) \/ x = call.dst
    BY <1>1, <1>2, <1>3, MemAssumption DEF Written, Addr, Call
  <1>9. Result[call.dst] = call.val
    BY <1>1, <1>2, <1>4, MemAssumption DEF Result, Call, Addr
  <1>10. ~Idle
    BY <1>2 DEF Idle
  <1>11. Progress'
    BY <1>1, <1>3, <1>4, <1>7, <1>8, <1>9, <1>10 DEF IInv, Progress
  <1> QED
    BY <1>5, <1>6, <1>11 DEF IInv

\* The byte at src has not been written, so it is the one that was there.
LEMMA UpInv == IInv /\ copy_up => IInv'
  <1> SUFFICES ASSUME IInv, copy_up PROVE IInv'
    OBVIOUS
  <1>1. call \in Call /\ mem \in [Addr -> Byte] /\ before \in [Addr -> Byte]
    BY DEF IInv, TypeOK
  <1>2. /\ call.dst = call.dst_ + (call.len - call.size) /\ call.dst_ + call.len <= Top
        /\ call.src = call.src_ + (call.len - call.size) /\ call.src_ + call.len <= Top
        /\ call.size > 0 /\ call.size <= call.len /\ call.loop = "up"
    BY <1>1 DEF IInv, Cursors, copy_up, Call
  <1>3. call' = [call EXCEPT !.dst = @ + 1, !.src = @ + 1, !.size = @ - 1] /\ before' = before
    BY DEF copy_up
  <1>4. mem' = [mem EXCEPT ![call.dst] = mem[call.src]]
        /\ call.dst \in Addr /\ call.src \in Addr
    BY <1>1, <1>2, MemAssumption DEF copy_up, Addr, Call
  <1>5. TypeOK'
    <2>1. call.dst + 1 \in 0..Top /\ call.src + 1 \in 0..Top /\ call.size - 1 \in 0..Top
      BY <1>1, <1>2, MemAssumption DEF Call
    <2>2. call' \in Call
      BY <1>1, <1>3, <2>1 DEF Call
    <2>3. mem' \in [Addr -> Byte]
      BY <1>1, <1>4 DEF Call
    <2> QED
      BY <1>1, <1>3, <2>2, <2>3 DEF TypeOK
  <1>6. Cursors' /\ Direction'
    BY <1>1, <1>2, <1>3, MemAssumption DEF IInv, Cursors, Direction, Call, Disjoint
  <1>7. Result' = Result
    BY <1>1, <1>3, SameResult DEF Call
  <1>8. \A x \in Addr : Written(x)' <=> Written(x) \/ x = call.dst
    BY <1>1, <1>2, <1>3, MemAssumption DEF Written, Addr, Call
  <1>9. ~Written(call.src)
    BY <1>1, <1>2, MemAssumption DEF IInv, Direction, Disjoint, Written, Call
  <1>10. ~Idle
    BY <1>2 DEF Idle
  <1>11. mem[call.src] = before[call.src]
    BY <1>4, <1>9, <1>10 DEF IInv, Progress
  <1>12. Result[call.dst] = before[call.src]
    BY <1>1, <1>2, <1>4, MemAssumption DEF Result, Call, Addr
  <1>13. Progress'
    BY <1>1, <1>3, <1>4, <1>7, <1>8, <1>10, <1>11, <1>12 DEF IInv, Progress
  <1> QED
    BY <1>5, <1>6, <1>13 DEF IInv

LEMMA DownInv == IInv /\ copy_down => IInv'
  <1> SUFFICES ASSUME IInv, copy_down PROVE IInv'
    OBVIOUS
  <1> DEFINE d == call.dst - 1
             s == call.src - 1
  <1>1. call \in Call /\ mem \in [Addr -> Byte] /\ before \in [Addr -> Byte]
    BY DEF IInv, TypeOK
  <1>2. /\ call.dst = call.dst_ + call.size /\ call.dst_ + call.len <= Top
        /\ call.src = call.src_ + call.size /\ call.src_ + call.len <= Top
        /\ call.size > 0 /\ call.size <= call.len /\ call.loop = "down"
    BY <1>1 DEF IInv, Cursors, copy_down, Call
  <1>3. call' = [call EXCEPT !.dst = @ - 1, !.src = @ - 1, !.size = @ - 1] /\ before' = before
    BY DEF copy_down
  <1>4. mem' = [mem EXCEPT ![d] = mem[s]] /\ d \in Addr /\ s \in Addr
    BY <1>1, <1>2, MemAssumption DEF copy_down, Addr, Call
  <1>5. TypeOK'
    <2>1. call.dst - 1 \in 0..Top /\ call.src - 1 \in 0..Top /\ call.size - 1 \in 0..Top
      BY <1>1, <1>2, MemAssumption DEF Call
    <2>2. call' \in Call
      BY <1>1, <1>3, <2>1 DEF Call
    <2>3. mem' \in [Addr -> Byte]
      BY <1>1, <1>4 DEF Call
    <2> QED
      BY <1>1, <1>3, <2>2, <2>3 DEF TypeOK
  <1>6. Cursors' /\ Direction'
    BY <1>1, <1>2, <1>3, MemAssumption DEF IInv, Cursors, Direction, Call
  <1>7. Result' = Result
    BY <1>1, <1>3, SameResult DEF Call
  <1>8. \A x \in Addr : Written(x)' <=> Written(x) \/ x = d
    <2>1. call'.loop = "down" /\ call'.dst = d /\ call'.dst_ = call.dst_ /\ call'.len = call.len
      BY <1>1, <1>2, <1>3 DEF Call
    <2>2. /\ call.dst \in Int /\ call.dst_ \in Int /\ call.len \in Int
          /\ d < call.dst_ + call.len
      BY <1>1, <1>2, MemAssumption DEF Call
    <2> QED
      BY <1>2, <2>1, <2>2, MemAssumption DEF Written, Addr
  <1>9. ~Written(s)
    BY <1>1, <1>2, MemAssumption DEF IInv, Direction, Written, Call
  <1>10. ~Idle
    BY <1>2 DEF Idle
  <1>11. mem[s] = before[s]
    BY <1>4, <1>9, <1>10 DEF IInv, Progress
  <1>12. Result[d] = before[s]
    <2>1. /\ call.dst_ \in Int /\ call.src_ \in Int /\ call.len \in Int /\ call.size \in Int
          /\ call.dst_ <= d /\ d < call.dst_ + call.len /\ call.src_ + (d - call.dst_) = s
      BY <1>1, <1>2, MemAssumption DEF Call
    <2> HIDE DEF d, s
    <2> QED
      BY <1>2, <1>4, <2>1 DEF Result
  <1>13. Progress'
    BY <1>1, <1>3, <1>4, <1>7, <1>8, <1>10, <1>11, <1>12 DEF IInv, Progress
  <1> QED
    BY <1>5, <1>6, <1>13 DEF IInv

LEMMA ReturnInv == IInv /\ return => IInv'
  BY MemAssumption
  DEF return, return_when, IInv, TypeOK, Cursors, Direction, Progress, NoCall, Call, Loops,
      Idle, Disjoint

LEMMA CallInv ==
  ASSUME IInv, NEW dst_ \in 0..Top, NEW src_ \in 0..Top, NEW size \in 0..Top,
         memcpy(dst_, src_, size) \/ memmove(dst_, src_, size)
  PROVE  IInv'
  <1>1. CASE Enter("up", dst_, src_, 0, size, dst_, src_)
             /\ (dst_ < src_ \/ Disjoint(dst_, src_, size))
    BY <1>1, EnterInv, MemAssumption
  <1>2. CASE Enter("down", dst_, src_, 0, size, dst_ + size, src_ + size) /\ ~(dst_ < src_)
    <2>1. dst_ + size \in 0..Top /\ src_ + size \in 0..Top /\ dst_ >= src_
      BY <1>2, MemAssumption DEF Enter
    <2> QED
      BY <1>2, <2>1, EnterInv, MemAssumption
  <1> QED
    BY <1>1, <1>2 DEF memcpy, memmove, memcpy_body, from_end

LEMMA Inductive == IInv /\ [Next]_vars => IInv'
  <1> SUFFICES ASSUME IInv, [Next]_vars PROVE IInv'
    OBVIOUS
  <1>1. ASSUME NEW ptr_ \in 0..Top, NEW size \in 0..Top, NEW val \in Byte, memset(ptr_, val, size)
        PROVE  IInv'
    BY <1>1, EnterInv, MemAssumption DEF memset
  <1>2. ASSUME NEW dst_ \in 0..Top, NEW src_ \in 0..Top, NEW size \in 0..Top,
               memcpy(dst_, src_, size) \/ memmove(dst_, src_, size)
        PROVE  IInv'
    BY <1>2, CallInv
  <1>3. CASE UNCHANGED vars
    BY <1>3
    DEF vars, IInv, TypeOK, Cursors, Direction, Progress, Written, Result, Idle, Disjoint
  <1> QED
    BY <1>1, <1>2, <1>3, SetInv, UpInv, DownInv, ReturnInv DEF Next

LEMMA Invariance == Spec => []IInv
  BY InitInv, Inductive, PTL DEF Spec

-----------------------------------------------------------------------------
\* Every cursor stays in memory: no call of memset, memcpy or memmove with
\* regions in memory reads or writes outside of it.
THEOREM MemTypeCorrect == Spec => []TypeOK
  <1>1. IInv => TypeOK
    BY DEF IInv
  <1> QED
    BY <1>1, Invariance, PTL

\* When memset, memcpy or memmove return, memory is as one simultaneous store
\* would have left it, however the regions of memmove overlap.
THEOREM CopiesAtOnce == Spec => AsIfAtOnce
  <1>1. IInv /\ [Next]_vars => [~Idle /\ Idle' => mem' = Result]_vars
    <2> SUFFICES ASSUME IInv, Next, ~Idle, Idle' PROVE mem' = Result
      OBVIOUS
    <2>1. call \in Call
      BY DEF IInv, TypeOK
    <2>2. return
      BY <2>1
      DEF Next, memset, memcpy, memmove, memcpy_body, from_end, Enter, set_byte, copy_up,
          copy_down, Idle, Call
    <2>3. call.size = 0 /\ mem' = mem
      BY <2>2 DEF return, return_when
    <2>4. \A x \in Addr : Written(x) <=> call.dst_ <= x /\ x < call.dst_ + call.len
      BY <2>1, <2>3, MemAssumption DEF IInv, Cursors, Written, Addr, Call, Loops, Idle
    <2>5. \A x \in Addr : ~Written(x) => Result[x] = before[x]
      BY <2>4 DEF Result
    <2>6. \A x \in Addr : mem[x] = Result[x]
      BY <2>5 DEF IInv, Progress
    <2>7. mem \in [Addr -> Byte] /\ Result = [x \in Addr |-> Result[x]]
      BY DEF IInv, TypeOK, Result
    <2> QED
      BY <2>3, <2>6, <2>7
  <1> QED
    BY <1>1, Invariance, PTL DEF Spec, AsIfAtOnce

\* Meanwhile every byte has its old or its new value.
THEOREM NoOtherValue == Spec => []NeverElse
  <1>1. IInv => NeverElse
    BY DEF IInv, Progress, NeverElse
  <1> QED
    BY <1>1, Invariance, PTL

=============================================================================
