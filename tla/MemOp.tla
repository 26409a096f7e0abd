-------------------------------- MODULE MemOp --------------------------------
(***************************************************************************)
(* The memory operations of kernel/memop.c: memset, memcpy and memmove,    *)
(* byte by byte.  memmove is memcpy when the destination lies below the    *)
(* source, and a loop from the end otherwise.                              *)
(*                                                                         *)
(* Callers pass regions that lie in memory, and memcpy's two regions do    *)
(* not overlap; memmove's may.                                             *)
(***************************************************************************)
EXTENDS Integers

CONSTANTS
  Top,    \* memory is the addresses 0..(Top - 1)
  Byte

ASSUME MemAssumption == Top \in Nat /\ 0 \in Byte

Addr == 0..(Top - 1)

VARIABLES
  mem,
  call,    \* the function in progress: its arguments, and its variables
  before   \* history: memory when it was called

vars == <<mem, call, before>>

Loops == {"none", "set", "up", "down"}

Call == [loop : Loops, dst_ : 0..Top, src_ : 0..Top, val : Byte, len : 0..Top,
         dst : 0..Top, src : 0..Top, size : 0..Top]

NoCall == [loop |-> "none", dst_ |-> 0, src_ |-> 0, val |-> 0, len |-> 0,
           dst |-> 0, src |-> 0, size |-> 0]

Idle == call.loop = "none"

Init ==
  /\ mem \in [Addr -> Byte]
  /\ call = NoCall
  /\ before = mem

-----------------------------------------------------------------------------
Enter(loop, dst_, src_, val, len, dst, src) ==
  /\ Idle
  /\ dst_ + len <= Top /\ src_ + len <= Top
  /\ call' = [loop |-> loop, dst_ |-> dst_, src_ |-> src_, val |-> val, len |-> len,
              dst |-> dst, src |-> src, size |-> len]
  /\ before' = mem
  /\ UNCHANGED mem

memset(ptr_, val, size) == Enter("set", ptr_, ptr_, val, size, ptr_, ptr_)

Disjoint(dst_, src_, size) == dst_ + size <= src_ \/ src_ + size <= dst_

memcpy_body(dst_, src_, size) == Enter("up", dst_, src_, 0, size, dst_, src_)

memcpy(dst_, src_, size) == Disjoint(dst_, src_, size) /\ memcpy_body(dst_, src_, size)

\* Mutant: the cursors start one byte too far.
from_end_past(dst_, src_, size) == Enter("down", dst_, src_, 0, size, dst_ + size + 1, src_ + size + 1)

from_end(dst_, src_, size) == Enter("down", dst_, src_, 0, size, dst_ + size, src_ + size)

\* Mutants: always from the start; the test the wrong way round.
memmove_up(dst_, src_, size) == memcpy_body(dst_, src_, size)
memmove_reversed(dst_, src_, size) ==
  IF dst_ > src_ THEN memcpy_body(dst_, src_, size) ELSE from_end(dst_, src_, size)

memmove(dst_, src_, size) ==
  IF dst_ < src_ THEN memcpy_body(dst_, src_, size) ELSE from_end(dst_, src_, size)

\* The test of size and the body of each loop.
set_byte ==
  /\ call.loop = "set" /\ call.size # 0
  /\ mem' = [mem EXCEPT ![call.dst] = call.val]
  /\ call' = [call EXCEPT !.dst = @ + 1, !.size = @ - 1]
  /\ UNCHANGED before

copy_up ==
  /\ call.loop = "up" /\ call.size # 0
  /\ mem' = [mem EXCEPT ![call.dst] = mem[call.src]]
  /\ call' = [call EXCEPT !.dst = @ + 1, !.src = @ + 1, !.size = @ - 1]
  /\ UNCHANGED before

copy_down ==
  /\ call.loop = "down" /\ call.size # 0
  /\ mem' = [mem EXCEPT ![call.dst - 1] = mem[call.src - 1]]
  /\ call' = [call EXCEPT !.dst = @ - 1, !.src = @ - 1, !.size = @ - 1]
  /\ UNCHANGED before

return_when(over) ==
  /\ ~Idle /\ over
  /\ call' = NoCall
  /\ UNCHANGED <<mem, before>>

\* Mutant: a size that is tested for being negative.
return_negative == return_when(call.size < 0)

return == return_when(call.size = 0)

Next ==
  \/ \E ptr_, size \in 0..Top, val \in Byte : memset(ptr_, val, size)
  \/ \E dst_, src_, size \in 0..Top : memcpy(dst_, src_, size) \/ memmove(dst_, src_, size)
  \/ set_byte \/ copy_up \/ copy_down \/ return

\* The processor executes the loops.
Spec == Init /\ [][Next]_vars /\ WF_vars(set_byte \/ copy_up \/ copy_down \/ return)

-----------------------------------------------------------------------------
(* Properties. *)

TypeOK ==
  /\ mem \in [Addr -> Byte]
  /\ call \in Call
  /\ before \in [Addr -> Byte]

\* What a function is meant to leave in memory, as one simultaneous store.
Result ==
  [x \in Addr |->
     IF ~(call.dst_ <= x /\ x < call.dst_ + call.len) THEN before[x]
     ELSE IF call.loop = "set" THEN call.val
     ELSE before[call.src_ + (x - call.dst_)]]

\* A function returns with memory as if all its bytes had been read before the
\* first was written, and with no byte outside the destination changed: also
\* when the regions overlap, on either side, and at size zero.
AsIfAtOnce == [][~Idle /\ Idle' => mem' = Result]_vars

\* At no time, not even for a while, is a byte outside the destination changed
\* or one inside set to anything but its old or its new value.
NeverElse ==
  ~Idle => \A x \in Addr : mem[x] \in {before[x], Result[x]}

\* Every call returns.
Returns == ~Idle ~> Idle

=============================================================================
