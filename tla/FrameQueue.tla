------------------------------ MODULE FrameQueue ------------------------------
(***************************************************************************)
(* What the page allocator promises its callers (kernel/include/mm/        *)
(* pages.h): page frames are handed out one at a time in the order in      *)
(* which they were given back, a frame that is out is never handed out     *)
(* again, and none is lost.  Pages.tla is the code, and implements this.   *)
(***************************************************************************)
EXTENDS Sequences

CONSTANT Frame

VARIABLES queue,   \* the free frames, oldest first
          out      \* the frames held by callers

Init == queue = <<>> /\ out = Frame

Alloc ==
  /\ queue # <<>>
  /\ out' = out \cup {Head(queue)}
  /\ queue' = Tail(queue)

Free(frame) ==
  /\ frame \in out
  /\ out' = out \ {frame}
  /\ queue' = Append(queue, frame)

Next == Alloc \/ \E frame \in Frame : Free(frame)

Spec == Init /\ [][Next]_<<queue, out>>

=============================================================================
