---------------------------- MODULE BoundedFifo ----------------------------
(***************************************************************************)
(* What a cs_queue promises to its clients (include/cs_queue.h): a first-  *)
(* in first-out buffer that never holds more than Capacity elements and    *)
(* that accepts nothing after it was closed, although what it holds at     *)
(* that time can still be taken out.                                       *)
(***************************************************************************)
EXTENDS Naturals, Sequences

CONSTANTS Data,      \* what may be put into the buffer
          Capacity   \* the most elements it may hold

VARIABLES buf,       \* the elements, the oldest one first
          open       \* FALSE once the buffer was closed

fifoVars == <<buf, open>>

Init == buf = <<>> /\ open = TRUE

Put(d) == /\ open
          /\ Len(buf) < Capacity
          /\ buf' = Append(buf, d)
          /\ UNCHANGED open

Get == /\ buf # <<>>
       /\ buf' = Tail(buf)
       /\ UNCHANGED open

Close == open' = FALSE /\ UNCHANGED buf

Next == (\E d \in Data : Put(d)) \/ Get \/ Close

Spec == Init /\ [][Next]_fifoVars
=============================================================================
