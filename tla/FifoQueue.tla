----------------------------- MODULE FifoQueue -----------------------------
(***************************************************************************)
(* What sbuf.h promises to its callers: a bounded first-in first-out       *)
(* buffer.  An item enters at the rear when there is room, and the oldest  *)
(* item leaves at the front; nothing is lost, duplicated or reordered.     *)
(***************************************************************************)
EXTENDS Naturals, Sequences

CONSTANTS Values,  \* the items that can be stored
          N        \* the number of slots

VARIABLE q         \* the items inserted and not yet removed, oldest first

Init == q = << >>

Put(v) == Len(q) < N /\ q' = Append(q, v)

Get == q # << >> /\ q' = Tail(q)

Next == (\E v \in Values : Put(v)) \/ Get

Spec == Init /\ [][Next]_q
============================================================================
