---------------------------- MODULE BoundedFifo ----------------------------
(***************************************************************************)
(* What the producer/consumer queue promises: a FIFO of bounded length     *)
(* whose messages are numbered in the order they are put.                  *)
(***************************************************************************)
EXTENDS Naturals, Sequences

CONSTANT Capacity

VARIABLES q,   \* the messages in the queue
          out  \* the messages received

Init == q = <<>> /\ out = <<>>

(* The next message is numbered by how many were put before it. *)
Put ==
  /\ Len(q) < Capacity
  /\ q' = Append(q, Len(out) + Len(q))
  /\ UNCHANGED out

Get ==
  /\ q # <<>>
  /\ q' = Tail(q)
  /\ out' = Append(out, Head(q))

Spec == Init /\ [][Put \/ Get]_<<q, out>>
=============================================================================
