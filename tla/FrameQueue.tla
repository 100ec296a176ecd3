----------------------------- MODULE FrameQueue -----------------------------
(***************************************************************************)
(* What the transport of platform/mod.rs promises the connection: the      *)
(* frames the browser wrote, whole, once each and in order.                *)
(***************************************************************************)
EXTENDS Naturals, Sequences

CONSTANT Frames         \* the frames the browser may write

VARIABLES written,      \* what it wrote
          received      \* what the connection was handed

vars == <<written, received>>

Init == written = <<>> /\ received = <<>>

Write == \E f \in Frames : written' = Append(written, f) /\ UNCHANGED received

Receive == /\ Len(received) < Len(written)
           /\ received' = Append(received, written[Len(received) + 1])
           /\ UNCHANGED written

Next == Write \/ Receive

Spec == Init /\ [][Next]_vars
=============================================================================
