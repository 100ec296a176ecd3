---------------------------- MODULE EventMailbox ----------------------------
(***************************************************************************)
(* What the connection of cdp.rs promises the policy: the browser's events *)
(* reach the handler one at a time, in the order they were sent, each      *)
(* once, and never while an earlier one is still being handled.            *)
(***************************************************************************)
EXTENDS Naturals, Sequences

CONSTANT MaxEvents      \* bound: events the browser sends, numbered in order

NoEvent == 0

VARIABLES sent,         \* how many events the browser has sent
          inbox,        \* those not yet delivered
          current       \* the one being handled, or NoEvent

vars == <<sent, inbox, current>>

Init == sent = 0 /\ inbox = <<>> /\ current = NoEvent

Send == /\ sent < MaxEvents
        /\ sent' = sent + 1
        /\ inbox' = Append(inbox, sent')
        /\ UNCHANGED current

Deliver == /\ current = NoEvent /\ inbox # <<>>
           /\ current' = Head(inbox)
           /\ inbox' = Tail(inbox)
           /\ UNCHANGED sent

Handled == /\ current # NoEvent
           /\ current' = NoEvent
           /\ UNCHANGED <<sent, inbox>>

Next == Send \/ Deliver \/ Handled

Spec == Init /\ [][Next]_vars
=============================================================================
