------------------------------- MODULE Mailbox -------------------------------
(***************************************************************************)
(* What a reporter's memory promises about the payloads it could not       *)
(* deliver: one queue, in the order they were captured, cut at its oldest  *)
(* end and nowhere else, emptied at once by a delivery, by a restart or by *)
(* a payload that cannot be sent.                                          *)
(***************************************************************************)
EXTENDS Sequences, Naturals

CONSTANTS Payloads, Bound

VARIABLE queue

Init == queue = << >>

\* One payload more than the bound: the one being captured right now.
Accept(p) == Len(queue) <= Bound /\ queue' = Append(queue, p)

DropOldest == Len(queue) > Bound /\ queue' = Tail(queue)

Empty == queue' = << >>

Next == (\E p \in Payloads : Accept(p)) \/ DropOldest \/ Empty

Spec == Init /\ [][Next]_queue

=============================================================================
