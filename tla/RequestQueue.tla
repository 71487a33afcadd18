---------------------------- MODULE RequestQueue ----------------------------
(***************************************************************************)
(* What a FIFO queue extension promises: requests join at the back and     *)
(* leave from the front.                                                   *)
(***************************************************************************)
EXTENDS Sequences, Integers

CONSTANT Requests
VARIABLE items

Waiting == {items[i] : i \in 1 .. Len(items)}

Init == items = <<>>

Join(r) == r \notin Waiting /\ items' = Append(items, r)

Leave == items # <<>> /\ items' = Tail(items)

Next == Leave \/ \E r \in Requests : Join(r)

Spec == Init /\ [][Next]_items
=============================================================================
