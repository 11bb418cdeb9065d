----------------------------- MODULE BoundedFifo -----------------------------
(***************************************************************************)
(* What a circular buffer promises: a first-in first-out queue of at most  *)
(* Capacity bytes.  A put into a full queue and a get from an empty one    *)
(* fail and change nothing.                                                *)
(***************************************************************************)
EXTENDS Integers, Sequences

CONSTANTS Byte, Capacity, NoByte

VARIABLES
    queue,   \* the bytes, oldest first
    result   \* what the last operation returned

vars == <<queue, result>>

Init == queue = <<>> /\ result = NoByte

Put(value) ==
    IF Len(queue) < Capacity
    THEN queue' = Append(queue, value) /\ result' = value
    ELSE queue' = queue /\ result' = NoByte

Get ==
    IF queue # <<>>
    THEN queue' = Tail(queue) /\ result' = Head(queue)
    ELSE queue' = queue /\ result' = NoByte

Next == (\E value \in Byte : Put(value)) \/ Get

Spec == Init /\ [][Next]_vars
=============================================================================
