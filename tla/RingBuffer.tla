----------------------------- MODULE RingBuffer -----------------------------
(***************************************************************************)
(* One circular buffer in use: its callers put and get with interrupts     *)
(* disabled, so each call is a step.  It implements BoundedFifo.           *)
(***************************************************************************)
EXTENDS CircularBuffer

CONSTANTS
    Item,   \* the values put into the buffer
    Size    \* the cells of its array

ASSUME RingAssumption == Size \in Nat \ {0} /\ Item \subseteq Nat /\ Item # {}

VARIABLES ring, result
ringVars == <<ring, result>>

RingTypeOK ==
    /\ ring \in Ring(Size, Item)
    /\ result \in Item \cup {NoByte}

RingInit ==
    /\ \E byte \in Item : ring = empty_buffer(Size, byte)
    /\ result = NoByte

Put(value) ==
    LET r == circular_buffer_put(ring, value)
    IN  ring' = r.buffer /\ result' = r.result

Get ==
    LET r == circular_buffer_get(ring)
    IN  ring' = r.buffer /\ result' = r.result

RingNext == (\E value \in Item : Put(value)) \/ Get

RingSpec == RingInit /\ [][RingNext]_ringVars

\* The space that the callers are told is what a queue of Size - 1 bytes has
\* left, and the buffer calls itself full exactly when that is nothing.
SpaceLeftIsRight ==
    /\ circular_buffer_space_left(ring) = Size - 1 - used(ring)
    /\ circular_buffer_is_full(ring) <=> circular_buffer_space_left(ring) = 0

Fifo == INSTANCE BoundedFifo
          WITH Byte <- Item, queue <- contents(ring), Capacity <- Size - 1

\* put and get implement a bounded first-in first-out queue, wherever head and
\* tail are in the array.
FifoSpec == Fifo!Spec
=============================================================================
