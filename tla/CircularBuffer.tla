--------------------------- MODULE CircularBuffer ---------------------------
(***************************************************************************)
(* The ring buffer of src/circular_buffer.c, as functions of its value: a  *)
(* record like struct circular_buffer.  One cell always stays free, so     *)
(* that head = tail means empty.  The serial ports and the pipes use it.   *)
(***************************************************************************)
EXTENDS Integers, Sequences

NoByte == -1    \* what put and get return when they can do nothing

\* struct circular_buffer, over an array of the given size
Ring(size, bytes) ==
    [buffer : [0 .. size - 1 -> bytes], size : {size},
     head : 0 .. size - 1, tail : 0 .. size - 1]

\* circular_buffer_next_head and circular_buffer_next_tail
next(b, index) == IF index + 1 = b.size THEN 0 ELSE index + 1

circular_buffer_is_full(b) == next(b, b.tail) = b.head

\* Mutant: the byte is stored one cell further.
stored_late(b, value) ==
    [b EXCEPT !.buffer = [@ EXCEPT ![next(b, b.tail)] = value],
              !.tail = next(b, b.tail)]

stored(b, value) ==
    [b EXCEPT !.buffer = [@ EXCEPT ![b.tail] = value], !.tail = next(b, b.tail)]

\* circular_buffer_put and circular_buffer_get: the result and the new buffer.
circular_buffer_put(b, value) ==
    IF circular_buffer_is_full(b) THEN [result |-> NoByte, buffer |-> b]
    ELSE [result |-> value, buffer |-> stored(b, value)]

circular_buffer_get(b) ==
    IF b.head = b.tail THEN [result |-> NoByte, buffer |-> b]
    ELSE [result |-> b.buffer[b.head],
          buffer |-> [b EXCEPT !.head = next(b, b.head)]]

\* Mutant: the free cell is counted as space.
space_left_all(b) ==
    CASE b.head = b.tail -> b.size
      [] b.head < b.tail -> b.size - (b.tail - b.head)
      [] b.head > b.tail -> b.head - b.tail

circular_buffer_space_left(b) ==
    CASE b.head = b.tail -> b.size - 1
      [] b.head < b.tail -> b.size - (b.tail - b.head) - 1
      [] b.head > b.tail -> b.head - b.tail - 1

\* A buffer with its static initialiser: an array and its size.
empty_buffer(size, byte) ==
    [buffer |-> [c \in 0 .. size - 1 |-> byte], size |-> size, head |-> 0, tail |-> 0]

-----------------------------------------------------------------------------
(* What the buffer holds.                                                   *)

used(b) == IF b.head <= b.tail THEN b.tail - b.head
                               ELSE b.tail - b.head + b.size

\* The cell of the k-th byte, k = 1, 2, ...
cell(b, k) == IF b.head + k - 1 < b.size THEN b.head + k - 1
                                         ELSE b.head + k - 1 - b.size

contents(b) == [k \in 1 .. used(b) |-> b.buffer[cell(b, k)]]
=============================================================================
