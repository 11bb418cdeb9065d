---------------------------- MODULE BufferProofs ----------------------------
(***************************************************************************)
(* Proofs about the circular buffer and what is built on it, for every     *)
(* size of the arrays and every set of bytes: lemmas about put and get,    *)
(* the bounded queue that RingBuffer implements, and the serial ports,     *)
(* which lose no byte on the way out or in.                                *)
(***************************************************************************)
EXTENDS RingBuffer, Asci, SequenceTheorems, TLAPS

-----------------------------------------------------------------------------
(* Lemmas about the operations on a circular buffer.                        *)

\* The fields, and what the wrap-around computes: the buffer is full exactly when
\* one cell is free, and the space left is right.
LEMMA RingArithmetic ==
    ASSUME NEW N \in Nat \ {0}, NEW B, NEW b \in Ring(N, B)
    PROVE  /\ b.size = N /\ b.head \in 0 .. N - 1 /\ b.tail \in 0 .. N - 1
           /\ b.buffer \in [0 .. N - 1 -> B]
           /\ used(b) \in 0 .. N - 1
           /\ used(b) = 0 <=> b.head = b.tail
           /\ circular_buffer_space_left(b) = N - 1 - used(b)
           /\ circular_buffer_is_full(b) <=> used(b) = N - 1
<1>1. /\ b.size = N /\ b.head \in 0 .. N - 1 /\ b.tail \in 0 .. N - 1
      /\ b.buffer \in [0 .. N - 1 -> B]
  BY DEF Ring
<1>2. used(b) \in 0 .. N - 1 /\ (used(b) = 0 <=> b.head = b.tail)
  BY <1>1 DEF used
<1>3. circular_buffer_space_left(b) = N - 1 - used(b)
  <2>1. CASE b.head = b.tail
    BY <2>1, <1>1 DEF used, circular_buffer_space_left
  <2>2. CASE b.head < b.tail
    BY <2>2, <1>1 DEF used, circular_buffer_space_left
  <2>3. CASE b.head > b.tail
    BY <2>3, <1>1 DEF used, circular_buffer_space_left
  <2> QED BY <2>1, <2>2, <2>3, <1>1
<1>4. circular_buffer_is_full(b) <=> used(b) = N - 1
  BY <1>1 DEF circular_buffer_is_full, next, used
<1> QED BY <1>1, <1>2, <1>3, <1>4

\* An index that wraps around stays in the array.
LEMMA NextInRing ==
    ASSUME NEW N \in Nat \ {0}, NEW B, NEW b \in Ring(N, B), NEW c \in 0 .. N - 1
    PROVE  next(b, c) \in 0 .. N - 1
<1>1. b.size = N
  BY DEF Ring
<1> QED BY <1>1 DEF next

\* What a buffer holds is a sequence of bytes.
LEMMA ContentsType ==
    ASSUME NEW N \in Nat \ {0}, NEW B, NEW b \in Ring(N, B)
    PROVE  /\ contents(b) \in Seq(B)
           /\ Len(contents(b)) = used(b)
           /\ \A k \in 1 .. used(b) : contents(b)[k] = b.buffer[cell(b, k)]
<1>1. /\ b.size = N /\ b.head \in 0 .. N - 1 /\ used(b) \in 0 .. N - 1
      /\ b.buffer \in [0 .. N - 1 -> B]
  BY RingArithmetic
<1>2. \A k \in 1 .. used(b) : cell(b, k) \in 0 .. N - 1
  BY <1>1 DEF cell
<1>3. contents(b) \in [1 .. used(b) -> B]
  BY <1>1, <1>2 DEF contents
<1>4. contents(b) \in Seq(B)
  BY <1>1, <1>3, SeqDef
<1>5. Len(contents(b)) = used(b)
  BY <1>1, <1>3, <1>4, LenProperties
<1> QED BY <1>4, <1>5 DEF contents

\* A put into a buffer that is not full appends to the contents.
LEMMA PutAppends ==
    ASSUME NEW N \in Nat \ {0}, NEW B, NEW b \in Ring(N, B), NEW value \in B,
           ~circular_buffer_is_full(b)
    PROVE  /\ stored(b, value) \in Ring(N, B)
           /\ contents(stored(b, value)) = Append(contents(b), value)
<1> DEFINE c == stored(b, value)
<1>1. /\ b.size = N /\ b.head \in 0 .. N - 1 /\ b.tail \in 0 .. N - 1
      /\ b.buffer \in [0 .. N - 1 -> B] /\ next(b, b.tail) \in 0 .. N - 1
      /\ used(b) \in 0 .. N - 1 /\ used(b) # N - 1
  <2>1. /\ b.size = N /\ b.head \in 0 .. N - 1 /\ b.tail \in 0 .. N - 1
        /\ b.buffer \in [0 .. N - 1 -> B]
    BY DEF Ring
  <2>2. next(b, b.tail) \in 0 .. N - 1
    BY <2>1, NextInRing
  <2>3. used(b) \in 0 .. N - 1
    BY RingArithmetic
  <2>4. used(b) # N - 1
    BY RingArithmetic
  <2> QED BY <2>1, <2>2, <2>3, <2>4
<1>2. c = [b EXCEPT !.buffer = [b.buffer EXCEPT ![b.tail] = value], !.tail = next(b, b.tail)]
  BY Zenon DEF stored
<1>3. /\ c \in Ring(N, B)
      /\ c.buffer = [b.buffer EXCEPT ![b.tail] = value]
      /\ c.size = N /\ c.head = b.head /\ c.tail = next(b, b.tail)
  <2> DEFINE n == next(b, b.tail)
             f == [b.buffer EXCEPT ![b.tail] = value]
  <2>1. f \in [0 .. N - 1 -> B] /\ n \in 0 .. N - 1
    BY <1>1
  <2>2. c = [b EXCEPT !.buffer = f, !.tail = n]
    BY <1>2
  <2> HIDE DEF n, f, c
  <2>3. c \in Ring(N, B) /\ c.buffer = f /\ c.size = b.size /\ c.head = b.head /\ c.tail = n
    BY <2>1, <2>2 DEF Ring
  <2> QED BY <1>1, <2>3 DEF f, n
<1> HIDE DEF c
<1>4. used(c) = used(b) + 1
  BY <1>1, <1>3 DEF used, next
<1>5. ASSUME NEW k \in 1 .. used(b)
      PROVE  cell(c, k) = cell(b, k) /\ cell(b, k) # b.tail /\ cell(b, k) \in 0 .. N - 1
  <2>1. cell(c, k) = cell(b, k)
    BY <1>1, <1>3 DEF cell
  <2>2. cell(b, k) # b.tail
    BY <1>1 DEF cell, used
  <2>3. cell(b, k) \in 0 .. N - 1
    BY <1>1 DEF cell
  <2> QED BY <2>1, <2>2, <2>3
<1>6. cell(c, used(b) + 1) = b.tail
  BY <1>1, <1>3 DEF cell, used
<1>7. /\ c.buffer[b.tail] = value
      /\ \A j \in 0 .. N - 1 : j # b.tail => c.buffer[j] = b.buffer[j]
  BY <1>1, <1>3
<1>8. /\ contents(c) \in Seq(B) /\ Len(contents(c)) = used(b) + 1
      /\ \A k \in 1 .. used(b) + 1 : contents(c)[k] = c.buffer[cell(c, k)]
  <2>1. /\ contents(c) \in Seq(B) /\ Len(contents(c)) = used(c)
        /\ \A k \in 1 .. used(c) : contents(c)[k] = c.buffer[cell(c, k)]
    <3>1. c \in Ring(N, B)
      BY <1>3
    <3> QED BY <3>1, ContentsType
  <2> QED BY <1>4, <2>1
<1>9. /\ contents(b) \in Seq(B) /\ Len(contents(b)) = used(b)
      /\ \A k \in 1 .. used(b) : contents(b)[k] = b.buffer[cell(b, k)]
  BY ContentsType
<1>10. /\ Append(contents(b), value) \in Seq(B)
       /\ Len(Append(contents(b), value)) = used(b) + 1
       /\ \A k \in 1 .. used(b) : Append(contents(b), value)[k] = b.buffer[cell(b, k)]
       /\ Append(contents(b), value)[used(b) + 1] = value
  BY <1>9, AppendProperties
<1>11. \A k \in 1 .. used(b) + 1 : contents(c)[k] = Append(contents(b), value)[k]
  <2>1. ASSUME NEW k \in 1 .. used(b)
        PROVE  contents(c)[k] = Append(contents(b), value)[k]
    <3>1. contents(c)[k] = c.buffer[cell(b, k)]
      BY <1>1, <1>5, <1>8
    <3>2. c.buffer[cell(b, k)] = b.buffer[cell(b, k)]
      BY <1>5, <1>7
    <3> QED BY <3>1, <3>2, <1>10
  <2>2. contents(c)[used(b) + 1] = value
    BY <1>1, <1>6, <1>7, <1>8
  <2> QED BY <1>1, <1>10, <2>1, <2>2
<1>12. contents(c) = Append(contents(b), value)
  BY <1>8, <1>10, <1>11, SeqEqual
<1> QED BY <1>3, <1>12 DEF c

\* A get from a buffer that is not empty takes the first byte of the contents.
LEMMA GetTakesFirst ==
    ASSUME NEW N \in Nat \ {0}, NEW B, NEW b \in Ring(N, B), b.head # b.tail
    PROVE  LET c == [b EXCEPT !.head = next(b, b.head)]
           IN  /\ c \in Ring(N, B)
               /\ contents(b) # <<>>
               /\ b.buffer[b.head] = Head(contents(b))
               /\ contents(c) = Tail(contents(b))
<1> DEFINE c == [b EXCEPT !.head = next(b, b.head)]
<1>1. /\ b.size = N /\ b.head \in 0 .. N - 1 /\ b.tail \in 0 .. N - 1
      /\ b.buffer \in [0 .. N - 1 -> B] /\ next(b, b.head) \in 0 .. N - 1
      /\ used(b) \in 0 .. N - 1 /\ used(b) # 0
  <2>1. /\ b.size = N /\ b.head \in 0 .. N - 1 /\ b.tail \in 0 .. N - 1
        /\ b.buffer \in [0 .. N - 1 -> B]
    BY DEF Ring
  <2>2. next(b, b.head) \in 0 .. N - 1
    BY <2>1, NextInRing
  <2>3. used(b) \in 0 .. N - 1
    BY RingArithmetic
  <2>4. used(b) # 0
    BY RingArithmetic
  <2> QED BY <2>1, <2>2, <2>3, <2>4
<1>2. c = [buffer |-> b.buffer, size |-> N, head |-> next(b, b.head), tail |-> b.tail]
  BY <1>1 DEF Ring
<1>3. c \in Ring(N, B)
  BY <1>1, <1>2 DEF Ring
<1>4. used(c) = used(b) - 1
  <2>1. c.head = next(b, b.head) /\ c.tail = b.tail /\ c.size = N
    BY <1>2
  <2> HIDE DEF c
  <2>n. b.head \in Int /\ b.tail \in Int /\ N \in Int
    BY <1>1
  <2>2. CASE b.head + 1 = N
    <3>1. c.head = 0 /\ b.tail < b.head
      BY <1>1, <2>1, <2>2 DEF next
    <3>2. used(c) = b.tail /\ used(b) = b.tail - b.head + N
      BY <1>1, <2>1, <3>1 DEF used
    <3> QED BY <2>2, <2>n, <3>2
  <2>3. CASE b.head + 1 # N
    <3>1. c.head = b.head + 1
      BY <1>1, <2>1, <2>3 DEF next
    <3>2. CASE b.head < b.tail
      BY <1>1, <2>1, <2>n, <3>1, <3>2 DEF used
    <3>3. CASE b.tail < b.head
      BY <1>1, <2>1, <2>n, <3>1, <3>3 DEF used
    <3> QED BY <2>n, <3>2, <3>3
  <2> QED BY <2>2, <2>3
<1>5. ASSUME NEW k \in 1 .. used(b) - 1
      PROVE  cell(c, k) = cell(b, k + 1)
  BY <1>1, <1>2 DEF cell, next
<1>6. cell(b, 1) = b.head
  BY <1>1 DEF cell
<1> HIDE DEF c
<1>7. /\ contents(c) \in Seq(B) /\ Len(contents(c)) = used(b) - 1
      /\ \A k \in 1 .. used(b) - 1 : contents(c)[k] = b.buffer[cell(c, k)]
  BY <1>2, <1>3, <1>4, ContentsType
<1>8. /\ contents(b) \in Seq(B) /\ Len(contents(b)) = used(b)
      /\ \A k \in 1 .. used(b) : contents(b)[k] = b.buffer[cell(b, k)]
  BY ContentsType
<1>9. contents(b) # <<>>
  BY <1>1, <1>8, EmptySeq
<1>10. /\ Tail(contents(b)) \in Seq(B)
       /\ Len(Tail(contents(b))) = used(b) - 1
       /\ \A k \in 1 .. used(b) - 1 : Tail(contents(b))[k] = contents(b)[k + 1]
  BY <1>8, <1>9, HeadTailProperties
<1>11. ASSUME NEW k \in 1 .. used(b) - 1
       PROVE  contents(c)[k] = Tail(contents(b))[k]
  BY <1>1, <1>5, <1>7, <1>8, <1>10
<1>12. contents(c) = Tail(contents(b))
  BY <1>7, <1>10, <1>11, SeqEqual
<1>13. Head(contents(b)) = b.buffer[b.head]
  BY <1>1, <1>6, <1>8
<1> QED BY <1>3, <1>9, <1>12, <1>13 DEF c

\* The static initialiser is an empty buffer.
LEMMA EmptyIsEmpty ==
    ASSUME NEW N \in Nat \ {0}, NEW B, NEW byte \in B
    PROVE  empty_buffer(N, byte) \in Ring(N, B) /\ contents(empty_buffer(N, byte)) = <<>>
<1>1. empty_buffer(N, byte) \in Ring(N, B)
  BY DEF empty_buffer, Ring
<1>2. used(empty_buffer(N, byte)) = 0
  BY DEF empty_buffer, used
<1> QED BY <1>1, <1>2, ContentsType, EmptySeq
-----------------------------------------------------------------------------
(* The circular buffer implements a bounded queue.                          *)


LEMMA RingInitType == RingInit => RingTypeOK
<1> SUFFICES ASSUME RingInit PROVE RingTypeOK
  OBVIOUS
<1>1. PICK byte \in Item : ring = empty_buffer(Size, byte)
  BY DEF RingInit
<1>2. ring \in Ring(Size, Item)
  BY <1>1, RingAssumption, EmptyIsEmpty
<1> QED BY <1>2 DEF RingInit, RingTypeOK

\* What a put does to the buffer and to the queue.
LEMMA PutStep ==
    ASSUME RingTypeOK, NEW value \in Item, Put(value)
    PROVE  RingTypeOK' /\ Fifo!Put(value)
<1>0. ring \in Ring(Size, Item) /\ Size \in Nat \ {0} /\ result \in Item \cup {NoByte}
  BY RingAssumption DEF RingTypeOK
<1>1. /\ contents(ring) \in Seq(Item) /\ Len(contents(ring)) = used(ring)
      /\ used(ring) \in 0 .. Size - 1
      /\ circular_buffer_is_full(ring) <=> used(ring) = Size - 1
  <2>1. contents(ring) \in Seq(Item) /\ Len(contents(ring)) = used(ring)
    BY <1>0, ContentsType
  <2>2. /\ used(ring) \in 0 .. Size - 1
        /\ circular_buffer_is_full(ring) <=> used(ring) = Size - 1
    BY <1>0, RingArithmetic
  <2> QED BY <2>1, <2>2
<1>2. CASE circular_buffer_is_full(ring)
  <2>1. ring' = ring /\ result' = NoByte
    BY <1>2 DEF Put, circular_buffer_put
  <2>2. ~(Len(contents(ring)) < Size - 1)
    BY <1>0, <1>1, <1>2
  <2> QED BY <1>0, <2>1, <2>2 DEF RingTypeOK, Fifo!Put
<1>3. CASE ~circular_buffer_is_full(ring)
  <2>1. ring' = stored(ring, value) /\ result' = value
    BY <1>3 DEF Put, circular_buffer_put
  <2>2. ring' \in Ring(Size, Item) /\ contents(ring') = Append(contents(ring), value)
    BY <1>0, <1>3, <2>1, PutAppends
  <2>3. Len(contents(ring)) < Size - 1
    BY <1>0, <1>1, <1>3
  <2> QED BY <2>1, <2>2, <2>3 DEF RingTypeOK, Fifo!Put
<1> QED BY <1>2, <1>3

\* What a get does to the buffer and to the queue.
LEMMA GetStep ==
    ASSUME RingTypeOK, Get
    PROVE  RingTypeOK' /\ Fifo!Get
<1>0. ring \in Ring(Size, Item) /\ Size \in Nat \ {0} /\ result \in Item \cup {NoByte}
  BY RingAssumption DEF RingTypeOK
<1>1. CASE ring.head = ring.tail
  <2>1. ring' = ring /\ result' = NoByte
    BY <1>1 DEF Get, circular_buffer_get
  <2>2. used(ring) = 0
    BY <1>0, <1>1, RingArithmetic
  <2>3. contents(ring) = <<>>
    BY <1>0, <2>2, ContentsType, EmptySeq
  <2> QED BY <1>0, <2>1, <2>3 DEF RingTypeOK, Fifo!Get
<1>2. CASE ring.head # ring.tail
  <2>1. /\ ring' = [ring EXCEPT !.head = next(ring, ring.head)]
        /\ result' = ring.buffer[ring.head]
    BY <1>2 DEF Get, circular_buffer_get
  <2>2. /\ ring' \in Ring(Size, Item)
        /\ contents(ring) # <<>>
        /\ result' = Head(contents(ring))
        /\ contents(ring') = Tail(contents(ring))
    BY <1>0, <1>2, <2>1, GetTakesFirst
  <2>3. result' \in Item
    BY <1>0, <2>1, RingArithmetic
  <2> QED BY <2>2, <2>3 DEF RingTypeOK, Fifo!Get
<1> QED BY <1>1, <1>2

LEMMA RingTypeStep == RingTypeOK /\ [RingNext]_ringVars => RingTypeOK'
<1> SUFFICES ASSUME RingTypeOK, [RingNext]_ringVars PROVE RingTypeOK'
  OBVIOUS
<1>1. CASE UNCHANGED ringVars
  BY <1>1 DEF ringVars, RingTypeOK
<1> QED BY <1>1, PutStep, GetStep DEF RingNext

\* Type correctness: head and tail stay inside the array.
THEOREM RingTypeCorrect == RingSpec => []RingTypeOK
BY RingInitType, RingTypeStep, PTL DEF RingSpec

\* circular_buffer_space_left is the room of a queue of Size - 1 bytes for every
\* position of head and tail, and agrees with circular_buffer_is_full.
THEOREM SpaceLeftCorrect == RingSpec => []SpaceLeftIsRight
<1>1. RingTypeOK => SpaceLeftIsRight
  <2> SUFFICES ASSUME RingTypeOK PROVE SpaceLeftIsRight
    OBVIOUS
  <2>1. ring \in Ring(Size, Item) /\ Size \in Nat \ {0}
    BY RingAssumption DEF RingTypeOK
  <2>2. /\ used(ring) \in 0 .. Size - 1
        /\ circular_buffer_space_left(ring) = Size - 1 - used(ring)
        /\ circular_buffer_is_full(ring) <=> used(ring) = Size - 1
    BY <2>1, RingArithmetic
  <2> QED BY <2>1, <2>2 DEF SpaceLeftIsRight
<1> QED BY <1>1, RingTypeCorrect, PTL

\* put and get of circular_buffer.c implement a bounded first-in first-out queue:
\* no byte is lost, doubled or reordered when head and tail wrap around.
THEOREM RingImplementsFifo == RingSpec => FifoSpec
<1>1. RingInit => Fifo!Init
  <2> SUFFICES ASSUME RingInit PROVE Fifo!Init
    OBVIOUS
  <2>1. PICK byte \in Item : ring = empty_buffer(Size, byte)
    BY DEF RingInit
  <2>2. contents(ring) = <<>>
    BY <2>1, RingAssumption, EmptyIsEmpty
  <2> QED BY <2>2 DEF RingInit, Fifo!Init
<1>2. RingTypeOK /\ [RingNext]_ringVars => [Fifo!Next]_Fifo!vars
  <2> SUFFICES ASSUME RingTypeOK, [RingNext]_ringVars PROVE [Fifo!Next]_Fifo!vars
    OBVIOUS
  <2>1. CASE UNCHANGED ringVars
    BY <2>1 DEF ringVars, Fifo!vars, contents, used, cell
  <2> QED BY <2>1, PutStep, GetStep DEF RingNext, Fifo!Next
<1> QED BY <1>1, <1>2, RingTypeCorrect, PTL DEF RingSpec, FifoSpec, Fifo!Spec

-----------------------------------------------------------------------------
(* The serial ports, on the way out.                                        *)

\* What a put and a get do, as their callers see it.
LEMMA PutEffect ==
    ASSUME NEW N \in Nat \ {0}, NEW B, NEW b \in Ring(N, B), NEW value \in B
    PROVE  LET r == circular_buffer_put(b, value)
           IN  /\ r.buffer \in Ring(N, B)
               /\ circular_buffer_is_full(b) => r.result = NoByte /\ r.buffer = b
               /\ ~circular_buffer_is_full(b) =>
                    r.result = value /\ contents(r.buffer) = Append(contents(b), value)
<1>1. CASE circular_buffer_is_full(b)
  BY <1>1 DEF circular_buffer_put
<1>2. CASE ~circular_buffer_is_full(b)
  <2>1. /\ circular_buffer_put(b, value).buffer = stored(b, value)
        /\ circular_buffer_put(b, value).result = value
    BY <1>2 DEF circular_buffer_put
  <2>2. /\ stored(b, value) \in Ring(N, B)
        /\ contents(stored(b, value)) = Append(contents(b), value)
    BY <1>2, PutAppends
  <2> QED BY <1>2, <2>1, <2>2
<1> QED BY <1>1, <1>2

LEMMA GetEffect ==
    ASSUME NEW N \in Nat \ {0}, NEW B, NEW b \in Ring(N, B)
    PROVE  LET r == circular_buffer_get(b)
           IN  /\ r.buffer \in Ring(N, B)
               /\ contents(b) = <<>> => r.result = NoByte /\ r.buffer = b
               /\ contents(b) # <<>> => /\ r.result = Head(contents(b)) /\ r.result \in B
                                        /\ contents(r.buffer) = Tail(contents(b))
<1>0. contents(b) \in Seq(B)
  BY ContentsType
<1>1. CASE b.head = b.tail
  <2>1. used(b) = 0
    BY <1>1, RingArithmetic
  <2>2. contents(b) = <<>>
    BY <2>1, ContentsType, EmptySeq
  <2> QED BY <1>1, <2>2 DEF circular_buffer_get
<1>2. CASE b.head # b.tail
  <2> DEFINE c == [b EXCEPT !.head = next(b, b.head)]
  <2>1. /\ c \in Ring(N, B) /\ contents(b) # <<>>
        /\ b.buffer[b.head] = Head(contents(b)) /\ contents(c) = Tail(contents(b))
    BY <1>2, GetTakesFirst
  <2>2. /\ circular_buffer_get(b).buffer = c
        /\ circular_buffer_get(b).result = b.buffer[b.head]
    BY <1>2 DEF circular_buffer_get
  <2>3. Head(contents(b)) \in B
    BY <1>0, <2>1, HeadTailProperties
  <2> HIDE DEF c
  <2> QED BY <2>1, <2>2, <2>3
<1> QED BY <1>1, <1>2

\* The three ways in which a byte moves along  wire \o register \o buffer: into the
\* buffer, onto the wire, and from the buffer into the empty register.
LEMMA IntoBuffer ==
    ASSUME NEW S, NEW w \in Seq(S), NEW r \in Seq(S), NEW b \in Seq(S), NEW x \in S,
           NEW a, a = w \o r \o b
    PROVE  Append(a, x) = w \o r \o Append(b, x)
<1>1. w \o r \in Seq(S)
  BY ConcatProperties
<1>2. a \in Seq(S) /\ <<x>> \in Seq(S)
  BY <1>1, ConcatProperties
<1>3. Append(a, x) = a \o <<x>>
  BY <1>2, AppendIsConcat
<1>4. (w \o r \o b) \o <<x>> = (w \o r) \o (b \o <<x>>)
  BY <1>1, <1>2, ConcatAssociative
<1>5. b \o <<x>> = Append(b, x)
  BY AppendIsConcat
<1> QED BY <1>3, <1>4, <1>5

LEMMA OntoWire ==
    \A S : \A w, c \in Seq(S) : \A x \in S :
        w \o <<x>> \o c = Append(w, x) \o <<>> \o c
<1> SUFFICES ASSUME NEW S, NEW w \in Seq(S), NEW c \in Seq(S), NEW x \in S
             PROVE  w \o <<x>> \o c = Append(w, x) \o <<>> \o c
  OBVIOUS
<1>1. Append(w, x) = w \o <<x>> /\ Append(w, x) \in Seq(S)
  BY AppendIsConcat, AppendProperties
<1>2. Append(w, x) \o <<>> = Append(w, x)
  BY <1>1, ConcatEmptySeq
<1> QED BY <1>1, <1>2

LEMMA IntoRegister ==
    \A S : \A w, c \in Seq(S) :
        c # <<>> => w \o <<>> \o c = w \o <<Head(c)>> \o Tail(c)
<1> SUFFICES ASSUME NEW S, NEW w \in Seq(S), NEW c \in Seq(S), c # <<>>
             PROVE  w \o <<>> \o c = w \o <<Head(c)>> \o Tail(c)
  OBVIOUS
<1>1. Head(c) \in S /\ Tail(c) \in Seq(S) /\ Len(c) \in Nat \ {0}
  BY HeadTailProperties, EmptySeq
<1>2. <<Head(c)>> \in Seq(S)
  BY <1>1
<1>3. c = <<Head(c)>> \o Tail(c)
  <2>1. SubSeq(c, 1, Len(c)) = <<c[1]>> \o SubSeq(c, 1 + 1, Len(c))
    BY <1>1, SubSeqRecursiveFirst
  <2>2. SubSeq(c, 1, Len(c)) = c /\ Tail(c) = SubSeq(c, 2, Len(c))
    BY SubSeqFull, TailIsSubSeq
  <2>3. Head(c) = c[1] /\ 1 + 1 = 2
    OBVIOUS
  <2> QED BY <2>1, <2>2, <2>3
<1>4. w \o <<>> = w
  BY ConcatEmptySeq
<1>5. (w \o <<Head(c)>>) \o Tail(c) = w \o (<<Head(c)>> \o Tail(c))
  BY <1>1, <1>2, ConcatAssociative
<1> QED BY <1>3, <1>4, <1>5

\* The transmitter's half of the type invariant.  The buffer holds only bytes that
\* programs wrote; the zeros of the empty array are never sent.
TxType ==
    /\ tx \in [Ports -> Ring(TxSize, Byte \cup {0})]
    /\ TDR \in [Ports -> Byte \cup {NoByte}]
    /\ TIE \in [Ports -> BOOLEAN]
    /\ accepted \in [Ports -> Seq(Byte)]
    /\ wire \in [Ports -> Seq(Byte)]
    /\ \A p \in Ports : contents(tx[p]) \in Seq(Byte)

\* The handler of port 1 drops a zero byte; elsewhere the transmitter is honest.
ZeroIsSent(p) == p = 0 \/ 0 \notin Byte

OnTheLine(p) == accepted[p] = wire[p] \o InRegister(p) \o contents(tx[p])

TxInv == TxType /\ \A p \in Ports : ZeroIsSent(p) => OnTheLine(p)

LEMMA RegisterType ==
    ASSUME TxType, NEW p \in Ports
    PROVE  InRegister(p) \in Seq(Byte)
BY DEF TxType, InRegister

LEMMA TxUnchanged ==
    TxInv /\ UNCHANGED <<tx, TDR, TIE, accepted, wire>> => TxInv'
BY DEF TxInv, TxType, OnTheLine, InRegister, contents, used, cell

LEMMA TxInit == Init => TxInv
<1> SUFFICES ASSUME Init PROVE TxInv
  OBVIOUS
<1>1. /\ empty_buffer(TxSize, 0) \in Ring(TxSize, Byte \cup {0})
      /\ contents(empty_buffer(TxSize, 0)) = <<>>
  BY AsciAssumption, EmptyIsEmpty
<1>2. <<>> \in Seq(Byte)
  BY EmptySeq
<1>3. TxType
  BY <1>1, <1>2 DEF Init, TxType
<1>4. ASSUME NEW p \in Ports PROVE OnTheLine(p)
  <2>1. accepted[p] = <<>> /\ wire[p] = <<>> /\ InRegister(p) = <<>> /\ contents(tx[p]) = <<>>
    BY <1>1 DEF Init, InRegister
  <2>2. <<>> \o <<>> \o <<>> = <<>>
    BY <1>2, ConcatEmptySeq
  <2> QED BY <2>1, <2>2 DEF OnTheLine
<1> QED BY <1>3, <1>4 DEF TxInv

\* One port moves at a time.
LEMMA TxOthers ==
    ASSUME TxInv, TxType', NEW p \in Ports,
           \A q \in Ports \ {p} : /\ tx'[q] = tx[q] /\ TDR'[q] = TDR[q]
                                  /\ accepted'[q] = accepted[q] /\ wire'[q] = wire[q],
           ZeroIsSent(p) => OnTheLine(p)'
    PROVE  TxInv'
<1>1. ASSUME NEW q \in Ports \ {p}, ZeroIsSent(q) PROVE OnTheLine(q)'
  BY <1>1 DEF TxInv, OnTheLine, InRegister, contents, used, cell
<1> QED BY <1>1 DEF TxInv, ZeroIsSent

LEMMA TxPutc ==
    ASSUME TxInv, NEW p \in Ports, NEW c \in Byte, asci_putc(p, c)
    PROVE  TxInv'
<1> DEFINE r == circular_buffer_put(tx[p], c)
<1>1. TxSize \in Nat \ {0} /\ tx[p] \in Ring(TxSize, Byte \cup {0}) /\ c \in Byte \cup {0}
  BY AsciAssumption DEF TxInv, TxType
<1>2. r.result # NoByte => /\ r.buffer \in Ring(TxSize, Byte \cup {0})
                           /\ contents(r.buffer) = Append(contents(tx[p]), c)
  BY <1>1, PutEffect
<1>3. /\ r.result # NoByte /\ tx' = [tx EXCEPT ![p] = r.buffer]
      /\ TIE' = [TIE EXCEPT ![p] = TRUE]
      /\ accepted' = [accepted EXCEPT ![p] = Append(accepted[p], c)]
      /\ TDR' = TDR /\ wire' = wire
  BY DEF asci_putc, EnabledByPut
<1> HIDE DEF r
<1>4. /\ contents(tx[p]) \in Seq(Byte) /\ accepted[p] \in Seq(Byte)
      /\ wire[p] \in Seq(Byte) /\ InRegister(p) \in Seq(Byte)
  BY RegisterType DEF TxInv, TxType
<1>5. Append(contents(tx[p]), c) \in Seq(Byte) /\ Append(accepted[p], c) \in Seq(Byte)
  BY <1>4, AppendProperties
<1>6. tx'[p] = r.buffer /\ accepted'[p] = Append(accepted[p], c)
  BY <1>3 DEF TxInv, TxType
<1>7. \A q \in Ports \ {p} : /\ tx'[q] = tx[q] /\ TDR'[q] = TDR[q]
                             /\ accepted'[q] = accepted[q] /\ wire'[q] = wire[q]
  BY <1>3 DEF TxInv, TxType
<1>8. TxType'
  <2>1. \A q \in Ports : contents(tx'[q]) \in Seq(Byte)
    BY <1>2, <1>3, <1>5, <1>6, <1>7 DEF TxInv, TxType
  <2>2. tx' \in [Ports -> Ring(TxSize, Byte \cup {0})]
    BY <1>2, <1>3 DEF TxInv, TxType
  <2>3. accepted' \in [Ports -> Seq(Byte)] /\ TIE' \in [Ports -> BOOLEAN]
    BY <1>3, <1>5 DEF TxInv, TxType
  <2> QED BY <1>3, <2>1, <2>2, <2>3 DEF TxInv, TxType
<1>9. ASSUME ZeroIsSent(p) PROVE OnTheLine(p)'
  <2> DEFINE W == wire[p]
             R == InRegister(p)
             C == contents(tx[p])
             A == accepted[p]
             D == contents(r.buffer)
  <2>1. W \in Seq(Byte) /\ R \in Seq(Byte) /\ C \in Seq(Byte) /\ A = W \o R \o C
    BY <1>4, <1>9 DEF TxInv, OnTheLine
  <2>2. D = Append(C, c) /\ accepted'[p] = Append(A, c)
    BY <1>2, <1>3, <1>6
  <2>3. wire'[p] = W /\ InRegister(p)' = R
    BY <1>3 DEF InRegister
  <2>4. contents(tx[p])' = D
    BY <1>6 DEF contents, used, cell
  <2> HIDE DEF W, R, C, A, D
  <2>5. accepted'[p] = W \o R \o D
    BY <2>1, <2>2, IntoBuffer
  <2> QED BY <2>3, <2>4, <2>5 DEF OnTheLine
<1> QED BY <1>7, <1>8, <1>9, TxOthers

\* The handler's transmitting half, when the register is empty.
LEMMA TxTransmit ==
    ASSUME TxInv, NEW p \in Ports, TDR[p] = NoByte, Transmit(p)
    PROVE  TxInv'
<1> DEFINE r == circular_buffer_get(tx[p])
<1>1. TxSize \in Nat \ {0} /\ tx[p] \in Ring(TxSize, Byte \cup {0})
  BY AsciAssumption DEF TxInv, TxType
<1>2. /\ r.buffer \in Ring(TxSize, Byte \cup {0})
      /\ contents(tx[p]) = <<>> => r.result = NoByte /\ r.buffer = tx[p]
      /\ contents(tx[p]) # <<>> => /\ r.result = Head(contents(tx[p]))
                                   /\ contents(r.buffer) = Tail(contents(tx[p]))
  BY <1>1, GetEffect
<1>3. /\ tx' = [tx EXCEPT ![p] = r.buffer]
      /\ IF NothingToSend(p, r.result)
         THEN TIE' = [TIE EXCEPT ![p] = FALSE] /\ TDR' = TDR
         ELSE TDR' = [TDR EXCEPT ![p] = r.result] /\ TIE' = TIE
      /\ accepted' = accepted /\ wire' = wire
  BY DEF Transmit
<1> HIDE DEF r
<1>4. /\ contents(tx[p]) \in Seq(Byte) /\ accepted[p] \in Seq(Byte)
      /\ wire[p] \in Seq(Byte) /\ InRegister(p) \in Seq(Byte) /\ InRegister(p) = <<>>
  BY RegisterType DEF TxInv, TxType, InRegister
<1>5. contents(tx[p]) # <<>> => /\ Head(contents(tx[p])) \in Byte
                                /\ Tail(contents(tx[p])) \in Seq(Byte)
  BY <1>4, HeadTailProperties
<1>6. tx'[p] = r.buffer
  BY <1>3 DEF TxInv, TxType
<1>7. \A q \in Ports \ {p} : /\ tx'[q] = tx[q] /\ TDR'[q] = TDR[q]
                             /\ accepted'[q] = accepted[q] /\ wire'[q] = wire[q]
  BY <1>3 DEF TxInv, TxType
<1>8. ASSUME contents(tx[p]) = <<>> PROVE NothingToSend(p, r.result)
  BY <1>2, <1>8 DEF NothingToSend, NoByte
<1>9. ASSUME contents(tx[p]) # <<>>, ZeroIsSent(p) PROVE ~NothingToSend(p, r.result)
  <2>1. r.result \in Byte /\ r.result \in Nat
    BY <1>2, <1>5, <1>9, AsciAssumption
  <2> QED BY <1>9, <2>1 DEF NothingToSend, ZeroIsSent
<1>10. TxType'
  <2>1. contents(r.buffer) \in Seq(Byte)
    BY <1>2, <1>4, <1>5
  <2>2. \A q \in Ports : contents(tx'[q]) \in Seq(Byte)
    BY <1>6, <1>7, <2>1 DEF TxInv, TxType
  <2>3. tx' \in [Ports -> Ring(TxSize, Byte \cup {0})]
    BY <1>2, <1>3 DEF TxInv, TxType
  <2>4. TDR' \in [Ports -> Byte \cup {NoByte}] /\ TIE' \in [Ports -> BOOLEAN]
    <3>1. CASE NothingToSend(p, r.result)
      BY <1>3, <3>1 DEF TxInv, TxType
    <3>2. CASE ~NothingToSend(p, r.result)
      <4>1. r.result \in Byte
        BY <1>2, <1>5, <1>8, <3>2
      <4> QED BY <1>3, <3>2, <4>1 DEF TxInv, TxType
    <3> QED BY <3>1, <3>2
  <2> QED BY <1>3, <2>2, <2>3, <2>4 DEF TxInv, TxType
<1>11. ASSUME ZeroIsSent(p) PROVE OnTheLine(p)'
  <2>1. accepted[p] = wire[p] \o <<>> \o contents(tx[p])
    BY <1>4, <1>11 DEF TxInv, OnTheLine
  <2>2. CASE contents(tx[p]) = <<>>
    <3>1. tx'[p] = tx[p] /\ TDR' = TDR
      BY <1>2, <1>3, <1>6, <1>8, <2>2
    <3>2. InRegister(p)' = <<>> /\ contents(tx[p])' = contents(tx[p])
      BY <1>4, <3>1 DEF InRegister, contents, used, cell
    <3> QED BY <1>3, <2>1, <3>2 DEF OnTheLine
  <2>3. CASE contents(tx[p]) # <<>>
    <3>1. TDR'[p] = Head(contents(tx[p])) /\ TDR'[p] # NoByte
      <4>1. TDR'[p] = r.result
        BY <1>3, <1>9, <1>11, <2>3 DEF TxInv, TxType
      <4>2. r.result \in Byte /\ r.result \in Nat
        BY <1>2, <1>5, <2>3, AsciAssumption
      <4> QED BY <1>2, <2>3, <4>1, <4>2 DEF NoByte
    <3>2. InRegister(p)' = <<Head(contents(tx[p]))>>
      BY <3>1 DEF InRegister
    <3>3. contents(tx[p])' = Tail(contents(tx[p]))
      <4>1. contents(tx[p])' = contents(r.buffer)
        BY <1>6 DEF contents, used, cell
      <4> QED BY <1>2, <2>3, <4>1
    <3>4. wire[p] \o <<>> \o contents(tx[p])
            = wire[p] \o <<Head(contents(tx[p]))>> \o Tail(contents(tx[p]))
      <4>1. Head(contents(tx[p])) \in Byte
        BY <1>5, <2>3
      <4> QED BY <1>4, <2>3, <4>1, IntoRegister
    <3> QED BY <1>3, <2>1, <3>2, <3>3, <3>4 DEF OnTheLine
  <2> QED BY <2>2, <2>3
<1> QED BY <1>7, <1>10, <1>11, TxOthers

LEMMA TxShiftOut ==
    ASSUME TxInv, NEW p \in Ports, ShiftOut(p)
    PROVE  TxInv'
<1>1. /\ TDR[p] # NoByte
      /\ wire' = [wire EXCEPT ![p] = Append(wire[p], TDR[p])]
      /\ TDR' = [TDR EXCEPT ![p] = NoByte]
      /\ tx' = tx /\ TIE' = TIE /\ accepted' = accepted
  BY DEF ShiftOut
<1>2. /\ contents(tx[p]) \in Seq(Byte) /\ wire[p] \in Seq(Byte) /\ TDR[p] \in Byte
  BY <1>1 DEF TxInv, TxType
<1>3. Append(wire[p], TDR[p]) \in Seq(Byte)
  BY <1>2, AppendProperties
<1>4. /\ InRegister(p) = <<TDR[p]>> /\ InRegister(p)' = <<>>
      /\ wire'[p] = Append(wire[p], TDR[p]) /\ contents(tx[p])' = contents(tx[p])
  BY <1>1 DEF TxInv, TxType, InRegister, contents, used, cell
<1>5. TxType'
  BY <1>1, <1>3 DEF TxInv, TxType, contents, used, cell
<1>6. \A q \in Ports \ {p} : /\ tx'[q] = tx[q] /\ TDR'[q] = TDR[q]
                             /\ accepted'[q] = accepted[q] /\ wire'[q] = wire[q]
  BY <1>1 DEF TxInv, TxType
<1>7. ASSUME ZeroIsSent(p) PROVE OnTheLine(p)'
  <2>1. accepted[p] = wire[p] \o <<TDR[p]>> \o contents(tx[p])
    BY <1>4, <1>7 DEF TxInv, OnTheLine
  <2>2. wire[p] \o <<TDR[p]>> \o contents(tx[p])
          = Append(wire[p], TDR[p]) \o <<>> \o contents(tx[p])
    BY <1>2, OntoWire
  <2> QED BY <1>1, <1>4, <2>1, <2>2 DEF OnTheLine
<1> QED BY <1>5, <1>6, <1>7, TxOthers

LEMMA TxStep == TxInv /\ [Next]_vars => TxInv'
<1> SUFFICES ASSUME TxInv, [Next]_vars PROVE TxInv'
  OBVIOUS
<1>1. CASE UNCHANGED txVars
  BY <1>1, TxUnchanged DEF txVars
<1>2. CASE UNCHANGED vars
  BY <1>1, <1>2 DEF vars
<1>3. CASE Next
  <2> PICK p \in Ports : \/ \E c \in Byte : asci_putc(p, c)
                         \/ asci_getc(p) \/ int_asci(p) \/ ShiftOut(p) \/ ShiftIn(p)
    BY <1>3 DEF Next
  <2>1. CASE \E c \in Byte : asci_putc(p, c)
    BY <2>1, TxPutc
  <2>2. CASE asci_getc(p)
    BY <1>1, <2>2 DEF asci_getc
  <2>3. CASE int_asci(p)
    BY <1>1, <2>3, TxTransmit DEF int_asci, TxReady
  <2>4. CASE ShiftOut(p)
    BY <2>4, TxShiftOut
  <2>5. CASE ShiftIn(p)
    BY <1>1, <2>5 DEF ShiftIn
  <2> QED BY <2>1, <2>2, <2>3, <2>4, <2>5
<1> QED BY <1>2, <1>3

\* Where no zero byte is written to port 1, every byte that asci_putc accepts is on
\* the wire, in the register or in the buffer, in the order of the calls, for every
\* size of the buffers and however the handlers interleave with the writers.
THEOREM NothingLostOnTheWayOut ==
    ASSUME 1 \notin Ports \/ 0 \notin Byte
    PROVE  Spec => []TxNothingLost
<1>1. TxInv => TxNothingLost
  <2>1. \A p \in Ports : ZeroIsSent(p)
    BY AsciAssumption DEF ZeroIsSent
  <2> QED BY <2>1 DEF TxInv, TxNothingLost, OnTheLine
<1> QED BY <1>1, TxInit, TxStep, PTL DEF Spec

-----------------------------------------------------------------------------
(* The serial ports, on the way in.                                         *)

RxType ==
    /\ rx \in [Ports -> Ring(RxSize, 0 .. MaxRx)]
    /\ RDR \in [Ports -> 1 .. MaxRx \cup {NoByte}]
    /\ RTS0 \in BOOLEAN
    /\ late \in 0 .. Slack
    /\ arrived \in [Ports -> 0 .. MaxRx]
    /\ read \in [Ports -> 0 .. MaxRx]

Waiting(p) == IF RxReady(p) THEN 1 ELSE 0

\* What came in was read, is in the buffer, oldest first, or waits in the register.
\* Port 1 is initialised without the receiver.
Counted(p) ==
    /\ \A k \in 1 .. used(rx[p]) : contents(rx[p])[k] = read[p] + k
    /\ arrived[p] = read[p] + used(rx[p]) + Waiting(p)
    /\ RxReady(p) => RDR[p] = arrived[p]
    /\ p # 0 => arrived[p] = 0

\* Since RTS was set, every byte that left less space is one of the late ones: so
\* there is a cell for each byte that the sender may still send.
SpaceForLate ==
    LET space == circular_buffer_space_left(rx[0]) - Waiting(0)
    IN  /\ ~RTS0 => late = 0
        /\ RTS0  => space >= SPACE_LEFT - 1 - late

RxInv ==
    /\ RxType
    /\ \A p \in Ports : Counted(p)
    /\ RtsTracksSpace
    /\ 0 \in Ports => SpaceForLate

LEMMA RxUnchanged == RxInv /\ UNCHANGED rxVars => RxInv'
<1> SUFFICES ASSUME RxInv, UNCHANGED rxVars PROVE RxInv'
  OBVIOUS
<1>1. /\ rx' = rx /\ RDR' = RDR /\ RTS0' = RTS0 /\ late' = late
      /\ arrived' = arrived /\ read' = read
  BY DEF rxVars
<1>2. RxType'
  BY <1>1 DEF RxInv, RxType
<1>3. ASSUME NEW p \in Ports PROVE Counted(p)'
  <2>1. /\ used(rx[p])' = used(rx[p]) /\ contents(rx[p])' = contents(rx[p])
        /\ Waiting(p)' = Waiting(p) /\ RxReady(p)' = RxReady(p)
    BY <1>1 DEF used, contents, cell, Waiting, RxReady
  <2> QED BY <1>1, <2>1 DEF RxInv, Counted
<1>4. RtsTracksSpace' /\ (0 \in Ports => SpaceForLate')
  BY <1>1 DEF RxInv, RtsTracksSpace, SpaceForLate, Waiting, RxReady,
              circular_buffer_space_left
<1> QED BY <1>2, <1>3, <1>4 DEF RxInv

LEMMA RxInit == Init => RxInv
<1> SUFFICES ASSUME Init PROVE RxInv
  OBVIOUS
<1> DEFINE e == empty_buffer(RxSize, 0)
<1>1. /\ RxSize \in Nat \ {0} /\ Slack \in Nat /\ 0 \in 0 .. MaxRx /\ 0 \in 0 .. Slack
      /\ SPACE_LEFT \in 1 .. RxSize - 1
  BY AsciAssumption
<1>2. e \in Ring(RxSize, 0 .. MaxRx)
  BY <1>1, EmptyIsEmpty
<1>3. used(e) = 0
  BY DEF empty_buffer, used
<1>4. circular_buffer_space_left(e) = RxSize - 1
  <2> HIDE DEF e
  <2>1. circular_buffer_space_left(e) = RxSize - 1 - used(e)
    BY <1>1, <1>2, RingArithmetic
  <2> QED BY <1>1, <1>3, <2>1
<1>5. /\ \A p \in Ports : /\ rx[p] = e /\ RDR[p] = NoByte /\ arrived[p] = 0 /\ read[p] = 0
                          /\ ~RxReady(p) /\ Waiting(p) = 0
      /\ RTS0 = FALSE /\ late = 0
  BY DEF Init, RxReady, Waiting
<1> HIDE DEF e
<1>6. RxType
  <2>1. rx = [p \in Ports |-> e]
    BY DEF Init, e
  <2> QED BY <1>1, <1>2, <2>1 DEF Init, RxType
<1>7. ASSUME NEW p \in Ports PROVE Counted(p)
  <2>1. used(rx[p]) = 0 /\ arrived[p] = 0 /\ read[p] = 0 /\ Waiting(p) = 0 /\ ~RxReady(p)
    BY <1>3, <1>5
  <2> QED BY <2>1 DEF Counted
<1>8. RtsTracksSpace
  BY <1>1, <1>4, <1>5 DEF RtsTracksSpace
<1>9. 0 \in Ports => SpaceForLate
  BY <1>5 DEF SpaceForLate
<1> QED BY <1>6, <1>7, <1>8, <1>9 DEF RxInv

\* What the invariant says of port 0, in numbers.
LEMMA PortZero ==
    ASSUME RxInv, 0 \in Ports
    PROVE  /\ RxSize \in Nat \ {0} /\ rx[0] \in Ring(RxSize, 0 .. MaxRx)
           /\ used(rx[0]) \in 0 .. RxSize - 1
           /\ circular_buffer_space_left(rx[0]) = RxSize - 1 - used(rx[0])
           /\ circular_buffer_is_full(rx[0]) <=> used(rx[0]) = RxSize - 1
           /\ SPACE_LEFT \in 1 .. RxSize - 1 /\ Slack \in 0 .. SPACE_LEFT - 1
           /\ late \in 0 .. Slack /\ arrived[0] \in 0 .. MaxRx /\ read[0] \in 0 .. MaxRx
           /\ MaxRx \in Nat /\ RTS0 \in BOOLEAN
           /\ RTS0 <=> RxSize - 1 - used(rx[0]) < SPACE_LEFT
           /\ ~RTS0 => late = 0
           /\ RTS0 => RxSize - 1 - used(rx[0]) - Waiting(0) >= SPACE_LEFT - 1 - late
<1>1. /\ RxSize \in Nat \ {0} /\ rx[0] \in Ring(RxSize, 0 .. MaxRx)
      /\ SPACE_LEFT \in 1 .. RxSize - 1 /\ Slack \in 0 .. SPACE_LEFT - 1
      /\ late \in 0 .. Slack /\ arrived[0] \in 0 .. MaxRx /\ read[0] \in 0 .. MaxRx
      /\ MaxRx \in Nat /\ RTS0 \in BOOLEAN
  BY AsciAssumption DEF RxInv, RxType
<1>2. /\ used(rx[0]) \in 0 .. RxSize - 1
      /\ circular_buffer_space_left(rx[0]) = RxSize - 1 - used(rx[0])
      /\ circular_buffer_is_full(rx[0]) <=> used(rx[0]) = RxSize - 1
  <2> HIDE DEF RxInv
  <2>1. used(rx[0]) \in 0 .. RxSize - 1
    BY <1>1, RingArithmetic
  <2>2. circular_buffer_space_left(rx[0]) = RxSize - 1 - used(rx[0])
    BY <1>1, RingArithmetic
  <2>3. circular_buffer_is_full(rx[0]) <=> used(rx[0]) = RxSize - 1
    BY <1>1, RingArithmetic
  <2> QED BY <2>1, <2>2, <2>3
<1> QED BY <1>1, <1>2 DEF RxInv, RtsTracksSpace, SpaceForLate

\* Only port 0 receives, so a step changes only its part of the invariant.
LEMMA RxOthers ==
    ASSUME RxInv, RxType', 0 \in Ports,
           \A q \in Ports \ {0} : /\ rx'[q] = rx[q] /\ RDR'[q] = RDR[q]
                                  /\ arrived'[q] = arrived[q] /\ read'[q] = read[q],
           Counted(0)',
           RTS0' <=> circular_buffer_space_left(rx'[0]) < SPACE_LEFT,
           SpaceForLate'
    PROVE  RxInv'
<1>1. ASSUME NEW q \in Ports \ {0} PROVE Counted(q)'
  <2>1. /\ used(rx[q])' = used(rx[q]) /\ contents(rx[q])' = contents(rx[q])
        /\ Waiting(q)' = Waiting(q) /\ RxReady(q)' = RxReady(q)
    BY DEF used, contents, cell, Waiting, RxReady
  <2> QED BY <2>1 DEF RxInv, Counted
<1>2. RtsTracksSpace'
  <2>1. circular_buffer_space_left(rx'[0]) = circular_buffer_space_left(rx[0])'
    BY DEF circular_buffer_space_left
  <2> QED BY <2>1 DEF RtsTracksSpace
<1> QED BY <1>1, <1>2 DEF RxInv

\* Nothing is in the buffer or in the register of port 1.
LEMMA PortOneIdle ==
    ASSUME RxInv, NEW p \in Ports, p # 0
    PROVE  ~RxReady(p) /\ used(rx[p]) = 0 /\ contents(rx[p]) = <<>>
<1>1. /\ RxSize \in Nat \ {0} /\ rx[p] \in Ring(RxSize, 0 .. MaxRx)
      /\ read[p] \in 0 .. MaxRx /\ MaxRx \in Nat
  BY AsciAssumption DEF RxInv, RxType
<1>2. used(rx[p]) \in 0 .. RxSize - 1
  BY <1>1, RingArithmetic
<1>3. 0 = read[p] + used(rx[p]) + Waiting(p) /\ Waiting(p) \in {0, 1}
  BY DEF RxInv, Counted, Waiting
<1>4. used(rx[p]) = 0 /\ Waiting(p) = 0
  BY <1>1, <1>2, <1>3
<1> QED BY <1>1, <1>4, ContentsType, EmptySeq DEF Waiting

LEMMA RxGetc ==
    ASSUME RxInv, NEW p \in Ports, asci_getc(p)
    PROVE  RxInv'
<1> DEFINE r == circular_buffer_get(rx[p])
<1>0. RxSize \in Nat \ {0} /\ rx[p] \in Ring(RxSize, 0 .. MaxRx)
  BY AsciAssumption DEF RxInv, RxType
<1>1. /\ r.buffer \in Ring(RxSize, 0 .. MaxRx)
      /\ contents(rx[p]) = <<>> => r.result = NoByte
      /\ contents(rx[p]) # <<>> => contents(r.buffer) = Tail(contents(rx[p]))
  BY <1>0, GetEffect
<1>2. /\ r.result # NoByte /\ rx' = [rx EXCEPT ![p] = r.buffer]
      /\ RTS0' = StopAfterGet(p, r.buffer) /\ late' = IF RTS0' THEN late ELSE 0
      /\ read' = [read EXCEPT ![p] = read[p] + 1]
      /\ RDR' = RDR /\ arrived' = arrived
  BY DEF asci_getc
<1> HIDE DEF r
<1>3. contents(rx[p]) # <<>> /\ p = 0 /\ 0 \in Ports
  BY <1>1, <1>2, PortOneIdle
<1> DEFINE u == used(rx[0])
           v == used(r.buffer)
<1>4. /\ contents(rx[0]) \in Seq(0 .. MaxRx) /\ Len(contents(rx[0])) = u
      /\ Len(contents(r.buffer)) = v /\ v \in 0 .. RxSize - 1
      /\ circular_buffer_space_left(r.buffer) = RxSize - 1 - v
  <2>1. contents(rx[0]) \in Seq(0 .. MaxRx) /\ Len(contents(rx[0])) = u
    BY <1>0, <1>3, ContentsType
  <2>2. Len(contents(r.buffer)) = v
    BY <1>0, <1>1, ContentsType
  <2>3. v \in 0 .. RxSize - 1 /\ circular_buffer_space_left(r.buffer) = RxSize - 1 - v
    BY <1>0, <1>1, RingArithmetic
  <2> QED BY <2>1, <2>2, <2>3
<1>5. /\ v = u - 1
      /\ \A k \in 1 .. v : contents(r.buffer)[k] = contents(rx[0])[k + 1]
  <2>1. /\ Len(Tail(contents(rx[0]))) = Len(contents(rx[0])) - 1
        /\ \A k \in 1 .. Len(Tail(contents(rx[0]))) :
              Tail(contents(rx[0]))[k] = contents(rx[0])[k + 1]
    BY <1>3, <1>4, HeadTailProperties
  <2> QED BY <1>1, <1>3, <1>4, <2>1
<1>6. /\ rx'[0] = r.buffer /\ read'[0] = read[0] + 1
      /\ \A q \in Ports \ {0} : rx'[q] = rx[q] /\ read'[q] = read[q]
  BY <1>2, <1>3 DEF RxInv, RxType
<1>7. /\ used(rx[0])' = v /\ Waiting(0)' = Waiting(0) /\ RxReady(0)' = RxReady(0)
      /\ contents(rx[0])' = contents(r.buffer)
      /\ circular_buffer_space_left(rx[0])' = RxSize - 1 - v
      /\ circular_buffer_space_left(rx'[0]) = RxSize - 1 - v
  <2>1. used(rx[0])' = v /\ contents(rx[0])' = contents(r.buffer)
    BY <1>6 DEF used, contents, cell
  <2>2. Waiting(0)' = Waiting(0) /\ RxReady(0)' = RxReady(0)
    BY <1>2 DEF Waiting, RxReady
  <2>3. circular_buffer_space_left(rx[0])' = circular_buffer_space_left(r.buffer)
    BY <1>6 DEF circular_buffer_space_left
  <2> QED BY <1>4, <1>6, <2>1, <2>2, <2>3
<1>8. /\ u \in 0 .. RxSize - 1
      /\ SPACE_LEFT \in 1 .. RxSize - 1 /\ Slack \in 0 .. SPACE_LEFT - 1
      /\ late \in 0 .. Slack /\ arrived[0] \in 0 .. MaxRx /\ read[0] \in 0 .. MaxRx
      /\ MaxRx \in Nat /\ RTS0 \in BOOLEAN
      /\ RTS0 <=> RxSize - 1 - u < SPACE_LEFT
      /\ ~RTS0 => late = 0
      /\ RTS0 => RxSize - 1 - u - Waiting(0) >= SPACE_LEFT - 1 - late
  BY <1>3, PortZero
<1>9. /\ \A k \in 1 .. u : contents(rx[0])[k] = read[0] + k
      /\ arrived[0] = read[0] + u + Waiting(0) /\ Waiting(0) \in {0, 1}
      /\ RxReady(0) => RDR[0] = arrived[0]
  BY <1>3 DEF RxInv, Counted, Waiting
<1>10. RTS0' <=> RTS0 /\ ~(RxSize - 1 - v >= SPACE_LEFT)
  BY <1>2, <1>3, <1>4 DEF StopAfterGet
<1> HIDE DEF u, v
<1>11. read[0] + 1 \in 0 .. MaxRx
  BY <1>0, <1>4, <1>5, <1>8, <1>9
<1>12. RxType'
  <2>1. rx' \in [Ports -> Ring(RxSize, 0 .. MaxRx)]
    BY <1>1, <1>2 DEF RxInv, RxType
  <2>2. read' \in [Ports -> 0 .. MaxRx]
    BY <1>2, <1>3, <1>11 DEF RxInv, RxType
  <2>3. late' \in 0 .. Slack /\ RTS0' \in BOOLEAN
    BY <1>2, <1>8 DEF StopAfterGet
  <2> QED BY <1>2, <2>1, <2>2, <2>3 DEF RxInv, RxType
<1>13. Counted(0)'
  <2>1. ASSUME NEW k \in 1 .. v PROVE contents(r.buffer)[k] = read[0] + 1 + k
    <3>1. k + 1 \in 1 .. u
      BY <1>4, <1>5, <1>8
    <3>2. contents(rx[0])[k + 1] = read[0] + (k + 1)
      BY <1>9, <3>1
    <3>3. contents(r.buffer)[k] = contents(rx[0])[k + 1]
      BY <1>5
    <3>4. read[0] + (k + 1) = read[0] + 1 + k
      <4>1. k \in Int /\ read[0] \in Int
        BY <1>0, <1>4, <1>8
      <4> QED BY <4>1
    <3> QED BY <3>2, <3>3, <3>4
  <2>2. arrived[0] = read[0] + 1 + v + Waiting(0)
    BY <1>4, <1>5, <1>8, <1>9
  <2> QED BY <1>2, <1>6, <1>7, <1>9, <2>1, <2>2 DEF Counted
<1>14. RTS0' <=> RxSize - 1 - v < SPACE_LEFT
  BY <1>0, <1>4, <1>5, <1>8, <1>10
<1>15. SpaceForLate'
  <2>1. ~RTS0' => late' = 0
    BY <1>2
  <2>2. RTS0' => RxSize - 1 - v - Waiting(0) >= SPACE_LEFT - 1 - late'
    BY <1>0, <1>2, <1>4, <1>5, <1>8, <1>9, <1>10
  <2> QED BY <1>7, <2>1, <2>2 DEF SpaceForLate
<1> QED BY <1>2, <1>3, <1>6, <1>7, <1>12, <1>13, <1>14, <1>15, RxOthers

\* The handler's receiving half.  Its put never fails: RTS has kept a cell free.
LEMMA RxReceive ==
    ASSUME RxInv, NEW p \in Ports, RxReady(p), Receive(p)
    PROVE  RxInv'
<1>1. p = 0 /\ 0 \in Ports
  BY PortOneIdle
<1> DEFINE u == used(rx[0])
           byte == RDR[0]
           r == circular_buffer_put(rx[0], byte)
           v == used(r.buffer)
<1>2. /\ RxSize \in Nat \ {0} /\ rx[0] \in Ring(RxSize, 0 .. MaxRx)
      /\ u \in 0 .. RxSize - 1
      /\ circular_buffer_is_full(rx[0]) <=> u = RxSize - 1
      /\ SPACE_LEFT \in 1 .. RxSize - 1 /\ Slack \in 0 .. SPACE_LEFT - 1
      /\ late \in 0 .. Slack /\ arrived[0] \in 0 .. MaxRx /\ read[0] \in 0 .. MaxRx
      /\ MaxRx \in Nat /\ RTS0 \in BOOLEAN
      /\ RTS0 <=> RxSize - 1 - u < SPACE_LEFT
      /\ ~RTS0 => late = 0
      /\ RTS0 => RxSize - 1 - u - 1 >= SPACE_LEFT - 1 - late
  BY <1>1, PortZero DEF Waiting
<1>3. /\ \A k \in 1 .. u : contents(rx[0])[k] = read[0] + k
      /\ arrived[0] = read[0] + u + 1 /\ byte = arrived[0] /\ byte \in 0 .. MaxRx
  BY <1>1, <1>2 DEF RxInv, Counted, Waiting
<1>4. ~circular_buffer_is_full(rx[0])
  <2> HIDE DEF u
  <2>1. u # RxSize - 1
    BY <1>2
  <2> QED BY <1>2, <2>1
<1>5. /\ r.buffer \in Ring(RxSize, 0 .. MaxRx)
      /\ contents(r.buffer) = Append(contents(rx[0]), byte)
  BY <1>2, <1>3, <1>4, PutEffect
<1>6. /\ rx' = [rx EXCEPT ![p] = r.buffer]
      /\ RTS0' = StopAfterPut(p, rx'[p])
      /\ RDR' = [RDR EXCEPT ![p] = NoByte]
      /\ late' = late /\ arrived' = arrived /\ read' = read
  BY <1>1 DEF Receive
<1> HIDE DEF r, byte
<1>7. /\ contents(rx[0]) \in Seq(0 .. MaxRx) /\ Len(contents(rx[0])) = u
      /\ Len(contents(r.buffer)) = v /\ v \in 0 .. RxSize - 1
      /\ circular_buffer_space_left(r.buffer) = RxSize - 1 - v
  <2>1. contents(rx[0]) \in Seq(0 .. MaxRx) /\ Len(contents(rx[0])) = u
    BY <1>2, ContentsType
  <2>2. Len(contents(r.buffer)) = v
    BY <1>2, <1>5, ContentsType
  <2>3. v \in 0 .. RxSize - 1
    BY <1>2, <1>5, RingArithmetic
  <2>4. circular_buffer_space_left(r.buffer) = RxSize - 1 - v
    BY <1>2, <1>5, RingArithmetic
  <2> QED BY <2>1, <2>2, <2>3, <2>4
<1>8. /\ v = u + 1 /\ contents(r.buffer)[u + 1] = byte
      /\ \A k \in 1 .. u : contents(r.buffer)[k] = contents(rx[0])[k]
  BY <1>3, <1>5, <1>7, AppendProperties
<1>9. /\ rx'[0] = r.buffer /\ RDR'[0] = NoByte
      /\ \A q \in Ports \ {0} : rx'[q] = rx[q] /\ RDR'[q] = RDR[q]
  BY <1>1, <1>6 DEF RxInv, RxType
<1>10. /\ used(rx[0])' = v /\ contents(rx[0])' = contents(r.buffer)
       /\ Waiting(0)' = 0 /\ ~RxReady(0)'
       /\ circular_buffer_space_left(rx[0])' = RxSize - 1 - v
       /\ circular_buffer_space_left(rx'[0]) = RxSize - 1 - v
  <2>1. used(rx[0])' = v /\ contents(rx[0])' = contents(r.buffer)
    BY <1>9 DEF used, contents, cell
  <2>2. Waiting(0)' = 0 /\ ~RxReady(0)'
    BY <1>9 DEF Waiting, RxReady
  <2>3. circular_buffer_space_left(rx[0])' = circular_buffer_space_left(r.buffer)
    BY <1>9 DEF circular_buffer_space_left
  <2> QED BY <1>7, <1>9, <2>1, <2>2, <2>3
<1>11. RTS0' <=> RTS0 \/ RxSize - 1 - v < SPACE_LEFT
  BY <1>1, <1>6, <1>7, <1>9 DEF StopAfterPut
<1> HIDE DEF u, v
<1>12. RxType'
  <2>1. rx' \in [Ports -> Ring(RxSize, 0 .. MaxRx)]
    BY <1>5, <1>6 DEF RxInv, RxType
  <2>2. RDR' \in [Ports -> 1 .. MaxRx \cup {NoByte}]
    BY <1>6 DEF RxInv, RxType
  <2>3. RTS0' \in BOOLEAN
    BY <1>2, <1>6 DEF StopAfterPut
  <2> QED BY <1>6, <2>1, <2>2, <2>3 DEF RxInv, RxType
<1>13. Counted(0)'
  <2>1. ASSUME NEW k \in 1 .. v PROVE contents(r.buffer)[k] = read[0] + k
    <3>1. CASE k = u + 1
      <4>1. contents(r.buffer)[k] = byte
        BY <1>8, <3>1
      <4>2. byte = read[0] + k
        BY <1>2, <1>3, <3>1
      <4> QED BY <4>1, <4>2
    <3>2. CASE k # u + 1
      <4>1. k \in 1 .. u
        BY <1>2, <1>7, <1>8, <3>2
      <4> QED BY <1>3, <1>8, <4>1
    <3> QED BY <3>1, <3>2
  <2>2. arrived[0] = read[0] + v + 0
    <3>1. u \in Int /\ read[0] \in Int
      BY <1>2
    <3>2. arrived[0] = read[0] + u + 1 /\ v = u + 1
      BY <1>3, <1>8
    <3> QED BY <3>1, <3>2
  <2> QED BY <1>6, <1>10, <2>1, <2>2 DEF Counted
<1>14. RTS0' <=> RxSize - 1 - v < SPACE_LEFT
  BY <1>2, <1>7, <1>8, <1>11
<1>15. SpaceForLate'
  <2>1. ~RTS0' => late' = 0
    BY <1>2, <1>6, <1>11
  <2>2. RTS0' => RxSize - 1 - v - 0 >= SPACE_LEFT - 1 - late'
    BY <1>2, <1>6, <1>7, <1>8, <1>11
  <2> QED BY <1>10, <2>1, <2>2 DEF SpaceForLate
<1> QED BY <1>1, <1>6, <1>9, <1>10, <1>12, <1>13, <1>14, <1>15, RxOthers

LEMMA RxShiftIn ==
    ASSUME RxInv, NEW p \in Ports, ShiftIn(p)
    PROVE  RxInv'
<1>1. /\ p = 0 /\ 0 \in Ports
      /\ RDR[0] = NoByte /\ arrived[0] < MaxRx /\ (RTS0 => late < Slack)
      /\ arrived' = [arrived EXCEPT ![0] = arrived[0] + 1]
      /\ RDR' = [RDR EXCEPT ![0] = arrived[0] + 1]
      /\ late' = IF RTS0 THEN late + 1 ELSE 0
      /\ rx' = rx /\ RTS0' = RTS0 /\ read' = read
  BY DEF ShiftIn
<1> DEFINE u == used(rx[0])
<1>2. Waiting(0) = 0
  BY <1>1 DEF Waiting, RxReady
<1>3. /\ RxSize \in Nat \ {0} /\ u \in 0 .. RxSize - 1
      /\ circular_buffer_space_left(rx[0]) = RxSize - 1 - u
      /\ SPACE_LEFT \in 1 .. RxSize - 1 /\ Slack \in 0 .. SPACE_LEFT - 1
      /\ late \in 0 .. Slack /\ arrived[0] \in 0 .. MaxRx /\ read[0] \in 0 .. MaxRx
      /\ MaxRx \in Nat /\ RTS0 \in BOOLEAN
      /\ RTS0 <=> RxSize - 1 - u < SPACE_LEFT
      /\ RTS0 => RxSize - 1 - u - 0 >= SPACE_LEFT - 1 - late
  BY <1>1, <1>2, PortZero
<1>4. /\ \A k \in 1 .. u : contents(rx[0])[k] = read[0] + k
      /\ arrived[0] = read[0] + u + 0
  BY <1>1, <1>2 DEF RxInv, Counted
<1>5. /\ RDR'[0] = arrived[0] + 1 /\ arrived'[0] = arrived[0] + 1
      /\ \A q \in Ports \ {0} : RDR'[q] = RDR[q] /\ arrived'[q] = arrived[q]
  BY <1>1 DEF RxInv, RxType
<1>6. /\ used(rx[0])' = u /\ contents(rx[0])' = contents(rx[0])
      /\ Waiting(0)' = 1
      /\ circular_buffer_space_left(rx[0])' = RxSize - 1 - u
      /\ circular_buffer_space_left(rx'[0]) = RxSize - 1 - u
  <2>1. used(rx[0])' = u /\ contents(rx[0])' = contents(rx[0])
    BY <1>1 DEF used, contents, cell
  <2>2. Waiting(0)' = 1
    BY <1>3, <1>5 DEF Waiting, RxReady, NoByte
  <2>3. circular_buffer_space_left(rx[0])' = circular_buffer_space_left(rx[0])
    BY <1>1 DEF circular_buffer_space_left
  <2> QED BY <1>1, <1>3, <2>1, <2>2, <2>3
<1> HIDE DEF u
<1>7. RxType'
  <2>1. arrived[0] + 1 \in 1 .. MaxRx
    BY <1>1, <1>3
  <2>2. late' \in 0 .. Slack
    BY <1>1, <1>3
  <2>3. RDR' \in [Ports -> 1 .. MaxRx \cup {NoByte}] /\ arrived' \in [Ports -> 0 .. MaxRx]
    BY <1>1, <2>1 DEF RxInv, RxType
  <2> QED BY <1>1, <2>2, <2>3 DEF RxInv, RxType
<1>8. Counted(0)'
  <2>1. arrived[0] + 1 = read[0] + u + 1
    BY <1>3, <1>4
  <2> QED BY <1>1, <1>4, <1>5, <1>6, <2>1 DEF Counted
<1>9. SpaceForLate'
  <2>1. ~RTS0' => late' = 0
    BY <1>1
  <2>2. RTS0' => RxSize - 1 - u - 1 >= SPACE_LEFT - 1 - late'
    BY <1>1, <1>3
  <2> QED BY <1>6, <2>1, <2>2 DEF SpaceForLate
<1> QED BY <1>1, <1>3, <1>5, <1>6, <1>7, <1>8, <1>9, RxOthers

LEMMA RxStep == RxInv /\ [Next]_vars => RxInv'
<1> SUFFICES ASSUME RxInv, [Next]_vars PROVE RxInv'
  OBVIOUS
<1>1. CASE UNCHANGED rxVars
  BY <1>1, RxUnchanged
<1>2. CASE UNCHANGED vars
  BY <1>1, <1>2 DEF vars
<1>3. CASE Next
  <2> PICK p \in Ports : \/ \E c \in Byte : asci_putc(p, c)
                         \/ asci_getc(p) \/ int_asci(p) \/ ShiftOut(p) \/ ShiftIn(p)
    BY <1>3 DEF Next
  <2>1. CASE \E c \in Byte : asci_putc(p, c)
    BY <1>1, <2>1 DEF asci_putc
  <2>2. CASE asci_getc(p)
    BY <2>2, RxGetc
  <2>3. CASE int_asci(p)
    BY <1>1, <2>3, RxReceive DEF int_asci
  <2>4. CASE ShiftOut(p)
    BY <1>1, <2>4 DEF ShiftOut
  <2>5. CASE ShiftIn(p)
    BY <2>5, RxShiftIn
  <2> QED BY <2>1, <2>2, <2>3, <2>4, <2>5
<1> QED BY <1>2, <1>3

\* No byte that comes in is dropped, for every size of the buffer, every reserve that
\* RTS keeps and every sender that is less late than the reserve is long, although
\* int_asci0 does not look at what circular_buffer_put returns.
THEOREM NothingLostOnTheWayIn == Spec => []RxNothingLost
<1>1. TxInv /\ RxInv => RxNothingLost
  <2> SUFFICES ASSUME TxInv, RxInv PROVE RxNothingLost
    OBVIOUS
  <2>1. TypeOK /\ RtsTracksSpace
    BY DEF TypeOK, TxInv, TxType, RxInv, RxType
  <2>2. ASSUME NEW p \in Ports
        PROVE  /\ contents(rx[p]) = [k \in 1 .. used(rx[p]) |-> read[p] + k]
               /\ arrived[p] = read[p] + used(rx[p]) + (IF RxReady(p) THEN 1 ELSE 0)
    <3>1. /\ \A k \in 1 .. used(rx[p]) : contents(rx[p])[k] = read[p] + k
          /\ arrived[p] = read[p] + used(rx[p]) + (IF RxReady(p) THEN 1 ELSE 0)
      BY DEF RxInv, Counted, Waiting
    <3>2. contents(rx[p]) = [k \in 1 .. used(rx[p]) |-> contents(rx[p])[k]]
      BY DEF contents
    <3> QED BY <3>1, <3>2
  <2> QED BY <2>1, <2>2 DEF RxNothingLost
<1> QED BY <1>1, TxInit, TxStep, RxInit, RxStep, PTL DEF Spec
=============================================================================
