------------------------------ MODULE FileProofs ------------------------------
(***************************************************************************)
(* Theorems about the system calls of src/file.c and execve.               *)
(*                                                                         *)
(* About ReadWrite and Execve, for any size of the address space and of    *)
(* the user buffer: the bytes of a call arrive in order and where they     *)
(* belong, a call that fails moved nothing, an execve that fails gives     *)
(* everything back, and the arguments of one that does not all arrive.     *)
(*                                                                         *)
(* About Files, for any number of processes, descriptors and open files:   *)
(* all reference counts are exact.                                         *)
(***************************************************************************)
EXTENDS Files, Execve, FiniteSetTheorems, SequenceTheorems, WellFoundedInduction, TLAPS

-----------------------------------------------------------------------------
(* Arithmetic of the address space.                                         *)

Half == SPACE \div 2

LEMMA Sizes ==
    /\ SPACE \in Nat /\ Half \in Nat /\ SPACE = 2 * Half
    /\ MEM_USER_BUFFER_SIZE \in Nat \ {0} /\ MEM_USER_BUFFER_SIZE < Half
    /\ LO \in Nat /\ HI \in Nat /\ LO < HI /\ HI < SPACE
    /\ MaxPos \in Nat /\ FileSize \in Nat
BY ReadWriteAssumption DEF Half

LEMMA SignedRange ==
    ASSUME NEW n \in -1 .. SPACE - 1
    PROVE  /\ Signed(n) \in -Half .. Half - 1
           /\ Signed(n) < 0 => n < 0 \/ n >= Half
BY Sizes DEF Signed, Half

-----------------------------------------------------------------------------
(* The inductive invariant of a call.                                       *)

\* A loop is at the place its count of done bytes says: the position has moved
\* by as many from where it was, the memory of a read and the stream of a write
\* hold them, and a read stores nothing behind them.
CallInv ==
    /\ op = "none" => mem = Untouched /\ taken = <<>>
    /\ op \in {"read", "write"} => done_count >= 0 /\ start + count <= MaxPos
    /\ op = "read" =>
         /\ ReadBounds(buf, count) /\ taken = <<>>
         /\ \A k \in 0 .. done_count - 1 : mem[buf + k] = start + k
    /\ op = "write" =>
         /\ WriteBounds(buf, count) /\ mem = Untouched
         /\ taken = [k \in 1 .. done_count |-> buf + k - 1]
    /\ op # "none" => pos = start + Moved

\* A read of a pipe may store too much: the DMA channel takes zero for 2^16.
BoundsInv == type # "pipe_read" => ReadInBounds

CountInv == op = "none" /\ result < 0 => pos = start \/ Moved >= Half

RWInv == TypeOK /\ CallInv /\ WriteInOrder /\ ReadInOrder /\ BoundsInv /\ CountInv

-----------------------------------------------------------------------------
(* What a driver or a file system may answer.                               *)

LEMMA PieceSize ==
    ASSUME TypeOK, done_count >= 0, done_count < count
    PROVE  /\ inc_count \in 1 .. count - done_count
           /\ inc_count <= MEM_USER_BUFFER_SIZE
<1>1. count \in Int /\ done_count \in Int
  BY Sizes DEF TypeOK, Addr
<1> QED BY <1>1, Sizes DEF inc_count, Smaller

LEMMA Answers ==
    ASSUME TypeOK, done_count >= 0, done_count < count
    PROVE  /\ file_read \subseteq -1 .. inc_count
           /\ type # "pipe_read" => 0 \notin file_read
           /\ file_write \subseteq -1 .. inc_count
<1>1. inc_count \in Nat \ {0}
  BY PieceSize, Sizes DEF TypeOK, Addr
<1>2. pos \in Nat
  BY Sizes DEF TypeOK, Position
<1>3. fs_initrd_read \subseteq -1 .. inc_count /\ 0 \notin fs_initrd_read
  BY <1>1, <1>2, Sizes DEF fs_initrd_read, Smaller
<1>4. device_read \subseteq -1 .. inc_count /\ 0 \notin device_read
  <2>1. asci_read \subseteq -1 .. inc_count /\ 0 \notin asci_read
    BY <1>1 DEF asci_read
  <2>2. sd_transfer \subseteq -1 .. inc_count /\ 0 \notin sd_transfer
    BY <1>1 DEF sd_transfer
  <2>3. Fails \subseteq -1 .. inc_count /\ 0 \notin Fails
    BY <1>1 DEF Fails
  <2> QED BY <2>1, <2>2, <2>3 DEF device_read
<1>5. pipe_read \subseteq -1 .. inc_count
  BY <1>1 DEF pipe_read
<1>6. device_write \subseteq -1 .. inc_count
  BY <1>1 DEF device_write, asci_write, sd_transfer, Fails
<1>7. pipe_write \subseteq -1 .. inc_count /\ {0} \subseteq -1 .. inc_count
  BY <1>1 DEF pipe_write
<1>8. file_read \subseteq -1 .. inc_count /\ (type # "pipe_read" => 0 \notin file_read)
  BY <1>3, <1>4, <1>5 DEF file_read
<1>9. file_write \subseteq -1 .. inc_count
  BY <1>6, <1>7 DEF file_write
<1> QED BY <1>8, <1>9

-----------------------------------------------------------------------------
(* Steps of ReadWrite.                                                      *)

LEMMA UntouchedType ==
    /\ Untouched \in [Physical -> Position \cup {Old, Junk}]
    /\ \A a \in Physical : Untouched[a] = Old
BY DEF Untouched

\* A state in which no call is under way
LEMMA NoCallRW ==
    ASSUME TypeOK, op = "none", mem = Untouched, taken = <<>>, CountInv
    PROVE  RWInv
<1>1. CallInv /\ WriteInOrder /\ ReadInOrder
  BY DEF CallInv, WriteInOrder, ReadInOrder
<1>2. BoundsInv
  BY UntouchedType DEF BoundsInv, ReadInBounds
<1> QED BY <1>1, <1>2 DEF RWInv

IdleRW == TypeOK /\ op = "none" /\ mem = Untouched /\ taken = <<>> /\ CountInv

LEMMA IdleRWNext == IdleRW' => RWInv'
<1>1. IdleRW => RWInv
  BY NoCallRW DEF IdleRW
<1> QED BY <1>1, PTL

LEMMA InitRW ==
    ASSUME Init
    PROVE  RWInv
<1>1. TypeOK
  <2>1. type \in Types /\ pos \in Position /\ op \in {"none", "read", "write", "end"}
    BY Sizes DEF Init, Position
  <2>2. buf \in Addr /\ count \in Addr /\ done_count \in -1 .. count /\ start \in Position
    BY Sizes DEF Init, Position, Addr
  <2>3. mem \in [Physical -> Position \cup {Old, Junk}]
    BY UntouchedType DEF Init
  <2>4. taken \in Seq(Addr) /\ result \in -(SPACE \div 2) .. SPACE \div 2 - 1
    BY Sizes DEF Init, Half
  <2> QED BY <2>1, <2>2, <2>3, <2>4 DEF TypeOK
<1>2. op = "none" /\ mem = Untouched /\ taken = <<>> /\ CountInv
  BY DEF Init, CountInv
<1> QED BY <1>1, <1>2, NoCallRW

LEMMA CallRW ==
    ASSUME RWInv, NEW what, NEW b \in Addr, NEW c \in Addr, Call(what, b, c),
           \/ what = "read" /\ ReadBounds(b, c)
           \/ what = "write" /\ WriteBounds(b, c)
    PROVE  RWInv'
<1>1. /\ TypeOK /\ pos + c <= MaxPos
      /\ op' = what /\ buf' = b /\ count' = c /\ done_count' = 0 /\ start' = pos
      /\ mem' = Untouched /\ taken' = <<>>
      /\ type' = type /\ pos' = pos /\ result' = result
  BY DEF RWInv, Call
<1>2. pos \in Nat /\ c \in Nat
  BY <1>1, Sizes DEF TypeOK, Position, Addr
<1>3. TypeOK'
  <2>1. done_count' \in -1 .. count'
    BY <1>1, <1>2
  <2>2. op' \in {"none", "read", "write", "end"}
    BY <1>1
  <2>3. mem' \in [Physical -> Position \cup {Old, Junk}]
    BY <1>1, UntouchedType
  <2>4. taken' \in Seq(Addr)
    BY <1>1
  <2> QED BY <1>1, <2>1, <2>2, <2>3, <2>4 DEF TypeOK
<1>4. Moved' = 0
  BY <1>1 DEF Moved
<1>5. CallInv'
  <2>1. \A k \in 0 .. done_count' - 1 : FALSE
    BY <1>1
  <2>2. pos' = start' + Moved'
    BY <1>1, <1>2, <1>4
  <2>3. taken' = [k \in 1 .. done_count' |-> buf' + k - 1]
    BY <1>1
  <2>4. op' = "read" => ReadBounds(buf', count')
    BY <1>1
  <2>5. op' = "write" => WriteBounds(buf', count')
    BY <1>1
  <2>6. op' # "none" /\ done_count' >= 0 /\ start' + count' <= MaxPos
    BY <1>1
  <2> QED BY <1>1, <2>1, <2>2, <2>3, <2>4, <2>5, <2>6 DEF CallInv, ReadBounds, WriteBounds
<1>6. WriteInOrder'
  BY <1>1 DEF WriteInOrder
<1>7. ReadInOrder'
  <2>1. \A k \in 0 .. done_count' - 1 : FALSE
    BY <1>1
  <2> QED BY <1>1, <1>2, <1>4, <2>1 DEF ReadInOrder
<1>8. BoundsInv'
  BY <1>1, UntouchedType DEF BoundsInv, ReadInBounds
<1>9. CountInv'
  BY <1>1 DEF CountInv
<1> QED BY <1>3, <1>5, <1>6, <1>7, <1>8, <1>9 DEF RWInv

\* A call that moves no bytes, but may set the position.
LEMMA NothingRW ==
    ASSUME RWInv, MovesNothing, pos' \in Position, result' \in {-1, 0}
    PROVE  RWInv'
<1>1. /\ TypeOK /\ op = "none"
      /\ count' = 0 /\ done_count' = 0 /\ start' = pos'
      /\ mem' = Untouched /\ taken' = <<>>
      /\ type' = type /\ op' = op /\ buf' = buf
  BY DEF RWInv, MovesNothing
<1>2. TypeOK'
  <2>1. count' \in Addr /\ done_count' \in -1 .. count' /\ start' \in Position
    BY <1>1, Sizes DEF Addr
  <2>2. mem' \in [Physical -> Position \cup {Old, Junk}] /\ taken' \in Seq(Addr)
    BY <1>1, UntouchedType
  <2>3. result' \in -(SPACE \div 2) .. SPACE \div 2 - 1
    BY Sizes DEF Half
  <2> QED BY <1>1, <2>1, <2>2, <2>3 DEF TypeOK
<1>3. CountInv'
  BY <1>1 DEF CountInv
<1> QED BY <1>1, <1>2, <1>3, IdleRWNext DEF IdleRW

\* What a call returns is its count of done bytes.
LEMMA ReturnRW ==
    ASSUME RWInv, Return
    PROVE  RWInv'
<1>1. /\ TypeOK /\ op # "none" /\ pos = start + Moved
      /\ op' = "none" /\ result' = Signed(done_count)
      /\ mem' = Untouched /\ taken' = <<>>
      /\ type' = type /\ pos' = pos /\ buf' = buf /\ count' = count /\ start' = start
      /\ done_count' = done_count
  BY DEF RWInv, CallInv, Return, args
<1>2. done_count \in -1 .. SPACE - 1
  BY <1>1, Sizes DEF TypeOK, Addr
<1>3. Signed(done_count) \in -Half .. Half - 1
      /\ (Signed(done_count) < 0 => done_count < 0 \/ done_count >= Half)
  BY <1>2, SignedRange
<1>4. TypeOK'
  <2>1. mem' \in [Physical -> Position \cup {Old, Junk}] /\ taken' \in Seq(Addr)
    BY <1>1, UntouchedType
  <2> QED BY <1>1, <1>3, <2>1 DEF TypeOK, Half
<1>5. CountInv'
  <2>1. pos \in Nat /\ start \in Nat
    BY <1>1, Sizes DEF TypeOK, Position
  <2>2. Moved' = Moved /\ (done_count < 0 => pos = start) /\ (done_count >= Half => Moved >= Half)
    BY <1>1, <1>2, <2>1, Sizes DEF Moved
  <2> QED BY <1>1, <1>3, <2>2 DEF CountInv
<1> QED BY <1>1, <1>4, <1>5, IdleRWNext DEF IdleRW

\* The loops' part of a piece: n bytes more, or an error behind those that are
\* done.
LEMMA AdvanceRW ==
    ASSUME RWInv, op \in {"read", "write"}, done_count < count,
           NEW n \in -1 .. inc_count, Advance(n)
    PROVE  /\ type' = type /\ buf' = buf /\ count' = count /\ start' = start /\ result' = result
           /\ pos' \in Position /\ op' \in {op, "end"}
           /\ done_count' \in -1 .. count' /\ pos' = start' + Moved'
           /\ n < 0 => /\ op' = "end" /\ Moved' = done_count
                       /\ done_count' <= done_count /\ pos' = pos
           /\ n >= 0 => /\ done_count' = done_count + n /\ Moved' = done_count + n
                        /\ pos' = pos + n
           /\ n >= 0 => pos + n <= MaxPos
           /\ op' = op => done_count' >= 0
<1>1. /\ TypeOK /\ CallInv /\ done_count >= 0 /\ start + count <= MaxPos
      /\ pos = start + Moved /\ op # "none" /\ op # "end"
  BY DEF RWInv, CallInv
<1>2. /\ count \in Nat /\ count < SPACE /\ done_count \in Nat /\ pos \in Nat /\ start \in Nat
      /\ Moved = done_count
  BY <1>1, Sizes DEF TypeOK, Addr, Position, Moved
<1>3. /\ inc_count \in 1 .. count - done_count
  BY <1>1, PieceSize
<1>4. /\ done_count' = IF n < 0 THEN AfterError ELSE done_count + n
      /\ pos' = IF n < 0 THEN pos ELSE pos + n
      /\ op' = IF LastPiece(n) THEN "end" ELSE op
      /\ type' = type /\ buf' = buf /\ count' = count /\ start' = start /\ result' = result
  BY DEF Advance, args
<1>5. CASE n < 0
  <2>1. op' = "end"
    BY <1>3, <1>4, <1>5 DEF LastPiece
  <2>2. /\ done_count' = IF done_count = 0 THEN -1 ELSE done_count
    BY <1>4, <1>5 DEF AfterError
  <2>3. Moved' = done_count
    BY <1>2, <2>2 DEF Moved
  <2> QED BY <1>1, <1>2, <1>4, <1>5, <2>1, <2>2, <2>3, Sizes DEF Position, TypeOK
<1>6. CASE n >= 0
  <2>1. /\ done_count' = done_count + n /\ pos' = pos + n /\ n \in Nat /\ n <= count - done_count
    BY <1>2, <1>3, <1>4, <1>6
  <2>2. Moved' = done_count + n
    BY <1>2, <2>1 DEF Moved
  <2> QED BY <1>1, <1>2, <1>4, <1>6, <2>1, <2>2, Sizes DEF Position
<1> QED BY <1>2, <1>3, <1>5, <1>6

LEMMA ReadPieceRW ==
    ASSUME RWInv, ReadPiece
    PROVE  RWInv'
<1>1. /\ TypeOK /\ CallInv /\ BoundsInv /\ op = "read" /\ done_count < count
      /\ done_count >= 0 /\ start + count <= MaxPos /\ ReadBounds(buf, count)
      /\ taken = <<>> /\ taken' = taken /\ pos = start + Moved
      /\ \A k \in 0 .. done_count - 1 : mem[buf + k] = start + k
  BY DEF RWInv, CallInv, ReadPiece
<1>2. PICK n \in file_read : mem' = (IF n < 0 THEN mem ELSE CopiedOut(n)) /\ Advance(n)
  BY DEF ReadPiece
<1>3. /\ n \in -1 .. inc_count /\ inc_count \in 1 .. count - done_count
      /\ type # "pipe_read" => n # 0
  BY <1>1, <1>2, Answers, PieceSize
<1>4. /\ type' = type /\ buf' = buf /\ count' = count /\ start' = start /\ result' = result
      /\ pos' \in Position /\ op' \in {op, "end"}
      /\ done_count' \in -1 .. count' /\ pos' = start' + Moved'
      /\ n < 0 => op' = "end" /\ done_count' <= done_count
      /\ n >= 0 => done_count' = done_count + n /\ pos + n <= MaxPos
      /\ op' = op => done_count' >= 0
  BY <1>1, <1>2, <1>3, AdvanceRW
<1>5. /\ buf \in Nat /\ count \in Nat /\ done_count \in Nat /\ start \in Nat /\ pos \in Nat
      /\ buf >= LO /\ buf + count <= HI /\ type \in Types
      /\ mem \in [Physical -> Position \cup {Old, Junk}]
      /\ pos = start + done_count /\ done_count' \in Int
  BY <1>1, <1>4, Sizes DEF TypeOK, Addr, Position, ReadBounds, Moved
<1>6. CASE n < 0
  <2>1. mem' = mem
    BY <1>2, <1>6
  <2>2. \A k \in 0 .. done_count' - 1 : mem'[buf' + k] = start' + k
    <3>1. done_count' <= done_count /\ buf' = buf /\ start' = start
      BY <1>4, <1>6
    <3>2. PICK d \in Int : d = done_count'
      BY <1>5
    <3>3. ASSUME NEW k \in 0 .. d - 1 PROVE mem'[buf + k] = start + k
      <4>1. d <= done_count /\ done_count \in Nat
        BY <1>5, <3>1, <3>2
      <4>2. k \in 0 .. done_count - 1
        BY <4>1
      <4> QED BY <1>1, <2>1, <4>2
    <3> QED BY <3>1, <3>2, <3>3
  <2>3. TypeOK'
    BY <1>1, <1>4, <2>1 DEF TypeOK
  <2>4. BoundsInv'
    BY <1>1, <1>4, <2>1 DEF BoundsInv, ReadInBounds
  <2>5. CallInv' /\ WriteInOrder' /\ ReadInOrder' /\ CountInv'
    BY <1>1, <1>4, <1>6, <2>2 DEF CallInv, WriteInOrder, ReadInOrder, CountInv
  <2> QED BY <2>3, <2>4, <2>5 DEF RWInv
<1>7. CASE n >= 0
  <2>1. /\ n \in Nat /\ n <= count - done_count /\ done_count' = done_count + n
        /\ n # 0 => DmaCount(n) = n
    BY <1>3, <1>4, <1>5, <1>7 DEF DmaCount
  <2>2. /\ mem' \in [Physical -> Position \cup {Old, Junk}]
        /\ \A a \in Physical :
             mem'[a] = IF a - Dest \notin 0 .. DmaCount(n) - 1 THEN mem[a]
                       ELSE IF a - Dest < n THEN pos + (a - Dest) ELSE Junk
    <3>1. mem' = CopiedOut(n)
      <4>1. ~(n < 0)
        BY <1>3, <1>7
      <4> QED BY <1>2, <4>1
    <3>2. ASSUME NEW a \in Physical, a - Dest \in 0 .. DmaCount(n) - 1, a - Dest < n
          PROVE  pos + (a - Dest) \in Position
      <4>1. a - Dest \in Int /\ a - Dest >= 0
        BY <1>5, <3>2, Sizes DEF Physical, Dest
      <4> HIDE DEF Dest
      <4> QED BY <1>4, <1>5, <1>7, <2>1, <3>2, <4>1, Sizes DEF Position
    <3>3. \A a \in Physical : mem[a] \in Position \cup {Old, Junk}
      BY <1>5
    <3> QED BY <3>1, <3>2, <3>3 DEF CopiedOut
  <2>3. ASSUME NEW k \in 0 .. done_count' - 1
        PROVE  mem'[buf + k] = start + k
    <3>1. /\ buf + k \in Physical /\ (buf + k) - Dest = k - done_count
          /\ k \in Nat /\ k < done_count + n
      BY <1>5, <2>1, Sizes DEF Physical, Dest
    <3>2. CASE k < done_count
      <4>1. k \in 0 .. done_count - 1 /\ k - done_count \notin 0 .. DmaCount(n) - 1
        BY <1>5, <3>1, <3>2, Sizes
      <4> QED BY <1>1, <2>2, <3>1, <4>1
    <3>3. CASE k >= done_count
      <4>1. n # 0 /\ k - done_count \in 0 .. n - 1 /\ k - done_count < n
            /\ pos + (k - done_count) = start + k
        BY <1>5, <2>1, <3>1, <3>3
      <4> QED BY <2>1, <2>2, <3>1, <4>1
    <3> QED BY <1>5, <3>1, <3>2, <3>3
  <2>4. TypeOK'
    BY <1>1, <1>4, <2>2 DEF TypeOK
  <2>5. BoundsInv'
    <3> SUFFICES ASSUME type # "pipe_read", NEW a \in Physical, mem'[a] # Old
                 PROVE  a \in buf .. buf + count - 1 /\ a \in LO .. HI - 1
      BY <1>4 DEF BoundsInv, ReadInBounds
    <3>1. DmaCount(n) = n /\ a \in Nat
      BY <1>3, <1>5, <2>1, Sizes DEF Physical
    <3>2. CASE a - Dest \in 0 .. n - 1
      <4>1. a >= buf + done_count /\ a < buf + done_count + n
        BY <1>5, <2>1, <3>1, <3>2 DEF Dest
      <4> QED BY <1>5, <2>1, <3>1, <4>1, Sizes
    <3>3. CASE a - Dest \notin 0 .. n - 1
      BY <1>1, <2>2, <3>1, <3>3 DEF BoundsInv, ReadInBounds
    <3> QED BY <3>2, <3>3
  <2>6. CallInv' /\ WriteInOrder' /\ ReadInOrder' /\ CountInv'
    BY <1>1, <1>4, <1>5, <2>1, <2>3 DEF CallInv, WriteInOrder, ReadInOrder, CountInv
  <2> QED BY <2>4, <2>5, <2>6 DEF RWInv
<1> QED BY <1>3, <1>6, <1>7

\* Two pieces of the caller's buffer that follow each other
LEMMA PiecesJoin ==
    ASSUME NEW b \in Nat, NEW m \in Nat, NEW n \in Nat
    PROVE  [k \in 1 .. m |-> b + k - 1] \o [k \in 1 .. n |-> b + m + k - 1]
             = [k \in 1 .. m + n |-> b + k - 1]
<1> DEFINE s == [k \in 1 .. m |-> b + k - 1]
           t == [k \in 1 .. n |-> b + m + k - 1]
           u == [k \in 1 .. m + n |-> b + k - 1]
<1>1. s \in Seq(Nat) /\ t \in Seq(Nat) /\ u \in Seq(Nat) /\ Len(s) = m /\ Len(t) = n /\ Len(u) = m + n
  OBVIOUS
<1> HIDE DEF s, t, u
<1>2. /\ s \o t \in Seq(Nat) /\ Len(s \o t) = m + n
      /\ \A k \in 1 .. m + n : (s \o t)[k] = IF k <= m THEN s[k] ELSE t[k - m]
  BY <1>1, ConcatProperties
<1>3. \A k \in 1 .. m + n : (s \o t)[k] = u[k]
  <2>1. ASSUME NEW k \in 1 .. m + n, k <= m PROVE s[k] = u[k]
    BY <2>1 DEF s, u
  <2>2. ASSUME NEW k \in 1 .. m + n, ~(k <= m) PROVE t[k - m] = u[k]
    BY <2>2 DEF t, u
  <2> QED BY <1>2, <2>1, <2>2
<1>4. s \o t = u
  BY <1>1, <1>2, <1>3, SeqEqual
<1> QED BY <1>4 DEF s, t, u

LEMMA WritePieceRW ==
    ASSUME RWInv, WritePiece
    PROVE  RWInv'
<1>1. /\ TypeOK /\ CallInv /\ op = "write" /\ done_count < count
      /\ done_count >= 0 /\ start + count <= MaxPos /\ WriteBounds(buf, count)
      /\ mem = Untouched /\ mem' = mem
      /\ taken = [k \in 1 .. done_count |-> buf + k - 1]
  BY DEF RWInv, CallInv, WritePiece
<1>2. PICK n \in file_write : taken' = (IF n < 0 THEN taken ELSE taken \o CopiedIn(n)) /\ Advance(n)
  BY DEF WritePiece
<1>3. n \in -1 .. inc_count /\ inc_count \in 1 .. count - done_count
  BY <1>1, <1>2, Answers, PieceSize
<1>4. /\ type' = type /\ buf' = buf /\ count' = count /\ start' = start /\ result' = result
      /\ pos' \in Position /\ op' \in {op, "end"}
      /\ done_count' \in -1 .. count' /\ pos' = start' + Moved'
      /\ n < 0 => op' = "end" /\ Moved' = done_count
      /\ n >= 0 => done_count' = done_count + n /\ Moved' = done_count + n
      /\ op' = op => done_count' >= 0
  BY <1>1, <1>2, <1>3, AdvanceRW
<1>5. /\ buf \in Nat /\ count \in Nat /\ done_count \in Nat /\ done_count' \in Int
      /\ buf >= LO /\ buf + count < HI
  BY <1>1, <1>4, Sizes DEF TypeOK, Addr, WriteBounds
<1>6. PICK m \in 0 .. count : m = Moved'
  BY <1>3, <1>4, <1>5
<1>7. taken' = [k \in 1 .. m |-> buf + k - 1]
  <2>1. CASE n < 0
    BY <1>1, <1>2, <1>4, <1>6, <2>1
  <2>2. CASE n >= 0
    <3>1. taken' = taken \o [k \in 1 .. n |-> buf + done_count + k - 1] /\ n \in Nat
      BY <1>2, <1>3, <1>5, <2>2 DEF CopiedIn
    <3> QED BY <1>1, <1>4, <1>5, <1>6, <2>2, <3>1, PiecesJoin
  <2> QED BY <1>3, <2>1, <2>2
<1>8. /\ \A k \in 1 .. m : buf + k - 1 \in LO .. HI - 1
      /\ taken' \in Seq(Addr) /\ DOMAIN taken' = 1 .. m
  <2>1. \A k \in 1 .. m : buf + k - 1 \in LO .. HI - 1 /\ buf + k - 1 \in Addr
    BY <1>5, <1>6, Sizes DEF Addr
  <2> QED BY <1>6, <1>7, <2>1
<1>9. TypeOK'
  BY <1>1, <1>4, <1>8 DEF TypeOK
<1>10. BoundsInv'
  BY <1>1, UntouchedType DEF BoundsInv, ReadInBounds
<1>11. op' = op => m = done_count'
  BY <1>4, <1>5, <1>6 DEF Moved
<1>12. CallInv'
  BY <1>1, <1>4, <1>5, <1>6, <1>7, <1>11 DEF CallInv
<1>13. WriteInOrder'
  BY <1>4, <1>6, <1>7, <1>8 DEF WriteInOrder
<1>14. ReadInOrder'
  <2> SUFFICES ASSUME taken' = <<>> PROVE \A k \in 0 .. done_count' - 1 : FALSE
    BY <1>4 DEF ReadInOrder
  <2>1. m = 0
    BY <1>6, <1>8
  <2>2. PICK d \in Int : d = done_count'
    BY <1>5
  <2>3. d <= 0
    BY <1>6, <2>1, <2>2 DEF Moved
  <2>4. \A k \in 0 .. d - 1 : FALSE
    BY <2>3
  <2> QED BY <2>2, <2>4
<1>15. CountInv'
  BY <1>1, <1>4 DEF CountInv
<1> QED BY <1>9, <1>10, <1>12, <1>13, <1>14, <1>15 DEF RWInv

LEMMA StutterRW == RWInv /\ UNCHANGED vars => RWInv'
BY DEF RWInv, vars, args, TypeOK, CallInv, WriteInOrder, ReadInOrder, BoundsInv, CountInv,
       ReadInBounds, Moved

LEMMA StepRW ==
    ASSUME RWInv, Next
    PROVE  RWInv'
<1>1. ASSUME NEW b \in Addr, NEW c \in Addr, sys_read(b, c) PROVE RWInv'
  BY <1>1, CallRW DEF sys_read
<1>2. ASSUME NEW b \in Addr, NEW c \in Addr, sys_write(b, c) PROVE RWInv'
  BY <1>2, CallRW DEF sys_write
<1>3. ASSUME NEW b \in Addr, NEW c \in Addr, Refused(b, c) PROVE RWInv'
  <2>1. pos \in Position
    BY DEF RWInv, TypeOK
  <2> QED BY <1>3, <2>1, NothingRW DEF Refused
<1>4. CASE ReadPiece
  BY <1>4, ReadPieceRW
<1>5. CASE WritePiece
  BY <1>5, WritePieceRW
<1>6. CASE Return
  BY <1>6, ReturnRW
<1>7. CASE sys_lseek
  BY <1>7, NothingRW DEF sys_lseek
<1> QED BY <1>1, <1>2, <1>3, <1>4, <1>5, <1>6, <1>7 DEF Next

-----------------------------------------------------------------------------
(* execve.  The invariant says at each point of it which buffers are        *)
(* allocated, and that the caller's memory is untouched up to the point of  *)
(* no return.  One file is read, before which nothing was.                  *)

Unharmed == {"none", "called", "argv", "envp", "vectors", "returned"}

Places == Unharmed \cup {"open", "destroyed", "load", "loading", "entered"}

HeapInv ==
    /\ exec \in Places
    /\ heap = CASE exec = "argv"    -> {"argv"}
                [] exec = "envp"    -> {"argv", "envp"}
                [] exec = "vectors" -> {"argv", "envp", "vectors"}
                [] OTHER            -> {}

UserInv == exec \in Unharmed => user = OldMemory

FileInv ==
    /\ exec \notin {"none", "loading"} => op = "none"
    /\ exec \in Unharmed \cup {"open"} => exec = "none" \/ result = 0

ExecInv == RWInv /\ HeapInv /\ UserInv /\ FileInv

LEMMA InitExec == ExecveInit => ExecInv
<1> SUFFICES ASSUME ExecveInit PROVE ExecInv
  OBVIOUS
<1>1. RWInv
  BY InitRW DEF ExecveInit
<1>2. HeapInv /\ UserInv /\ FileInv
  BY DEF ExecveInit, Init, HeapInv, UserInv, FileInv, Places, Unharmed
<1> QED BY <1>1, <1>2 DEF ExecInv

\* execve opens a file in the place of the one of this model.
LEMMA OpenRW ==
    ASSUME ExecInv, Open
    PROVE  RWInv'
<1>1. /\ RWInv /\ TypeOK /\ op = "none" /\ result = 0 /\ mem = Untouched /\ taken = <<>>
  BY DEF ExecInv, RWInv, CallInv, FileInv, Open, Goes, Unharmed
<1>2. /\ type' \in Types /\ pos' = 0 /\ op' = op /\ buf' = buf /\ count' = count /\ start' = start
      /\ done_count' = done_count /\ mem' = mem /\ taken' = taken /\ result' = result
  BY DEF Open, args
<1>3. TypeOK'
  BY <1>1, <1>2, Sizes DEF TypeOK, Position
<1>4. CountInv'
  BY <1>1, <1>2 DEF CountInv
<1>5. mem' = Untouched
  BY <1>1, <1>2
<1> QED BY <1>1, <1>2, <1>3, <1>4, <1>5, IdleRWNext DEF IdleRW

\* Every step of execve, but for opening the file, is one of a read or none.
LEMMA ExecveReads ==
    ASSUME sys_execve, ~Open
    PROVE  [Next]_vars
<1>1. CASE Load
  <2>1. LO \in Addr /\ HI - LO \in Addr
    BY Sizes DEF Addr
  <2> QED BY <1>1, <2>1 DEF Load, Next
<1>2. CASE Enter
  BY <1>2 DEF Enter, Next
<1>3. CASE UNCHANGED vars
  BY <1>3
<1> QED BY <1>1, <1>2, <1>3
        DEF sys_execve, BadVector, AllocArgv, BadArgvString, AllocEnvp, BadEnvpString,
            AllocVectors, CopyVectors, CannotOpen, Keeps, ioVars

LEMMA StepExec == ExecInv /\ [ExecveNext]_<<vars, execVars>> => ExecInv'
<1> SUFFICES ASSUME ExecInv, [ExecveNext]_<<vars, execVars>> PROVE ExecInv'
  OBVIOUS
<1>1. RWInv /\ HeapInv /\ UserInv /\ FileInv /\ exec \in Places
  BY DEF ExecInv, HeapInv
<1>2. RWInv'
  <2>1. CASE Open
    BY <2>1, OpenRW
  <2>2. CASE [Next]_vars
    BY <1>1, <2>2, StepRW, StutterRW
  <2> QED BY <2>1, <2>2, ExecveReads DEF ExecveNext, Next
<1>3. CASE UNCHANGED execVars /\ (exec = "none" \/ exec = "loading" \/ UNCHANGED vars)
  <2>1. exec' = exec /\ heap' = heap /\ user' = user /\ ((op' = op /\ result' = result) \/ exec \in {"none", "loading"})
    BY <1>3 DEF execVars, vars
  <2>2. HeapInv' /\ UserInv'
    BY <1>1, <2>1 DEF HeapInv, UserInv
  <2>3. FileInv'
    BY <1>1, <2>1 DEF FileInv, Unharmed
  <2> QED BY <1>2, <2>2, <2>3 DEF ExecInv
<1>4. CASE sys_execve
  <2>1. /\ exec = "called" => heap = {}
        /\ exec = "argv" => heap = {"argv"}
        /\ exec = "envp" => heap = {"argv", "envp"}
        /\ exec = "vectors" => heap = {"argv", "envp", "vectors"}
        /\ exec \in {"open", "load", "loading"} => heap = {}
        /\ exec \in {"called", "argv", "envp", "vectors"} => user = OldMemory
        /\ exec \in {"called", "argv", "envp", "vectors", "open"} => result = 0
        /\ exec \notin {"none", "loading"} => op = "none"
    BY <1>1 DEF HeapInv, UserInv, FileInv, Unharmed
  <2>2. CASE BadVector \/ AllocArgv \/ BadArgvString \/ AllocEnvp \/ BadEnvpString \/ AllocVectors
    <3>1. /\ user' = user /\ op' = op /\ result' = result
      BY <2>2 DEF BadVector, AllocArgv, BadArgvString, AllocEnvp, BadEnvpString, AllocVectors,
                  Keeps, ioVars, vars
    <3>2. /\ exec \in {"called", "argv", "envp"}
          /\ exec' \in {"argv", "envp", "vectors", "returned"}
      BY <2>2 DEF BadVector, AllocArgv, BadArgvString, AllocEnvp, BadEnvpString, AllocVectors,
                  Goes
    <3>3. HeapInv'
      BY <2>1, <2>2 DEF BadVector, AllocArgv, BadArgvString, AllocEnvp, BadEnvpString,
                        AllocVectors, Goes, malloc, Free, HeapInv, Places, Unharmed
    <3>4. UserInv' /\ FileInv'
      BY <2>1, <3>1, <3>2 DEF UserInv, FileInv, Unharmed
    <3> QED BY <1>2, <3>3, <3>4 DEF ExecInv
  <2>3. CASE CopyVectors
    <3>1. exec = "vectors" /\ exec' = "open" /\ heap' = {} /\ op' = op /\ result' = result
      BY <2>1, <2>3 DEF CopyVectors, Goes, Free, ioVars, vars
    <3> QED BY <1>2, <2>1, <3>1
            DEF ExecInv, HeapInv, UserInv, FileInv, Places, Unharmed
  <2>4. CASE CannotOpen
    <3>1. exec = "open" /\ exec' = "destroyed" /\ heap' = heap /\ op' = op
      BY <2>4 DEF CannotOpen, Goes, Keeps, ioVars, vars
    <3> QED BY <1>2, <2>1, <3>1
            DEF ExecInv, HeapInv, UserInv, FileInv, Places, Unharmed
  <2>5. CASE Open
    <3>1. exec = "open" /\ exec' = "load" /\ heap' = heap /\ op' = op
      BY <2>5 DEF Open, Goes
    <3> QED BY <1>2, <2>1, <3>1
            DEF ExecInv, HeapInv, UserInv, FileInv, Places, Unharmed
  <2>6. CASE Load
    <3>1. exec = "load" /\ exec' = "loading" /\ heap' = heap
      BY <2>6 DEF Load, Goes
    <3> QED BY <1>2, <2>1, <3>1
            DEF ExecInv, HeapInv, UserInv, FileInv, Places, Unharmed
  <2>7. CASE Enter
    <3>1. exec = "loading" /\ exec' = "entered" /\ heap' = heap /\ op' = "none"
      BY <2>7 DEF Enter, Goes, Return
    <3> QED BY <1>2, <2>1, <3>1
            DEF ExecInv, HeapInv, UserInv, FileInv, Places, Unharmed
  <2> QED BY <1>4, <2>2, <2>3, <2>4, <2>5, <2>6, <2>7 DEF sys_execve
<1> QED BY <1>3, <1>4 DEF ExecveNext

LEMMA ExecInvariance == ExecveSpec => []ExecInv
BY InitExec, StepExec, PTL DEF ExecveSpec

-----------------------------------------------------------------------------
(* Theorems.  A process that calls execve or none is one that ExecveSpec     *)
(* allows: what is said of it is said of sys_read and sys_write as well.     *)

\* Whatever pieces a read or write is made of and wherever the file ends, the
\* caller finds the bytes in order from the position at the call, and the file
\* takes the caller's in order, for every size of the user buffer.
THEOREM ArriveInOrder == ExecveSpec => []BytesInOrder
<1>1. ExecInv => BytesInOrder
  BY DEF ExecInv, RWInv, BytesInOrder
<1> QED BY <1>1, ExecInvariance, PTL

\* A read that sys_read's check lets pass changes memory in the buffer of its
\* caller only, unless it is of a pipe, which may answer a piece with no byte.
THEOREM StaysInBounds == ExecveSpec => [](type # "pipe_read" => ReadInBounds)
<1>1. ExecInv => (type # "pipe_read" => ReadInBounds)
  BY DEF ExecInv, RWInv, BoundsInv
<1> QED BY <1>1, ExecInvariance, PTL

\* A negative result means that no byte was moved, or half an address space of
\* them or more, which no ssize_t can say.
THEOREM FailureIsHonest == ExecveSpec => []FailureMovesNothing
<1>1. ExecInv => FailureMovesNothing
  BY DEF ExecInv, RWInv, CountInv, FailureMovesNothing, Half
<1> QED BY <1>1, ExecInvariance, PTL

\* Every way out of execve frees every buffer that was allocated up to it, and
\* none before the file is opened has touched the caller's memory.
THEOREM ExecveUndoes == ExecveSpec => []FailedExecveUndone
<1>1. ExecInv => FailedExecveUndone
  BY DEF ExecInv, HeapInv, UserInv, Unharmed, FailedExecveUndone
<1> QED BY <1>1, ExecInvariance, PTL

-----------------------------------------------------------------------------
(* The arguments of execve.  The strings of a vector are concatenated by a   *)
(* recursive function.  What is said of it is shown by the least number for  *)
(* which it would not hold.                                                  *)

\* A set of numbers has a least one.
LEMMA LeastNumber ==
    ASSUME NEW T, T \subseteq Nat, T # {}
    PROVE  \E c \in T : \A d \in T : c <= d
<1>1. PICK c \in T : \A d \in T : ~ (<<d, c>> \in OpToRel(<, Nat))
  BY NatLessThanWellFounded, WFMin
<1>2. c \in Nat /\ \A d \in T : d \in Nat /\ ~ (d < c)
  BY <1>1 DEF OpToRel
<1> QED BY <1>2

\* Where the elements of two sequences are in their concatenation
LEMMA ConcatAt ==
    ASSUME NEW A, NEW s \in Seq(A), NEW t \in Seq(A)
    PROVE  /\ s \o t \in Seq(A) /\ Len(s \o t) = Len(s) + Len(t)
           /\ \A i \in 1 .. Len(s) : i \in 1 .. Len(s \o t) /\ (s \o t)[i] = s[i]
           /\ \A i \in 1 .. Len(t) : /\ Len(s) + i \in 1 .. Len(s \o t)
                                     /\ (s \o t)[Len(s) + i] = t[i]
OBVIOUS

Joins(A, s, t, st) == s \in Seq(A) /\ t \in Seq(A) /\ st = s \o t

LEMMA JoinedAt ==
    ASSUME NEW A, NEW s, NEW t, NEW st, Joins(A, s, t, st)
    PROVE  /\ st \in Seq(A) /\ Len(st) = Len(s) + Len(t) /\ Len(s) \in Nat /\ Len(t) \in Nat
           /\ \A i \in 1 .. Len(s) : i \in 1 .. Len(st) /\ st[i] = s[i]
           /\ \A i \in 1 .. Len(t) : Len(s) + i \in 1 .. Len(st) /\ st[Len(s) + i] = t[i]
BY ConcatAt DEF Joins

\* What FlattenSeq's recursive function is, up to the n-th of the sequences in s
FlatTo(f, s, n) == f = [i \in 1 .. n |-> IF i = 1 THEN s[i] ELSE f[i - 1] \o s[i]]

LEMMA FlatAt ==
    ASSUME NEW f, NEW s, NEW n, FlatTo(f, s, n), NEW i \in 1 .. n
    PROVE  f[i] = IF i = 1 THEN s[i] ELSE f[i - 1] \o s[i]
BY DEF FlatTo

LEMMA FlatExists ==
    ASSUME NEW s, NEW n \in Nat
    PROVE  \E f : FlatTo(f, s, n)
<1> DEFINE T == {k \in Nat : ~ \E f : FlatTo(f, s, k)}
<1>1. ASSUME T # {} PROVE FALSE
  <2>0. T \subseteq Nat
    OBVIOUS
  <2>1. PICK c \in T : \A d \in T : c <= d
    BY <1>1, <2>0, LeastNumber
  <2>2. c \in Nat /\ ~ \E f : FlatTo(f, s, c)
    BY <2>1
  <2>3. CASE c = 0
    <3> DEFINE e == [i \in 1 .. 0 |-> i]
    <3>1. e = [i \in 1 .. 0 |-> IF i = 1 THEN s[i] ELSE e[i - 1] \o s[i]]
      OBVIOUS
    <3> QED BY <2>2, <2>3, <3>1 DEF FlatTo
  <2>4. CASE c # 0
    <3>1. c - 1 \in Nat /\ c - 1 \notin T
      BY <2>1, <2>2, <2>4
    <3>2. PICK f : FlatTo(f, s, c - 1)
      BY <3>1
    <3> DEFINE new == IF c = 1 THEN s[c] ELSE f[c - 1] \o s[c]
               g == [i \in 1 .. c |-> IF i = c THEN new ELSE f[i]]
    <3>3. \A i \in 1 .. c - 1 : f[i] = IF i = 1 THEN s[i] ELSE f[i - 1] \o s[i]
      BY <3>2 DEF FlatTo
    <3>4. ASSUME NEW i \in 1 .. c PROVE g[i] = IF i = 1 THEN s[i] ELSE g[i - 1] \o s[i]
      <4>1. CASE i = c
        <5>1. g[i] = new
          BY <4>1
        <5>2. i # 1 => i - 1 \in 1 .. c /\ i - 1 # c
          BY <2>2
        <5>3. i # 1 => g[i - 1] = f[i - 1]
          BY <5>2
        <5> QED BY <4>1, <5>1, <5>3
      <4>2. CASE i # c
        <5>1. i \in 1 .. c - 1
          BY <2>2, <4>2
        <5>2. i # 1 => i - 1 \in 1 .. c /\ i - 1 # c
          BY <2>2
        <5>3. i # 1 => g[i - 1] = f[i - 1]
          BY <5>2
        <5>4. g[i] = f[i]
          BY <4>2
        <5> QED BY <3>3, <5>1, <5>3, <5>4
      <4> QED BY <4>1, <4>2
    <3>5. g = [i \in 1 .. c |-> g[i]]
      OBVIOUS
    <3> HIDE DEF g
    <3>6. g = [i \in 1 .. c |-> IF i = 1 THEN s[i] ELSE g[i - 1] \o s[i]]
      BY <3>4, <3>5
    <3> QED BY <2>2, <3>6 DEF FlatTo
  <2> QED BY <2>3, <2>4
<1> QED BY <1>1

LEMMA FlattenIs ==
    ASSUME NEW s, NEW n \in Nat \ {0}, n = Len(s)
    PROVE  \E f : /\ FlatTo(f, s, n) /\ FlattenSeq(s) = f[n]
                 /\ f[n] = IF n = 1 THEN s[n] ELSE f[n - 1] \o s[n]
<1> DEFINE F == CHOOSE f : FlatTo(f, s, n)
<1>1. FlatTo(F, s, n)
  BY FlatExists
<1>2. FlattenSeq(s) = F[n]
  BY DEF FlattenSeq, FlatTo
<1> HIDE DEF F
<1>3. n \in 1 .. n
  OBVIOUS
<1>4. F[n] = IF n = 1 THEN s[n] ELSE F[n - 1] \o s[n]
  BY <1>1, <1>3, FlatAt
<1> QED BY <1>1, <1>2, <1>4

\* Where two sequences agree so do the functions.
Agree(s, t, m) == \A i \in 1 .. m : s[i] = t[i]

LEMMA FlatAgree ==
    ASSUME NEW s, NEW t, NEW m \in Nat, NEW n \in Nat, m <= n,
           NEW f, NEW g, FlatTo(f, s, m), FlatTo(g, t, n), Agree(s, t, m)
    PROVE  Agree(f, g, m)
<1> USE DEF Agree
<1> DEFINE T == {i \in 1 .. m : f[i] # g[i]}
<1>1. ASSUME T # {} PROVE FALSE
  <2>0. T \subseteq Nat
    OBVIOUS
  <2>1. PICK c \in T : \A d \in T : c <= d
    BY <1>1, <2>0, LeastNumber
  <2>2. c \in 1 .. m /\ f[c] # g[c]
    BY <2>1
  <2>3. /\ f[c] = IF c = 1 THEN s[c] ELSE f[c - 1] \o s[c]
        /\ g[c] = IF c = 1 THEN t[c] ELSE g[c - 1] \o t[c]
        /\ s[c] = t[c]
    <3>1. c \in 1 .. n
      BY <2>2
    <3> QED BY <2>2, <3>1, FlatAt
  <2>4. c # 1 => c - 1 \in 1 .. m /\ c - 1 \notin T
    BY <2>1, <2>2
  <2>5. c # 1 => f[c - 1] = g[c - 1]
    BY <2>4
  <2> QED BY <2>2, <2>3, <2>5
<1> QED BY <1>1

LEMMA FlattenOne ==
    ASSUME NEW A, NEW s \in Seq(Seq(A)), NEW t \in Seq(Seq(A)), Len(t) = Len(s) + 1,
           Agree(s, t, Len(s))
    PROVE  FlattenSeq(t) = FlattenSeq(s) \o t[Len(t)]
<1>1. PICK m \in Nat, n \in Nat \ {0} : m = Len(s) /\ n = Len(t) /\ n = m + 1
  OBVIOUS
<1>2. PICK g : /\ FlatTo(g, t, n) /\ FlattenSeq(t) = g[n]
              /\ g[n] = IF n = 1 THEN t[n] ELSE g[n - 1] \o t[n]
  BY <1>1, FlattenIs
<1>3. CASE m = 0
  <2>a. s = <<>>
    <3>1. Len(s) = 0
      BY <1>1, <1>3
    <3> QED BY <3>1, EmptySeq
  <2>b. FlattenSeq(s) = s
    BY <1>1, <1>3 DEF FlattenSeq
  <2>c. t[n] \in Seq(A)
    BY <1>1
  <2>1. FlattenSeq(s) = <<>> /\ t[n] \in Seq(A)
    BY <2>a, <2>b, <2>c
  <2>2. <<>> \o t[n] = t[n]
    BY <2>1
  <2>3. n = 1
    BY <1>1, <1>3
  <2> QED BY <1>1, <1>2, <2>1, <2>2, <2>3
<1>4. CASE m # 0
  <2>1. PICK f : FlatTo(f, s, m) /\ FlattenSeq(s) = f[m]
    BY <1>1, <1>4, FlattenIs
  <2>2. m <= n /\ n - 1 = m /\ n # 1 /\ m \in 1 .. m
    BY <1>1, <1>4
  <2>3. Agree(s, t, m)
    BY <1>1
  <2>4. Agree(f, g, m)
    BY <1>2, <2>1, <2>2, <2>3, FlatAgree
  <2>5. f[m] = g[m]
    BY <2>2, <2>4 DEF Agree
  <2> QED BY <1>1, <1>2, <2>1, <2>2, <2>5
<1> QED BY <1>3, <1>4

\* The first n of the sequences
Firsts(s, n) == [i \in 1 .. n |-> s[i]]

LEMMA FlattenStep ==
    ASSUME NEW A, NEW s \in Seq(Seq(A)), NEW n \in 0 .. Len(s)
    PROVE  /\ Firsts(s, n) \in Seq(Seq(A)) /\ Len(Firsts(s, n)) = n
           /\ n # 0 => FlattenSeq(Firsts(s, n)) = FlattenSeq(Firsts(s, n - 1)) \o s[n]
<1>1. \A k \in 0 .. Len(s) : Firsts(s, k) \in Seq(Seq(A)) /\ Len(Firsts(s, k)) = k
  BY DEF Firsts
<1>2. ASSUME n # 0 PROVE FlattenSeq(Firsts(s, n)) = FlattenSeq(Firsts(s, n - 1)) \o s[n]
  <2>1. n - 1 \in 0 .. Len(s) /\ n \in 1 .. n
    BY <1>2
  <2>2. /\ Firsts(s, n) \in Seq(Seq(A)) /\ Len(Firsts(s, n)) = n
        /\ Firsts(s, n - 1) \in Seq(Seq(A)) /\ Len(Firsts(s, n - 1)) = n - 1
    BY <1>1, <2>1
  <2>3. \A i \in 1 .. n - 1 : Firsts(s, n - 1)[i] = Firsts(s, n)[i]
    BY DEF Firsts
  <2>4. Firsts(s, n)[n] = s[n]
    BY <2>1 DEF Firsts
  <2>5. Len(Firsts(s, n)) = Len(Firsts(s, n - 1)) + 1
    BY <2>2
  <2>6. Agree(Firsts(s, n - 1), Firsts(s, n), Len(Firsts(s, n - 1)))
    BY <2>2, <2>3 DEF Agree
  <2>7. FlattenSeq(Firsts(s, n)) = FlattenSeq(Firsts(s, n - 1)) \o Firsts(s, n)[Len(Firsts(s, n))]
    BY <2>2, <2>5, <2>6, FlattenOne
  <2> QED BY <2>2, <2>4, <2>7
<1> QED BY <1>1, <1>2

LEMMA FlattenType ==
    ASSUME NEW A, NEW s \in Seq(Seq(A)), NEW n \in 0 .. Len(s)
    PROVE  FlattenSeq(Firsts(s, n)) \in Seq(A)
<1> DEFINE T == {k \in 0 .. Len(s) : FlattenSeq(Firsts(s, k)) \notin Seq(A)}
<1>1. ASSUME T # {} PROVE FALSE
  <2>0. T \subseteq Nat
    OBVIOUS
  <2>1. PICK c \in T : \A d \in T : c <= d
    BY <1>1, <2>0, LeastNumber
  <2>2. c \in 0 .. Len(s) /\ FlattenSeq(Firsts(s, c)) \notin Seq(A)
    BY <2>1
  <2>3. CASE c = 0
    <3>1. Firsts(s, 0) = <<>>
      BY DEF Firsts
    <3>2. FlattenSeq(<<>>) = <<>>
      BY DEF FlattenSeq
    <3>3. FlattenSeq(Firsts(s, c)) = <<>>
      BY <2>3, <3>1, <3>2
    <3> QED BY <2>2, <3>3
  <2>4. CASE c # 0
    <3>1. c - 1 \in 0 .. Len(s) /\ c - 1 \notin T
      BY <2>1, <2>2, <2>4
    <3>2. FlattenSeq(Firsts(s, c - 1)) \in Seq(A) /\ s[c] \in Seq(A)
      BY <2>2, <2>4, <3>1
    <3>3. FlattenSeq(Firsts(s, c)) = FlattenSeq(Firsts(s, c - 1)) \o s[c]
      BY <2>2, <2>4, FlattenStep
    <3> QED BY <2>2, <3>2, <3>3
  <2> QED BY <2>3, <2>4
<1> QED BY <1>1

\* The concatenation of some of them starts that of more of them.
LEMMA FlattenGrows ==
    ASSUME NEW A, NEW s \in Seq(Seq(A)), NEW m \in 0 .. Len(s), NEW n \in m .. Len(s)
    PROVE  /\ Len(FlattenSeq(Firsts(s, m))) <= Len(FlattenSeq(Firsts(s, n)))
           /\ \A j \in 1 .. Len(FlattenSeq(Firsts(s, m))) :
                FlattenSeq(Firsts(s, n))[j] = FlattenSeq(Firsts(s, m))[j]
<1> DEFINE F(k) == FlattenSeq(Firsts(s, k))
           Starts(k) == /\ Len(F(m)) <= Len(F(k))
                        /\ \A j \in 1 .. Len(F(m)) : F(k)[j] = F(m)[j]
           T == {k \in m .. Len(s) : ~ Starts(k)}
<1>t. \A k \in 0 .. Len(s) : F(k) \in Seq(A)
  BY FlattenType
<1>s. \A k \in 1 .. Len(s) : F(k) = F(k - 1) \o s[k]
  <2> TAKE k \in 1 .. Len(s)
  <2>1. k \in 0 .. Len(s) /\ k # 0
    OBVIOUS
  <2> QED BY <2>1, FlattenStep
<1> HIDE DEF F
<1>1. ASSUME T # {} PROVE FALSE
  <2>0. T \subseteq Nat
    OBVIOUS
  <2>1. PICK c \in T : \A d \in T : c <= d
    BY <1>1, <2>0, LeastNumber
  <2>2. c \in m .. Len(s) /\ ~ Starts(c)
    BY <2>1
  <2>3. CASE c = m
    <3>1. Len(F(m)) \in Nat
      BY <1>t
    <3> QED BY <2>2, <2>3, <3>1
  <2>4. CASE c # m
    <3>1. c - 1 \in m .. Len(s) /\ c - 1 \notin T /\ c \in 1 .. Len(s) /\ c - 1 \in 0 .. Len(s)
      BY <2>1, <2>2, <2>4
    <3>2. Starts(c - 1)
      BY <3>1
    <3>3. F(c) = F(c - 1) \o s[c] /\ F(c - 1) \in Seq(A) /\ s[c] \in Seq(A) /\ F(m) \in Seq(A)
      <4>1. F(c) = F(c - 1) \o s[c]
        BY <1>s, <3>1
      <4>2. F(c - 1) \in Seq(A) /\ F(m) \in Seq(A)
        BY <1>t, <3>1
      <4>3. s[c] \in Seq(A)
        BY <3>1
      <4> QED BY <4>1, <4>2, <4>3
    <3>4. /\ Len(F(c)) = Len(F(c - 1)) + Len(s[c])
          /\ Len(s[c]) \in Nat /\ Len(F(c - 1)) \in Nat /\ Len(F(m)) \in Nat
      BY <3>3
    <3>5. \A j \in 1 .. Len(F(c - 1)) : F(c)[j] = F(c - 1)[j]
      BY <3>3
    <3>6. Len(F(m)) <= Len(F(c - 1)) /\ \A j \in 1 .. Len(F(m)) : F(c - 1)[j] = F(m)[j]
      BY <3>2
    <3>7. Len(F(m)) <= Len(F(c))
      <4>1. Len(F(m)) <= Len(F(c - 1))
        BY <3>6
      <4>2. PICK x \in Nat, y \in Nat, z \in Nat :
              x = Len(F(m)) /\ y = Len(F(c - 1)) /\ z = Len(s[c])
        BY <3>4
      <4>3. x <= y /\ Len(F(c)) = y + z
        BY <3>4, <4>1, <4>2
      <4>4. x <= y + z
        BY <4>3
      <4> QED BY <4>2, <4>3, <4>4
    <3>8. ASSUME NEW j \in 1 .. Len(F(m)) PROVE F(c)[j] = F(m)[j]
      <4>1. j \in 1 .. Len(F(c - 1))
        BY <3>4, <3>6
      <4> QED BY <3>5, <3>6, <4>1
    <3> QED BY <2>2, <3>7, <3>8
  <2> QED BY <2>3, <2>4
<1>2. Starts(n)
  BY <1>1
<1> QED BY <1>2 DEF F

-----------------------------------------------------------------------------
(* The strings of a vector.                                                 *)

VectorSet == [base : Addr, pointers : Seq(Addr \ {0})]
Char      == {"char"} \X Int

LEMMA StrlenRange ==
    ASSUME NEW a \in Addr
    PROVE  mem_user_strlen(a) \in -1 .. MEM_USER_BUFFER_SIZE - 1
<1>1. CASE mem_user_valid_ptr(a) /\ Lengths(a) # {}
  <2>1. Lengths(a) \subseteq 0 .. MEM_USER_BUFFER_SIZE - 1 /\ Lengths(a) \subseteq Nat
    BY DEF Lengths
  <2>2. \E n \in Lengths(a) : \A m \in Lengths(a) : n <= m
    BY <1>1, <2>1, LeastNumber
  <2>3. mem_user_strlen(a) \in Lengths(a)
    BY <1>1, <2>2 DEF mem_user_strlen
  <2> QED BY <2>1, <2>3, Sizes
<1>2. CASE ~ (mem_user_valid_ptr(a) /\ Lengths(a) # {})
  BY <1>2, Sizes DEF mem_user_strlen
<1> QED BY <1>1, <1>2

LEMMA StringType ==
    ASSUME NEW a \in Addr, mem_user_strlen(a) >= 0
    PROVE  /\ mem_user_strlen(a) \in Nat
           /\ String(a) \in Seq(Char) /\ Len(String(a)) = mem_user_strlen(a) + 1
           /\ \A n \in 0 .. mem_user_strlen(a) : String(a)[n + 1] = <<"char", a + n>>
<1>1. mem_user_strlen(a) \in Nat /\ a \in Int
  BY StrlenRange, Sizes DEF Addr
<1>2. String(a) \in [1 .. mem_user_strlen(a) + 1 -> Char]
  BY <1>1 DEF String, Char
<1>3. ASSUME NEW n \in 0 .. mem_user_strlen(a) PROVE String(a)[n + 1] = <<"char", a + n>>
  <2>1. n + 1 \in 1 .. mem_user_strlen(a) + 1 /\ a + (n + 1) - 1 = a + n
    BY <1>1
  <2> QED BY <2>1 DEF String
<1>4. mem_user_strlen(a) + 1 \in Nat
  BY <1>1
<1>5. String(a) \in Seq(Char)
  BY <1>2, <1>4
<1>6. DOMAIN String(a) = 1 .. mem_user_strlen(a) + 1
  BY <1>2
<1>7. Len(String(a)) = mem_user_strlen(a) + 1
  BY <1>4, <1>5, <1>6
<1> QED BY <1>1, <1>3, <1>5, <1>7

\* The strings, one by one
StringsOf(v) == [k \in DOMAIN v.pointers |-> String(v.pointers[k])]

LEMMA StringsOfType ==
    ASSUME NEW v \in VectorSet, ~ BadString(v)
    PROVE  /\ StringsOf(v) \in Seq(Seq(Char)) /\ Len(StringsOf(v)) = Len(v.pointers)
           /\ \A k \in DOMAIN v.pointers :
                /\ v.pointers[k] \in Addr /\ mem_user_strlen(v.pointers[k]) >= 0
                /\ StringsOf(v)[k] = String(v.pointers[k])
<1>1. v.pointers \in Seq(Addr \ {0})
  BY DEF VectorSet
<1>2. DOMAIN v.pointers = 1 .. Len(v.pointers) /\ Len(v.pointers) \in Nat
  BY <1>1
<1>3. ASSUME NEW k \in DOMAIN v.pointers
      PROVE  v.pointers[k] \in Addr /\ mem_user_strlen(v.pointers[k]) >= 0
  <2>1. v.pointers[k] \in Addr
    BY <1>1, <1>2
  <2>2. ~ (mem_user_strlen(v.pointers[k]) < 0)
    BY DEF BadString
  <2>3. mem_user_strlen(v.pointers[k]) \in Int
    BY <2>1, StrlenRange, Sizes
  <2> QED BY <2>1, <2>2, <2>3
<1>4. \A k \in DOMAIN v.pointers : String(v.pointers[k]) \in Seq(Char)
  BY <1>3, StringType
<1>5. StringsOf(v) \in [1 .. Len(v.pointers) -> Seq(Char)]
  BY <1>2, <1>4 DEF StringsOf
<1>6. StringsOf(v) \in Seq(Seq(Char))
  BY <1>2, <1>5
<1>7. DOMAIN StringsOf(v) = 1 .. Len(v.pointers)
  BY <1>5
<1>8. Len(StringsOf(v)) = Len(v.pointers)
  BY <1>2, <1>6, <1>7
<1> QED BY <1>3, <1>6, <1>8 DEF StringsOf

\* Where the k-th string is in the strings of a vector
LEMMA StringPlace ==
    ASSUME NEW v \in VectorSet, ~ BadString(v)
    PROVE  /\ Strings(v) \in Seq(Char)
           /\ \A k \in DOMAIN v.pointers :
                /\ StringsBefore(v, k) \in Nat /\ mem_user_strlen(v.pointers[k]) \in Nat
                /\ \A n \in 0 .. mem_user_strlen(v.pointers[k]) :
                     /\ StringsBefore(v, k) + n + 1 \in 1 .. Len(Strings(v))
                     /\ Strings(v)[StringsBefore(v, k) + n + 1] = <<"char", v.pointers[k] + n>>
<1> DEFINE s == StringsOf(v)
<1>1. /\ s \in Seq(Seq(Char)) /\ Len(s) = Len(v.pointers)
      /\ \A k \in DOMAIN v.pointers :
           /\ v.pointers[k] \in Addr /\ mem_user_strlen(v.pointers[k]) >= 0
           /\ s[k] = String(v.pointers[k])
  BY StringsOfType
<1>2. v.pointers \in Seq(Addr \ {0}) /\ DOMAIN v.pointers = 1 .. Len(v.pointers)
      /\ Len(v.pointers) \in Nat
  BY DEF VectorSet
<1>3. Strings(v) = FlattenSeq(s)
  BY DEF Strings, StringsOf
<1>4. Firsts(s, Len(s)) = s
  BY <1>1 DEF Firsts
<1>5. Len(s) \in 0 .. Len(s)
  BY <1>1
<1>6. Strings(v) \in Seq(Char)
  BY <1>1, <1>3, <1>4, <1>5, FlattenType
<1>7. ASSUME NEW k \in DOMAIN v.pointers
      PROVE  StringsBefore(v, k) = Len(FlattenSeq(Firsts(s, k - 1)))
  <2> DEFINE w == [v EXCEPT !.pointers = SubSeq(@, 1, k - 1)]
  <2>1. w.pointers = SubSeq(v.pointers, 1, k - 1)
    BY DEF VectorSet
  <2>2. k \in 1 .. Len(v.pointers)
    BY <1>2
  <2>3. /\ Len(SubSeq(v.pointers, 1, k - 1)) = k - 1
        /\ SubSeq(v.pointers, 1, k - 1) \in Seq(Addr \ {0})
        /\ \A i \in 1 .. k - 1 : SubSeq(v.pointers, 1, k - 1)[i] = v.pointers[i]
    BY <1>2, <2>2
  <2>4. DOMAIN w.pointers = 1 .. k - 1 /\ \A i \in 1 .. k - 1 : w.pointers[i] = v.pointers[i]
    BY <2>1, <2>3
  <2>5. \A i \in 1 .. k - 1 : i \in DOMAIN v.pointers
    BY <1>2, <2>2
  <2> HIDE DEF w
  <2>6. StringsOf(w) = Firsts(s, k - 1)
    BY <1>1, <2>4, <2>5 DEF StringsOf, Firsts
  <2>7. StringsBefore(v, k) = Len(FlattenSeq(StringsOf(w)))
    BY DEF StringsBefore, Strings, StringsOf, w
  <2> QED BY <2>6, <2>7
<1>8. ASSUME NEW k \in DOMAIN v.pointers
      PROVE  /\ StringsBefore(v, k) \in Nat /\ mem_user_strlen(v.pointers[k]) \in Nat
             /\ \A n \in 0 .. mem_user_strlen(v.pointers[k]) :
                  /\ StringsBefore(v, k) + n + 1 \in 1 .. Len(Strings(v))
                  /\ Strings(v)[StringsBefore(v, k) + n + 1] = <<"char", v.pointers[k] + n>>
  <2> DEFINE before == FlattenSeq(Firsts(s, k - 1))
             upto   == FlattenSeq(Firsts(s, k))
             a      == v.pointers[k]
  <2>1. /\ k \in 1 .. Len(s) /\ k - 1 \in 0 .. Len(s) /\ k \in 0 .. Len(s)
        /\ Len(s) \in k .. Len(s) /\ k # 0
    BY <1>1, <1>2
  <2>2. /\ String(a) \in Seq(Char) /\ Len(String(a)) = mem_user_strlen(a) + 1
        /\ mem_user_strlen(a) \in Nat
        /\ \A n \in 0 .. mem_user_strlen(a) : String(a)[n + 1] = <<"char", a + n>>
    BY <1>1, StringType
  <2>3. upto = before \o String(a)
    <3>1. upto = before \o s[k]
      BY <1>1, <2>1, FlattenStep
    <3> QED BY <1>1, <3>1
  <2>4. before \in Seq(Char) /\ upto \in Seq(Char)
    BY <1>1, <2>1, FlattenType
  <2>5. /\ Len(upto) <= Len(Strings(v))
        /\ \A j \in 1 .. Len(upto) : Strings(v)[j] = upto[j]
    <3>1. /\ Len(upto) <= Len(FlattenSeq(Firsts(s, Len(s))))
          /\ \A j \in 1 .. Len(upto) : FlattenSeq(Firsts(s, Len(s)))[j] = upto[j]
      BY <1>1, <2>1, FlattenGrows
    <3> QED BY <1>3, <1>4, <3>1
  <2>6. StringsBefore(v, k) = Len(before)
    BY <1>7
  <2> HIDE DEF before, upto, a
  <2>7. PICK b \in Nat, l \in Nat : b = Len(before) /\ l = mem_user_strlen(a)
    BY <2>2, <2>4
  <2>8. ASSUME NEW n \in 0 .. mem_user_strlen(a)
        PROVE  /\ b + n + 1 \in 1 .. Len(Strings(v))
               /\ Strings(v)[b + n + 1] = <<"char", a + n>>
    <3>1. n + 1 \in 1 .. Len(String(a)) /\ n \in Nat /\ n <= l
      BY <2>2, <2>7
    <3>2. (before \o String(a))[b + (n + 1)] = String(a)[n + 1]
      <4>1. (before \o String(a))[Len(before) + (n + 1)] = String(a)[n + 1]
        BY <2>2, <2>4, <3>1, ConcatAt
      <4> QED BY <2>7, <4>1
    <3>3. Len(upto) = b + (l + 1)
      <4>1. Len(upto) = Len(before) + Len(String(a))
        BY <2>2, <2>3, <2>4, ConcatAt
      <4> QED BY <2>2, <2>7, <4>1
    <3>4. b + (n + 1) \in 1 .. Len(upto) /\ b + (n + 1) = b + n + 1
      BY <2>7, <3>1, <3>3
    <3>5. Len(Strings(v)) \in Nat /\ Len(upto) \in Nat
      BY <1>6, <2>4
    <3>6. b + (n + 1) \in 1 .. Len(Strings(v))
      <4>1. Len(upto) <= Len(Strings(v))
        BY <2>5
      <4> QED BY <3>4, <3>5, <4>1
    <3>7. Strings(v)[b + (n + 1)] = <<"char", a + n>>
      BY <2>2, <2>3, <2>5, <3>2, <3>4
    <3> QED BY <3>4, <3>6, <3>7
  <2> QED BY <2>2, <2>6, <2>7, <2>8 DEF a
<1> QED BY <1>6, <1>8

-----------------------------------------------------------------------------
(* The layout of vectors_buffer.                                            *)

Cell == {"char", "pointer", "count"} \X Int

\* The parts of a concatenation of six
SixJoined(v, p, q, r, s, t, w) == v = p \o q \o r \o s \o t \o w

SixParts(A, v, p, q, r, s, t, w) ==
    /\ v \in Seq(A) /\ Len(v) = Len(p) + Len(q) + Len(r) + Len(s) + Len(t) + Len(w)
    /\ \A i \in 1 .. Len(p) : v[i] = p[i]
    /\ \A i \in 1 .. Len(q) : v[Len(p) + i] = q[i]
    /\ \A i \in 1 .. Len(r) : v[Len(p) + Len(q) + i] = r[i]
    /\ \A i \in 1 .. Len(s) : v[Len(p) + Len(q) + Len(r) + i] = s[i]
    /\ \A i \in 1 .. Len(t) : v[Len(p) + Len(q) + Len(r) + Len(s) + i] = t[i]
    /\ \A i \in 1 .. Len(w) : v[Len(p) + Len(q) + Len(r) + Len(s) + Len(t) + i] = w[i]

LEMMA SixPartsJoined ==
    ASSUME NEW A, NEW p \in Seq(A), NEW q \in Seq(A), NEW r \in Seq(A), NEW s \in Seq(A),
           NEW t \in Seq(A), NEW w \in Seq(A), NEW v, SixJoined(v, p, q, r, s, t, w)
    PROVE  SixParts(A, v, p, q, r, s, t, w)
<1> DEFINE x2 == p \o q
           x3 == x2 \o r
           x4 == x3 \o s
           x5 == x4 \o t
<1>0. v = x5 \o w
  BY DEF SixJoined
<1> HIDE DEF x2, x3, x4, x5
<1>1. /\ x2 \in Seq(A) /\ Len(x2) = Len(p) + Len(q)
      /\ \A i \in 1 .. Len(p) : i \in 1 .. Len(x2) /\ x2[i] = p[i]
      /\ \A i \in 1 .. Len(q) : Len(p) + i \in 1 .. Len(x2) /\ x2[Len(p) + i] = q[i]
  <2>1. Joins(A, p, q, x2)
    BY DEF Joins, x2
  <2> QED BY <2>1, JoinedAt
<1>2. /\ x3 \in Seq(A) /\ Len(x3) = Len(x2) + Len(r)
      /\ \A i \in 1 .. Len(x2) : i \in 1 .. Len(x3) /\ x3[i] = x2[i]
      /\ \A i \in 1 .. Len(r) : Len(x2) + i \in 1 .. Len(x3) /\ x3[Len(x2) + i] = r[i]
  <2>1. Joins(A, x2, r, x3)
    BY <1>1 DEF Joins, x3
  <2> QED BY <2>1, JoinedAt
<1>3. /\ x4 \in Seq(A) /\ Len(x4) = Len(x3) + Len(s)
      /\ \A i \in 1 .. Len(x3) : i \in 1 .. Len(x4) /\ x4[i] = x3[i]
      /\ \A i \in 1 .. Len(s) : Len(x3) + i \in 1 .. Len(x4) /\ x4[Len(x3) + i] = s[i]
  <2>1. Joins(A, x3, s, x4)
    BY <1>2 DEF Joins, x4
  <2> QED BY <2>1, JoinedAt
<1>4. /\ x5 \in Seq(A) /\ Len(x5) = Len(x4) + Len(t)
      /\ \A i \in 1 .. Len(x4) : i \in 1 .. Len(x5) /\ x5[i] = x4[i]
      /\ \A i \in 1 .. Len(t) : Len(x4) + i \in 1 .. Len(x5) /\ x5[Len(x4) + i] = t[i]
  <2>1. Joins(A, x4, t, x5)
    BY <1>3 DEF Joins, x5
  <2> QED BY <2>1, JoinedAt
<1>5. /\ v \in Seq(A) /\ Len(v) = Len(x5) + Len(w)
      /\ \A i \in 1 .. Len(x5) : i \in 1 .. Len(v) /\ v[i] = x5[i]
      /\ \A i \in 1 .. Len(w) : Len(x5) + i \in 1 .. Len(v) /\ v[Len(x5) + i] = w[i]
  <2>1. Joins(A, x5, w, v) 
    BY <1>0, <1>4 DEF Joins
  <2> QED BY <2>1, JoinedAt
<1>l. /\ Len(x2) = Len(p) + Len(q) /\ Len(x3) = Len(p) + Len(q) + Len(r)
      /\ Len(x4) = Len(p) + Len(q) + Len(r) + Len(s)
      /\ Len(x5) = Len(p) + Len(q) + Len(r) + Len(s) + Len(t)
  BY <1>1, <1>2, <1>3, <1>4
<1>6. Len(v) = Len(p) + Len(q) + Len(r) + Len(s) + Len(t) + Len(w)
  BY <1>l, <1>5
<1>7. \A i \in 1 .. Len(x4) : v[i] = x4[i]
  BY <1>4, <1>5
<1>8. \A i \in 1 .. Len(x3) : v[i] = x3[i]
  BY <1>3, <1>7
<1>9. \A i \in 1 .. Len(x2) : v[i] = x2[i]
  BY <1>2, <1>8
<1>p. \A i \in 1 .. Len(p) : v[i] = p[i]
  BY <1>1, <1>9
<1>q. \A i \in 1 .. Len(q) : v[Len(p) + i] = q[i]
  BY <1>1, <1>9
<1>r. \A i \in 1 .. Len(r) : v[Len(p) + Len(q) + i] = r[i]
  <2>1. \A i \in 1 .. Len(r) : v[Len(x2) + i] = r[i]
    BY <1>2, <1>8
  <2> QED BY <1>l, <2>1
<1>s. \A i \in 1 .. Len(s) : v[Len(p) + Len(q) + Len(r) + i] = s[i]
  <2>1. \A i \in 1 .. Len(s) : v[Len(x3) + i] = s[i]
    BY <1>3, <1>7
  <2> QED BY <1>l, <2>1
<1>t. \A i \in 1 .. Len(t) : v[Len(p) + Len(q) + Len(r) + Len(s) + i] = t[i]
  <2>1. \A i \in 1 .. Len(t) : v[Len(x4) + i] = t[i]
    BY <1>4, <1>5
  <2> QED BY <1>l, <2>1
<1>w. \A i \in 1 .. Len(w) : v[Len(p) + Len(q) + Len(r) + Len(s) + Len(t) + i] = w[i]
  <2>1. \A i \in 1 .. Len(w) : v[Len(x5) + i] = w[i]
    BY <1>5
  <2> QED BY <1>l, <2>1
<1> QED BY <1>5, <1>6, <1>p, <1>q, <1>r, <1>s, <1>t, <1>w DEF SixParts

\* The arguments of a call are in order.
Measured ==
    /\ call \in Calls /\ argc \in Nat /\ envc \in Nat
    /\ ~ BadString(call.argv) /\ ~ BadString(call.envp)

LEMMA CallFacts ==
    ASSUME Measured
    PROVE  /\ call.argv \in VectorSet /\ call.envp \in VectorSet /\ call.argv # call.envp
           /\ argc = Len(call.argv.pointers) /\ DOMAIN call.argv.pointers = 1 .. argc
           /\ envc = Len(call.envp.pointers) /\ DOMAIN call.envp.pointers = 1 .. envc
<1>1. call.argv \in VectorSet /\ call.envp \in VectorSet /\ call.argv # call.envp
  BY ExecveAssumption DEF Measured, VectorSet
<1>2. call.argv.pointers \in Seq(Addr \ {0}) /\ call.envp.pointers \in Seq(Addr \ {0})
  BY <1>1 DEF VectorSet
<1>3. argc = Len(call.argv.pointers) /\ envc = Len(call.envp.pointers)
  BY DEF Measured, argc, envc, mem_user_vector_len
<1> QED BY <1>1, <1>2, <1>3

LEMMA Layout ==
    ASSUME Measured
    PROVE  /\ vectors_buffer_size \in Nat
           /\ argc + 1 <= envp_offset + envc + 1 /\ argv_strings_offset <= envp_strings_offset
           /\ envp_offset \in Nat /\ argv_strings_offset \in Nat /\ envp_strings_offset \in Nat
           /\ vectors_buffer \in Seq(Cell) /\ Len(vectors_buffer) = vectors_buffer_size
           /\ \A k \in 1 .. argc : vectors_buffer[k] = Table(call.argv)[k]
           /\ vectors_buffer[envp_offset] = NULL_POINTER
           /\ \A k \in 1 .. envc : vectors_buffer[envp_offset + k] = Table(call.envp)[k]
           /\ vectors_buffer[argv_strings_offset] = NULL_POINTER
           /\ \A k \in 1 .. Len(Strings(call.argv)) :
                vectors_buffer[argv_strings_offset + k] = Strings(call.argv)[k]
           /\ \A k \in 1 .. Len(Strings(call.envp)) :
                vectors_buffer[envp_strings_offset + k] = Strings(call.envp)[k]
<1>1. /\ call.argv \in VectorSet /\ call.envp \in VectorSet /\ call.argv # call.envp
      /\ DOMAIN call.argv.pointers = 1 .. argc /\ DOMAIN call.envp.pointers = 1 .. envc
      /\ argc \in Nat /\ envc \in Nat
      /\ ~ BadString(call.argv) /\ ~ BadString(call.envp)
  BY CallFacts DEF Measured
<1>2. PICK a, e : a = call.argv /\ e = call.envp
  OBVIOUS
<1>3. /\ a \in VectorSet /\ ~ BadString(a) /\ e \in VectorSet /\ ~ BadString(e)
  BY <1>1, <1>2
<1>4. /\ Strings(a) \in Seq(Char)
      /\ \A k \in DOMAIN a.pointers : StringsBefore(a, k) \in Nat
  BY <1>3, StringPlace
<1>5. /\ Strings(e) \in Seq(Char)
      /\ \A k \in DOMAIN e.pointers : StringsBefore(e, k) \in Nat
  BY <1>3, StringPlace
<1>6. PICK t, w : t = Strings(call.argv) /\ w = Strings(call.envp)
  OBVIOUS
<1>7. t \in Seq(Char) /\ w \in Seq(Char) /\ Len(t) \in Nat /\ Len(w) \in Nat
  BY <1>2, <1>4, <1>5, <1>6
<1>8. t \in Seq(Cell) /\ w \in Seq(Cell)
  <2>1. Char \subseteq Cell
    BY DEF Char, Cell
  <2>2. t \in [1 .. Len(t) -> Cell] /\ w \in [1 .. Len(w) -> Cell]
    BY <1>7, <2>1
  <2> QED BY <1>7, <2>2
<1>9. /\ envp_offset = argc + 1 /\ argv_strings_offset = argc + 1 + envc + 1
      /\ envp_strings_offset = argc + 1 + envc + 1 + Len(t)
      /\ vectors_buffer_size = argc + 1 + envc + 1 + Len(t) + Len(w)
      /\ vectors_buffer_base = HI - vectors_buffer_size
      /\ vectors_buffer_base \in Int /\ vectors_buffer_size \in Nat
      /\ envp_offset \in Nat /\ argv_strings_offset \in Nat /\ envp_strings_offset \in Nat
  BY <1>1, <1>6, <1>7, Sizes
     DEF envp_offset, argv_strings_offset, envp_strings_offset, vectors_buffer_size,
         vectors_buffer_base
<1>f. vectors_buffer_base \in Int /\ argv_strings_offset \in Nat /\ envp_strings_offset \in Nat
  BY <1>9
<1>10. PICK p, r : p = Table(call.argv) /\ r = Table(call.envp)
  OBVIOUS
<1>11. p \in Seq(Cell) /\ Len(p) = argc
  <2>1. \A k \in 1 .. argc : StringsBefore(call.argv, k) \in Nat
    BY <1>1, <1>2, <1>4
  <2>o. PICK o \in Nat : o = strings_offset(call.argv)
    BY <1>f DEF strings_offset
  <2>b. PICK b \in Int : b = vectors_buffer_base + strings_offset(call.argv)
    BY <1>f, <2>o
  <2>2. \A k \in 1 .. argc : <<"pointer", b + StringsBefore(call.argv, k)>> \in Cell
    <3> TAKE k \in 1 .. argc
    <3>1. PICK n \in Nat : n = StringsBefore(call.argv, k)
      BY <2>1
    <3>2. <<"pointer", b + n>> \in Cell
      BY DEF Cell
    <3> QED BY <3>1, <3>2
  <2>3. p \in [1 .. argc -> Cell]
    BY <1>1, <1>10, <2>2, <2>b DEF Table
  <2> QED BY <1>1, <2>3
<1>12. r \in Seq(Cell) /\ Len(r) = envc
  <2>1. \A k \in 1 .. envc : StringsBefore(call.envp, k) \in Nat
    BY <1>1, <1>2, <1>5
  <2>o. PICK o \in Nat : o = strings_offset(call.envp)
    BY <1>f DEF strings_offset
  <2>b. PICK b \in Int : b = vectors_buffer_base + strings_offset(call.envp)
    BY <1>f, <2>o
  <2>2. \A k \in 1 .. envc : <<"pointer", b + StringsBefore(call.envp, k)>> \in Cell
    <3> TAKE k \in 1 .. envc
    <3>1. PICK n \in Nat : n = StringsBefore(call.envp, k)
      BY <2>1
    <3>2. <<"pointer", b + n>> \in Cell
      BY DEF Cell
    <3> QED BY <3>1, <3>2
  <2>3. r \in [1 .. envc -> Cell]
    BY <1>1, <1>10, <2>2, <2>b DEF Table
  <2> QED BY <1>1, <2>3
<1>13. PICK q : q = <<NULL_POINTER>>
  OBVIOUS
<1>14. q \in Seq(Cell) /\ Len(q) = 1 /\ q[1] = NULL_POINTER
  <2>1. NULL_POINTER \in Cell
    BY DEF NULL_POINTER, Cell
  <2> QED BY <1>13, <2>1
<1>15. PICK v : v = vectors_buffer
  OBVIOUS
<1>16. SixJoined(v, p, q, r, q, t, w)
  BY <1>6, <1>10, <1>13, <1>15 DEF SixJoined, vectors_buffer
<1>17. /\ v \in Seq(Cell) /\ Len(v) = Len(p) + Len(q) + Len(r) + Len(q) + Len(t) + Len(w)
       /\ \A i \in 1 .. Len(p) : v[i] = p[i]
       /\ \A i \in 1 .. Len(q) : v[Len(p) + i] = q[i]
       /\ \A i \in 1 .. Len(r) : v[Len(p) + Len(q) + i] = r[i]
       /\ \A i \in 1 .. Len(q) : v[Len(p) + Len(q) + Len(r) + i] = q[i]
       /\ \A i \in 1 .. Len(t) : v[Len(p) + Len(q) + Len(r) + Len(q) + i] = t[i]
       /\ \A i \in 1 .. Len(w) : v[Len(p) + Len(q) + Len(r) + Len(q) + Len(t) + i] = w[i]
  <2>1. /\ p \in Seq(Cell) /\ q \in Seq(Cell) /\ r \in Seq(Cell)
        /\ t \in Seq(Cell) /\ w \in Seq(Cell)
    BY <1>8, <1>11, <1>12, <1>14
  <2>2. SixParts(Cell, v, p, q, r, q, t, w)
    BY <2>1, <1>16, SixPartsJoined
  <2> QED BY <2>2 DEF SixParts
<1>18. /\ v \in Seq(Cell) /\ Len(v) = vectors_buffer_size
       /\ \A k \in 1 .. argc : v[k] = p[k]
       /\ \A k \in 1 .. envc : v[envp_offset + k] = r[k]
  BY <1>9, <1>11, <1>12, <1>14, <1>17
<1>19. v[envp_offset] = NULL_POINTER /\ v[argv_strings_offset] = NULL_POINTER
  <2>1. 1 \in 1 .. Len(q)
    BY <1>14
  <2>2. v[Len(p) + 1] = q[1] /\ v[Len(p) + Len(q) + Len(r) + 1] = q[1]
    BY <1>17, <2>1
  <2> QED BY <1>9, <1>11, <1>12, <1>14, <2>2
<1>20. /\ \A k \in 1 .. Len(t) : v[argv_strings_offset + k] = t[k]
       /\ \A k \in 1 .. Len(w) : v[envp_strings_offset + k] = w[k]
  BY <1>9, <1>11, <1>12, <1>14, <1>17
<1>21. /\ argc + 1 <= envp_offset + envc + 1 /\ argv_strings_offset <= envp_strings_offset
  BY <1>1, <1>7, <1>9
<1> QED BY <1>6, <1>9, <1>10, <1>15, <1>18, <1>19, <1>20, <1>21

\* Does memory u hold at address a a vector like v, with copies of its strings?
CopyIn(u, a, v) ==
    /\ u[a + Len(v.pointers)] = NULL_POINTER
    /\ \A k \in DOMAIN v.pointers :
         /\ u[a + k - 1][1] = "pointer"
         /\ \A n \in 0 .. mem_user_strlen(v.pointers[k]) :
              u[u[a + k - 1][2] + n] = <<"char", v.pointers[k] + n>>

\* A table of pointers in memory, and the strings it points to
LEMMA TableCopies ==
    ASSUME NEW v \in VectorSet, ~ BadString(v), NEW u, NEW a \in Int, NEW b \in Int,
           u[a + Len(v.pointers)] = NULL_POINTER,
           \A k \in 1 .. Len(v.pointers) : u[a + k - 1] = <<"pointer", b + StringsBefore(v, k)>>,
           \A k \in 1 .. Len(Strings(v)) : u[b + k - 1] = Strings(v)[k]
    PROVE  CopyIn(u, a, v)
<1>1. DOMAIN v.pointers = 1 .. Len(v.pointers)
  BY DEF VectorSet
<1>2. ASSUME NEW k \in DOMAIN v.pointers
      PROVE  /\ u[a + k - 1][1] = "pointer"
             /\ \A n \in 0 .. mem_user_strlen(v.pointers[k]) :
                  u[u[a + k - 1][2] + n] = <<"char", v.pointers[k] + n>>
  <2>1. u[a + k - 1] = <<"pointer", b + StringsBefore(v, k)>>
    BY <1>1
  <2>2. /\ StringsBefore(v, k) \in Nat /\ mem_user_strlen(v.pointers[k]) \in Nat
        /\ \A n \in 0 .. mem_user_strlen(v.pointers[k]) :
             /\ StringsBefore(v, k) + n + 1 \in 1 .. Len(Strings(v))
             /\ Strings(v)[StringsBefore(v, k) + n + 1] = <<"char", v.pointers[k] + n>>
    BY StringPlace
  <2>3. PICK before \in Nat : before = StringsBefore(v, k)
    BY <2>2
  <2>4. u[a + k - 1][1] = "pointer" /\ u[a + k - 1][2] = b + before
    BY <2>1, <2>3
  <2>5. ASSUME NEW n \in 0 .. mem_user_strlen(v.pointers[k])
        PROVE  u[b + before + n] = <<"char", v.pointers[k] + n>>
    <3>1. /\ before + n + 1 \in 1 .. Len(Strings(v))
          /\ Strings(v)[before + n + 1] = <<"char", v.pointers[k] + n>>
      BY <2>2, <2>3
    <3>2. b + (before + n + 1) - 1 = b + before + n
      BY <2>2
    <3>3. u[b + (before + n + 1) - 1] = Strings(v)[before + n + 1]
      BY <3>1
    <3> QED BY <3>1, <3>2, <3>3
  <2> QED BY <2>4, <2>5
<1> QED BY <1>2 DEF CopyIn

LEMMA Laid ==
    ASSUME Measured, vectors_buffer_size <= HEAP, NEW u, NEW sp, sp = vectors_buffer_base - 3,
           \A b \in User : b >= sp => u[b] = (Pushed \o vectors_buffer)[b - sp + 1]
    PROVE  /\ sp - 1 \in User /\ sp \in Int
           /\ u[sp] = <<"count", argc>>
           /\ u[sp + 1] = <<"pointer", vectors_buffer_base>>
           /\ u[sp + 2] = <<"pointer", vectors_buffer_base + envp_offset>>
           /\ CopyIn(u, vectors_buffer_base, call.argv)
           /\ CopyIn(u, vectors_buffer_base + envp_offset, call.envp)
<1>1. /\ argc \in Nat /\ envc \in Nat /\ vectors_buffer_size \in Nat
      /\ envp_offset \in Nat /\ argv_strings_offset \in Nat /\ envp_strings_offset \in Nat
      /\ vectors_buffer \in Seq(Cell) /\ Len(vectors_buffer) = vectors_buffer_size
  BY Layout DEF Measured
<1>2. /\ vectors_buffer_base \in Int /\ vectors_buffer_base = HI - vectors_buffer_size
      /\ vectors_buffer_base - 4 >= LO /\ LO \in Nat /\ HI \in Nat
  BY <1>1, Sizes, ExecveAssumption DEF vectors_buffer_base
<1>b. PICK B \in Int : B = vectors_buffer_base
  BY <1>2
<1>m. PICK v, M, P : v = vectors_buffer /\ P = Pushed /\ M = Pushed \o vectors_buffer
  OBVIOUS
<1>3. /\ B = vectors_buffer_base /\ v = vectors_buffer
      /\ P = Pushed /\ M = Pushed \o vectors_buffer
  BY <1>b, <1>m
<1>4. sp = B - 3 /\ sp - 1 \in User /\ sp \in Int
  BY <1>1, <1>2, <1>3 DEF User
<1>5. \A b \in User : b >= sp => u[b] = M[b - sp + 1]
  BY <1>3
<1>6. /\ P \in Seq(Cell) /\ Len(P) = 3 /\ P[1] = <<"count", argc>>
      /\ P[2] = <<"pointer", vectors_buffer_base>>
      /\ P[3] = <<"pointer", vectors_buffer_base + envp_offset>>
  BY <1>1, <1>2, <1>3 DEF Pushed, Cell
<1>7. Joins(Cell, P, v, M)
  BY <1>1, <1>3, <1>6 DEF Joins
<1>8. /\ \A i \in 1 .. 3 : M[i] = P[i]
      /\ \A i \in 1 .. vectors_buffer_size : M[3 + i] = v[i]
  <2>1. /\ \A i \in 1 .. Len(P) : M[i] = P[i]
        /\ \A i \in 1 .. Len(v) : M[Len(P) + i] = v[i]
    BY <1>7, JoinedAt
  <2> QED BY <1>1, <1>3, <1>6, <2>1
<1>9. \A i \in 0 .. 2 : u[sp + i] = P[i + 1]
  <2> TAKE i \in 0 .. 2
  <2>1. sp + i \in User /\ sp + i >= sp /\ sp + i - sp + 1 = i + 1 /\ i + 1 \in 1 .. 3
    BY <1>1, <1>2, <1>3, <1>4 DEF User
  <2>2. u[sp + i] = M[sp + i - sp + 1]
    BY <1>5, <2>1
  <2> QED BY <1>8, <2>1, <2>2
<1>10. \A i \in 1 .. vectors_buffer_size : u[B + i - 1] = v[i]
  <2> TAKE i \in 1 .. vectors_buffer_size
  <2>1. B + i - 1 \in User /\ B + i - 1 >= sp /\ (B + i - 1) - sp + 1 = 3 + i
    BY <1>1, <1>2, <1>3, <1>4 DEF User
  <2>2. u[B + i - 1] = M[(B + i - 1) - sp + 1]
    BY <1>5, <2>1
  <2> QED BY <1>8, <2>1, <2>2
<1>11. /\ u[sp] = <<"count", argc>>
       /\ u[sp + 1] = <<"pointer", vectors_buffer_base>>
       /\ u[sp + 2] = <<"pointer", vectors_buffer_base + envp_offset>>
  <2>1. u[sp + 0] = P[0 + 1] /\ u[sp + 1] = P[1 + 1] /\ u[sp + 2] = P[2 + 1]
    BY <1>9
  <2>2. sp + 0 = sp
    BY <1>4
  <2> QED BY <1>6, <2>1, <2>2
<1>12. PICK a, e, t, w : /\ a = call.argv /\ e = call.envp
                        /\ t = Strings(call.argv) /\ w = Strings(call.envp)
  OBVIOUS
<1>13. /\ a \in VectorSet /\ e \in VectorSet /\ a # e
       /\ ~ BadString(a) /\ ~ BadString(e)
       /\ argc = Len(a.pointers) /\ DOMAIN a.pointers = 1 .. argc
       /\ envc = Len(e.pointers) /\ DOMAIN e.pointers = 1 .. envc
  BY <1>12, CallFacts DEF Measured
<1>14. Strings(a) \in Seq(Char) /\ Strings(e) \in Seq(Char)
  BY <1>13, StringPlace
<1>15. Len(t) \in Nat /\ Len(w) \in Nat /\ t = Strings(a) /\ w = Strings(e)
  BY <1>12, <1>14
<1>16. /\ \A k \in 1 .. argc : v[k] = Table(a)[k]
       /\ v[envp_offset] = NULL_POINTER
       /\ \A k \in 1 .. envc : v[envp_offset + k] = Table(e)[k]
       /\ v[argv_strings_offset] = NULL_POINTER
       /\ \A k \in 1 .. Len(t) : v[argv_strings_offset + k] = t[k]
       /\ \A k \in 1 .. Len(w) : v[envp_strings_offset + k] = w[k]
  BY <1>3, <1>12, Layout
<1>17. /\ \A k \in 1 .. argc :
            Table(a)[k] = <<"pointer", B + argv_strings_offset + StringsBefore(a, k)>>
       /\ \A k \in 1 .. envc :
            Table(e)[k] = <<"pointer", B + envp_strings_offset + StringsBefore(e, k)>>
  BY <1>3, <1>12, <1>13 DEF Table, strings_offset
<1>18. PICK ao \in Nat, ec \in Nat, eo \in Nat, as \in Nat, es \in Nat, n \in Nat :
          /\ ao = argc /\ ec = envc /\ eo = envp_offset /\ as = argv_strings_offset
          /\ es = envp_strings_offset /\ n = vectors_buffer_size
  BY <1>1
<1>19. /\ eo = ao + 1 /\ as = eo + ec + 1 /\ es = as + Len(t) /\ n = es + Len(w)
  BY <1>12, <1>18
     DEF envp_offset, argv_strings_offset, envp_strings_offset, vectors_buffer_size
<1>c. /\ Len(a.pointers) = ao /\ Len(e.pointers) = ec /\ argc = ao /\ envc = ec
      /\ Len(t) \in Nat /\ Len(w) \in Nat
      /\ B \in Int /\ ao \in Nat /\ ec \in Nat /\ eo \in Nat
      /\ as \in Nat /\ es \in Nat /\ n \in Nat
  BY <1>13, <1>15, <1>18
<1>20. CopyIn(u, B, a)
  <2>1. u[B + Len(a.pointers)] = NULL_POINTER
    <3>1. eo \in 1 .. n /\ B + eo - 1 = B + Len(a.pointers)
      BY <1>c, <1>19
    <3>2. u[B + eo - 1] = v[eo]
      BY <1>10, <1>18, <3>1
    <3> QED BY <1>16, <1>18, <3>1, <3>2
  <2>2. ASSUME NEW k \in 1 .. Len(a.pointers)
        PROVE  u[B + k - 1] = <<"pointer", B + as + StringsBefore(a, k)>>
    <3>1. k \in 1 .. n /\ k \in 1 .. argc
      BY <1>c, <1>19
    <3>2. u[B + k - 1] = v[k]
      BY <1>10, <1>18, <3>1
    <3>3. /\ v[k] = Table(a)[k]
          /\ Table(a)[k] = <<"pointer", B + argv_strings_offset + StringsBefore(a, k)>>
      BY <1>16, <1>17, <3>1
    <3> QED BY <1>18, <3>2, <3>3
  <2>3. ASSUME NEW k \in 1 .. Len(t) PROVE u[B + as + k - 1] = t[k]
    <3>1. as + k \in 1 .. n /\ B + (as + k) - 1 = B + as + k - 1
      BY <1>c, <1>19
    <3>2. u[B + (as + k) - 1] = v[as + k]
      BY <1>10, <1>18, <3>1
    <3>3. v[as + k] = t[k]
      BY <1>16, <1>18
    <3> QED BY <3>1, <3>2, <3>3
  <2>4. PICK b \in Int : b = B + as
    BY <1>18
  <2>5. \A k \in 1 .. Len(a.pointers) : u[B + k - 1] = <<"pointer", b + StringsBefore(a, k)>>
    BY <2>2, <2>4
  <2>6. \A k \in 1 .. Len(Strings(a)) : u[b + k - 1] = Strings(a)[k]
    BY <1>15, <2>3, <2>4
  <2> QED BY <1>13, <2>1, <2>5, <2>6, TableCopies
<1>21. CopyIn(u, B + eo, e)
  <2>1. u[B + eo + Len(e.pointers)] = NULL_POINTER
    <3>1. as \in 1 .. n /\ B + as - 1 = B + eo + Len(e.pointers)
      BY <1>c, <1>19
    <3>2. u[B + as - 1] = v[as]
      BY <1>10, <1>18, <3>1
    <3> QED BY <1>16, <1>18, <3>1, <3>2
  <2>2. ASSUME NEW k \in 1 .. Len(e.pointers)
        PROVE  u[B + eo + k - 1] = <<"pointer", B + es + StringsBefore(e, k)>>
    <3>1. eo + k \in 1 .. n /\ k \in 1 .. envc /\ B + (eo + k) - 1 = B + eo + k - 1
      BY <1>c, <1>19
    <3>2. u[B + (eo + k) - 1] = v[eo + k]
      BY <1>10, <1>18, <3>1
    <3>3. v[eo + k] = Table(e)[k]
      BY <1>16, <1>18, <3>1
    <3>4. Table(e)[k] = <<"pointer", B + envp_strings_offset + StringsBefore(e, k)>>
      BY <1>17, <3>1
    <3> QED BY <1>18, <3>1, <3>2, <3>3, <3>4
  <2>3. ASSUME NEW k \in 1 .. Len(w) PROVE u[B + es + k - 1] = w[k]
    <3>1. es + k \in 1 .. n /\ B + (es + k) - 1 = B + es + k - 1
      BY <1>c, <1>19
    <3>2. u[B + (es + k) - 1] = v[es + k]
      BY <1>10, <1>18, <3>1
    <3>3. v[es + k] = w[k]
      BY <1>16, <1>18
    <3> QED BY <3>1, <3>2, <3>3
  <2>4. PICK b \in Int, x \in Int : b = B + es /\ x = B + eo
    BY <1>18
  <2>5. \A k \in 1 .. Len(e.pointers) : u[x + k - 1] = <<"pointer", b + StringsBefore(e, k)>>
    BY <2>2, <2>4
  <2>6. \A k \in 1 .. Len(Strings(e)) : u[b + k - 1] = Strings(e)[k]
    BY <1>15, <2>3, <2>4
  <2>7. u[x + Len(e.pointers)] = NULL_POINTER
    BY <2>1, <2>4
  <2>8. CopyIn(u, x, e)
    BY <1>13, <2>5, <2>6, <2>7, TableCopies
  <2> QED BY <2>4, <2>8
<1> QED BY <1>3, <1>4, <1>11, <1>12, <1>18, <1>20, <1>21

-----------------------------------------------------------------------------
(* The invariant of the arguments of execve.                                *)

Vectored  == {"vectors", "open", "load", "loading"}
Committed == {"open", "load", "loading"}

\* Each check that is behind the process has been passed.
MeasuredInv ==
    /\ exec # "none" => call \in Calls
    /\ exec \in {"argv", "envp"} \cup Vectored => argc \in Nat /\ envc \in Nat
    /\ exec \in {"envp"} \cup Vectored => ~ BadString(call.argv)
    /\ exec \in Vectored => ~ BadString(call.envp) /\ vectors_buffer_size <= HEAP

\* Memory as it is after the vectors were copied
Holds(u, sp) ==
    \A b \in User : u[b] = IF b >= sp THEN (Pushed \o vectors_buffer)[b - sp + 1]
                                     ELSE <<"old", b>>

StoredInv == exec \in Committed => new_sp = vectors_buffer_base - 3 /\ Holds(user, new_sp)

\* The name was overwritten or it named the file, which is no pipe.
NamedInv ==
    exec \in {"load", "loading"} =>
        /\ type \notin {"pipe_read", "pipe_write"}
        /\ named \/ \E a \in Name : a >= new_sp

\* A byte of the file is loaded where the program expects it.
LoadedInv ==
    /\ exec = "load" => pos = 0
    /\ exec = "loading" => /\ op \in {"read", "end"} /\ buf = LO /\ start = 0
                           /\ \A a \in User : mem[a] \in {Old, a - LO}

ArgInv == MeasuredInv /\ StoredInv /\ NamedInv /\ LoadedInv /\ ArgumentsArrive

LEMMA SameCall ==
    ASSUME call' = call
    PROVE  /\ argc' = argc /\ envc' = envc /\ vectors_buffer_size' = vectors_buffer_size
           /\ vectors_buffer_base' = vectors_buffer_base
           /\ Pushed' = Pushed /\ vectors_buffer' = vectors_buffer /\ Name' = Name
           /\ \A u, sp : Holds(u, sp)' <=> Holds(u, sp)
<1>1. argc' = argc /\ envc' = envc
  BY DEF argc, envc, mem_user_vector_len, mem_user_valid_ptr
<1>2. /\ Strings(call.argv)' = Strings(call.argv) /\ Strings(call.envp)' = Strings(call.envp)
  OBVIOUS
<1>3. /\ envp_offset' = envp_offset /\ argv_strings_offset' = argv_strings_offset
      /\ envp_strings_offset' = envp_strings_offset /\ vectors_buffer_size' = vectors_buffer_size
      /\ vectors_buffer_base' = vectors_buffer_base
  BY <1>1, <1>2 DEF envp_offset, argv_strings_offset, envp_strings_offset, vectors_buffer_size,
                    vectors_buffer_base
<1>4. Pushed' = Pushed
  BY <1>1, <1>3 DEF Pushed
<1>5. Table(call.argv)' = Table(call.argv) /\ Table(call.envp)' = Table(call.envp)
  BY <1>3 DEF Table, strings_offset
<1>6. vectors_buffer' = vectors_buffer
  BY <1>2, <1>5 DEF vectors_buffer
<1>7. Name' = Name
  BY DEF Name
<1>8. ASSUME NEW u, NEW sp PROVE Holds(u, sp)' <=> Holds(u, sp)
  BY <1>4, <1>6 DEF Holds
<1> QED BY <1>1, <1>3, <1>4, <1>6, <1>7, <1>8

LEMMA CallStays ==
    ASSUME [ExecveNext]_<<vars, execVars>>
    PROVE  call' = call /\ (exec' # "none" => exec # "none")
BY DEF ExecveNext, execVars, sys_execve, BadVector, AllocArgv, BadArgvString, AllocEnvp,
       BadEnvpString, AllocVectors, CopyVectors, CannotOpen, Open, Load, Enter, Keeps, Goes

LEMMA ArgTypes ==
    ASSUME call \in Calls
    PROVE  argc \in Nat \cup {-1} /\ envc \in Nat \cup {-1}
<1>1. call.argv.pointers \in Seq(Addr \ {0}) /\ call.envp.pointers \in Seq(Addr \ {0})
  BY ExecveAssumption
<1>2. Len(call.argv.pointers) \in Nat /\ Len(call.envp.pointers) \in Nat
  BY <1>1
<1> QED BY <1>2 DEF argc, envc, mem_user_vector_len

\* Up to the point of no return
LEMMA MeasureStep ==
    ASSUME ArgInv,
           BadVector \/ AllocArgv \/ BadArgvString \/ AllocEnvp \/ BadEnvpString \/ AllocVectors
    PROVE  ArgInv'
<1>1. call' = call /\ MeasuredInv
  BY DEF ArgInv, BadVector, AllocArgv, BadArgvString, AllocEnvp, BadEnvpString, AllocVectors, Keeps
<1>2. /\ exec \in {"called", "argv", "envp"} /\ exec' \in {"argv", "envp", "vectors", "returned"}
      /\ exec' = "argv" => argc >= 0 /\ envc >= 0
      /\ exec' = "envp" => exec = "argv" /\ ~ BadString(call.argv)
      /\ exec' = "vectors" => exec = "envp" /\ ~ BadString(call.envp) /\ vectors_buffer_size <= HEAP
  BY DEF BadVector, AllocArgv, BadArgvString, AllocEnvp, BadEnvpString, AllocVectors, Goes, malloc
<1>3. /\ call \in Calls
      /\ exec' \in {"argv", "envp", "vectors"} => argc \in Nat /\ envc \in Nat
      /\ exec' \in {"envp", "vectors"} => ~ BadString(call.argv)
      /\ exec' = "vectors" => ~ BadString(call.envp) /\ vectors_buffer_size <= HEAP
  <2>1. call \in Calls
    BY <1>1, <1>2 DEF MeasuredInv
  <2>2. argc >= 0 /\ envc >= 0 => argc \in Nat /\ envc \in Nat
    BY <2>1, ArgTypes
  <2> QED BY <1>1, <1>2, <2>1, <2>2 DEF MeasuredInv
<1>4. MeasuredInv'
  <2>1. /\ BadString(call.argv)' <=> BadString(call.argv)
        /\ BadString(call.envp)' <=> BadString(call.envp)
    BY <1>1 DEF BadString
  <2> QED BY <1>1, <1>2, <1>3, <2>1, SameCall DEF MeasuredInv, Vectored
<1>5. StoredInv' /\ NamedInv' /\ LoadedInv' /\ ArgumentsArrive'
  BY <1>2 DEF StoredInv, NamedInv, LoadedInv, ArgumentsArrive, Committed
<1> QED BY <1>4, <1>5 DEF ArgInv

\* From there on nothing of the measurement changes.
LEMMA MeasuredStays ==
    ASSUME MeasuredInv, call' = call,
           exec' = exec \/ (exec \in Vectored /\ exec' \in Committed \cup {"destroyed", "entered"})
    PROVE  MeasuredInv'
<1>1. /\ BadString(call.argv)' <=> BadString(call.argv)
      /\ BadString(call.envp)' <=> BadString(call.envp)
  BY DEF BadString
<1>2. argc' = argc /\ envc' = envc /\ vectors_buffer_size' = vectors_buffer_size
  BY SameCall
<1> QED BY <1>1, <1>2 DEF MeasuredInv, Vectored, Committed

LEMMA StoredStays ==
    ASSUME StoredInv, call' = call, user' = user, new_sp' = new_sp,
           exec' \in Committed => exec \in Committed
    PROVE  StoredInv'
<1>1. vectors_buffer_base' = vectors_buffer_base /\ \A u, sp : Holds(u, sp)' <=> Holds(u, sp)
  BY SameCall
<1>2. ASSUME exec' \in Committed PROVE new_sp' = vectors_buffer_base' - 3 /\ Holds(user, new_sp)'
  <2>1. new_sp = vectors_buffer_base - 3 /\ Holds(user, new_sp)
    BY <1>2 DEF StoredInv
  <2>2. Pushed' = Pushed /\ vectors_buffer' = vectors_buffer
    BY SameCall
  <2> QED BY <1>1, <2>1, <2>2 DEF Holds
<1> QED BY <1>2 DEF StoredInv

\* The vectors are copied to the end of memory.
LEMMA CopyStep ==
    ASSUME ExecInv, ArgInv, CopyVectors
    PROVE  ArgInv'
<1>1. /\ exec = "vectors" /\ exec' = "open" /\ call' = call /\ MeasuredInv
      /\ new_sp' = vectors_buffer_base - Len(Pushed)
      /\ user' = Stored(new_sp', Pushed \o vectors_buffer)
  BY DEF ArgInv, CopyVectors, Goes
<1>2. MeasuredInv'
  BY <1>1, MeasuredStays DEF Vectored, Committed
<1>3. NamedInv' /\ LoadedInv' /\ ArgumentsArrive'
  BY <1>1 DEF NamedInv, LoadedInv, ArgumentsArrive
<1>4. Measured /\ vectors_buffer_size <= HEAP
  BY <1>1 DEF MeasuredInv, Measured, Vectored
<1>5. /\ vectors_buffer_size \in Nat /\ vectors_buffer \in Seq(Cell)
      /\ Len(vectors_buffer) = vectors_buffer_size
      /\ argc \in Nat /\ envp_offset \in Nat
  BY <1>4, Layout DEF Measured
<1>6. vectors_buffer_base = HI - vectors_buffer_size /\ HI \in Nat /\ LO \in Nat
  BY Sizes DEF vectors_buffer_base
<1>7. PICK P, v, M : P = Pushed /\ v = vectors_buffer /\ M = Pushed \o vectors_buffer
  OBVIOUS
<1>8. P \in Seq(Cell) /\ Len(P) = 3
  BY <1>5, <1>6, <1>7 DEF Pushed, Cell
<1>9. Joins(Cell, P, v, M)
  BY <1>5, <1>7, <1>8 DEF Joins
<1>10. Len(M) = 3 + vectors_buffer_size
  <2>1. Len(M) = Len(P) + Len(v)
    BY <1>9, JoinedAt
  <2> QED BY <1>5, <1>7, <1>8, <2>1
<1>11. PICK sp \in Int, n \in Nat : sp = new_sp' /\ n = vectors_buffer_size
  BY <1>1, <1>5, <1>6, <1>7, <1>8
<1>12. sp = HI - n - 3 /\ Len(M) = 3 + n /\ new_sp' = vectors_buffer_base - 3
  BY <1>1, <1>5, <1>6, <1>7, <1>8, <1>10, <1>11
<1>13. \A b \in User : user[b] = <<"old", b>>
  BY <1>1 DEF ExecInv, UserInv, Unharmed, OldMemory
<1>14. user' = [b \in User |-> IF b - sp \in 0 .. Len(M) - 1 THEN M[b - sp + 1] ELSE user[b]]
  BY <1>1, <1>7, <1>11 DEF Stored
<1>15. ASSUME NEW b \in User PROVE user'[b] = IF b >= sp THEN M[b - sp + 1] ELSE <<"old", b>>
  <2>1. b \in Int /\ b < HI
    BY <1>6 DEF User
  <2>2. b >= sp <=> b - sp \in 0 .. Len(M) - 1
    BY <1>6, <1>11, <1>12, <2>1
  <2> QED BY <1>13, <1>14, <2>2
<1>16. StoredInv'
  <2>1. /\ vectors_buffer_base' = vectors_buffer_base
        /\ Pushed' = Pushed /\ vectors_buffer' = vectors_buffer
    BY <1>1, SameCall
  <2>2. Holds(user, new_sp)'
    BY <1>7, <1>11, <1>15, <2>1 DEF Holds
  <2> QED BY <1>12, <2>1, <2>2 DEF StoredInv
<1> QED BY <1>2, <1>3, <1>16 DEF ArgInv

\* The file is found by the name that is in memory now.
LEMMA OpenArgs ==
    ASSUME ArgInv, Open
    PROVE  ArgInv'
<1>1. /\ exec = "open" /\ exec' = "load" /\ call' = call /\ user' = user /\ new_sp' = new_sp
      /\ type' \notin {"pipe_read", "pipe_write"} /\ pos' = 0
      /\ named' = \A a \in Name : user[a] = <<"old", a>>
      /\ MeasuredInv /\ StoredInv
  BY DEF ArgInv, Open, Goes
<1>2. MeasuredInv' /\ StoredInv'
  BY <1>1, MeasuredStays, StoredStays DEF Vectored, Committed
<1>3. LoadedInv' /\ ArgumentsArrive'
  BY <1>1 DEF LoadedInv, ArgumentsArrive
<1>4. Holds(user, new_sp)
  BY <1>1 DEF StoredInv, Committed
<1>5. ASSUME ~ named' PROVE \E a \in Name : a >= new_sp
  <2>1. PICK a \in Name : user[a] # <<"old", a>>
    BY <1>1, <1>5
  <2>2. a \in User
    BY DEF Name
  <2> QED BY <1>4, <2>1, <2>2 DEF Holds
<1>6. Name' = Name
  BY <1>1, SameCall
<1>7. NamedInv'
  BY <1>1, <1>5, <1>6 DEF NamedInv
<1> QED BY <1>2, <1>3, <1>7 DEF ArgInv

LEMMA LoadArgs ==
    ASSUME ArgInv, Load
    PROVE  ArgInv'
<1>1. /\ exec = "load" /\ exec' = "loading" /\ call' = call /\ user' = user /\ new_sp' = new_sp
      /\ named' = named /\ MeasuredInv /\ StoredInv /\ NamedInv /\ pos = 0
      /\ type' = type /\ op' = "read" /\ buf' = LO /\ start' = pos /\ mem' = Untouched
  BY DEF ArgInv, LoadedInv, Load, Goes, sys_read, Call
<1>2. MeasuredInv' /\ StoredInv'
  BY <1>1, MeasuredStays, StoredStays DEF Vectored, Committed
<1>3. Name' = Name
  BY <1>1, SameCall
<1>4. NamedInv'
  BY <1>1, <1>3 DEF NamedInv
<1>5. \A a \in User : mem'[a] = Old
  BY <1>1, UntouchedType, Sizes DEF User, Physical
<1>6. LoadedInv' /\ ArgumentsArrive'
  BY <1>1, <1>5 DEF LoadedInv, ArgumentsArrive
<1> QED BY <1>2, <1>4, <1>6 DEF ArgInv

\* A piece of the image
LEMMA PieceArgs ==
    ASSUME ExecInv, ArgInv, exec = "loading", ReadPiece, UNCHANGED execVars
    PROVE  ArgInv'
<1>1. /\ exec' = "loading" /\ call' = call /\ user' = user /\ new_sp' = new_sp /\ named' = named
      /\ MeasuredInv /\ StoredInv /\ NamedInv /\ LoadedInv /\ RWInv
  BY DEF ArgInv, ExecInv, execVars
<1>2. /\ TypeOK /\ op = "read" /\ done_count < count /\ done_count >= 0 /\ pos = start + Moved
  BY <1>1 DEF RWInv, CallInv, ReadPiece
<1>3. PICK n \in file_read : mem' = (IF n < 0 THEN mem ELSE CopiedOut(n)) /\ Advance(n)
  BY DEF ReadPiece
<1>4. /\ type' = type /\ buf' = buf /\ start' = start /\ op' \in {op, "end"}
  BY <1>3 DEF Advance, args
<1>5. /\ type # "pipe_read" /\ buf = LO /\ start = 0 /\ \A a \in User : mem[a] \in {Old, a - LO}
  BY <1>1 DEF NamedInv, LoadedInv
<1>6. n \in -1 .. inc_count /\ inc_count \in 1 .. count - done_count /\ n # 0
  BY <1>2, <1>3, <1>5, Answers, PieceSize
<1>7. /\ count \in Int /\ done_count \in Nat
      /\ LO \in Nat /\ HI \in Nat /\ HI < SPACE /\ SPACE \in Nat
  BY <1>2, Sizes DEF TypeOK, Addr
<1>8. pos = done_count /\ Dest = LO + done_count /\ n \in Int
  BY <1>2, <1>5, <1>6, <1>7 DEF Moved, Dest
<1>9. ASSUME NEW a \in User PROVE mem'[a] \in {Old, a - LO}
  <2>1. CASE n < 0
    BY <1>3, <1>5, <2>1
  <2>2. CASE n >= 0
    <3>1. DmaCount(n) = n
      BY <1>6 DEF DmaCount
    <3>2. a \in Physical /\ a \in Int
      BY <1>7 DEF User, Physical
    <3>3. mem' = CopiedOut(n)
      BY <1>3, <1>8, <2>2
    <3>4. mem'[a] = IF a - Dest \notin 0 .. n - 1 THEN mem[a]
                    ELSE IF a - Dest < n THEN pos + (a - Dest) ELSE Junk
      BY <3>1, <3>2, <3>3 DEF CopiedOut
    <3>5. a - Dest \in 0 .. n - 1 => a - Dest < n /\ pos + (a - Dest) = a - LO
      BY <1>7, <1>8, <3>2
    <3> QED BY <1>5, <3>4, <3>5
  <2> QED BY <1>8, <2>1, <2>2
<1>10. MeasuredInv' /\ StoredInv'
  BY <1>1, MeasuredStays, StoredStays DEF Vectored, Committed
<1>11. Name' = Name
  BY <1>1, SameCall
<1>12. NamedInv'
  BY <1>1, <1>4, <1>11 DEF NamedInv
<1>13. LoadedInv' /\ ArgumentsArrive'
  BY <1>1, <1>2, <1>4, <1>5, <1>9 DEF LoadedInv, ArgumentsArrive
<1> QED BY <1>10, <1>12, <1>13 DEF ArgInv

\* ArgumentsArrive of a memory u and a stack that ends at sp
Arrives(u, sp, c, nm) ==
    (\A a \in User : u[a][1] = "image" => a < sp) =>
        /\ u[sp] = <<"pointer", LO>>
        /\ u[sp + 1] = <<"count", Len(c.argv.pointers)>>
        /\ CopyIn(u, u[sp + 2][2], c.argv)
        /\ CopyIn(u, u[sp + 3][2], c.envp)
        /\ \A a \in User : u[a][1] = "image" => u[a] = <<"image", a - LO>>
        /\ nm \/ \E a \in User : /\ a - c.pathname \in 0 .. mem_user_strlen(c.pathname)
                                /\ a > sp

LEMMA ArrivesNext ==
    ASSUME exec' = "entered" => Arrives(user', syscall_sp', call', named')
    PROVE  ArgumentsArrive'
<1> SUFFICES ASSUME (exec = "entered" /\ (\A a \in Image : a < syscall_sp))'
             PROVE  (/\ user[syscall_sp] = <<"pointer", LO>>
                     /\ user[syscall_sp + 1] = <<"count", Len(call.argv.pointers)>>
                     /\ IsCopy(user[syscall_sp + 2][2], call.argv)
                     /\ IsCopy(user[syscall_sp + 3][2], call.envp)
                     /\ \A a \in Image : user[a] = <<"image", a - LO>>
                     /\ named \/ \E a \in Name : a > syscall_sp)'
  BY DEF ArgumentsArrive
<1>1. exec' = "entered" /\ \A a \in User : user'[a][1] = "image" => a < syscall_sp'
  BY DEF Image
<1>2. /\ user'[syscall_sp'] = <<"pointer", LO>>
      /\ user'[syscall_sp' + 1] = <<"count", Len(call'.argv.pointers)>>
      /\ CopyIn(user', user'[syscall_sp' + 2][2], call'.argv)
      /\ CopyIn(user', user'[syscall_sp' + 3][2], call'.envp)
      /\ \A a \in User : user'[a][1] = "image" => user'[a] = <<"image", a - LO>>
      /\ named' \/ \E a \in User : /\ a - call'.pathname \in 0 .. mem_user_strlen(call'.pathname)
                                  /\ a > syscall_sp'
  BY <1>1 DEF Arrives
<1>4. (IsCopy(user[syscall_sp + 2][2], call.argv))'
  BY <1>2 DEF IsCopy, CopyIn
<1>5. (IsCopy(user[syscall_sp + 3][2], call.envp))'
  BY <1>2 DEF IsCopy, CopyIn
<1>6. (\A a \in Image : user[a] = <<"image", a - LO>>)'
  BY <1>2 DEF Image
<1>7. (named \/ \E a \in Name : a > syscall_sp)'
  BY <1>2 DEF Name
<1> QED BY <1>2, <1>4, <1>5, <1>6, <1>7

LEMMA ArrivesNow ==
    ASSUME ArgumentsArrive, exec = "entered"
    PROVE  Arrives(user, syscall_sp, call, named)
<1> SUFFICES ASSUME \A a \in User : user[a][1] = "image" => a < syscall_sp
             PROVE  /\ user[syscall_sp] = <<"pointer", LO>>
                    /\ user[syscall_sp + 1] = <<"count", Len(call.argv.pointers)>>
                    /\ CopyIn(user, user[syscall_sp + 2][2], call.argv)
                    /\ CopyIn(user, user[syscall_sp + 3][2], call.envp)
                    /\ \A a \in User : user[a][1] = "image" => user[a] = <<"image", a - LO>>
                    /\ named \/ \E a \in User :
                                  /\ a - call.pathname \in 0 .. mem_user_strlen(call.pathname)
                                  /\ a > syscall_sp
  BY DEF Arrives
<1>1. \A a \in Image : a < syscall_sp
  BY DEF Image
<1>2. /\ user[syscall_sp] = <<"pointer", LO>>
      /\ user[syscall_sp + 1] = <<"count", Len(call.argv.pointers)>>
      /\ IsCopy(user[syscall_sp + 2][2], call.argv)
      /\ IsCopy(user[syscall_sp + 3][2], call.envp)
      /\ \A a \in Image : user[a] = <<"image", a - LO>>
      /\ named \/ \E a \in Name : a > syscall_sp
  BY <1>1 DEF ArgumentsArrive
<1>3. CopyIn(user, user[syscall_sp + 2][2], call.argv)
  BY <1>2 DEF IsCopy, CopyIn
<1>4. CopyIn(user, user[syscall_sp + 3][2], call.envp)
  BY <1>2 DEF IsCopy, CopyIn
<1>5. \A a \in User : user[a][1] = "image" => user[a] = <<"image", a - LO>>
  BY <1>2 DEF Image
<1>6. named \/ \E a \in User : /\ a - call.pathname \in 0 .. mem_user_strlen(call.pathname)
                             /\ a > syscall_sp
  BY <1>2 DEF Name
<1> QED BY <1>2, <1>3, <1>4, <1>5, <1>6

\* The program starts: all that it was given is where it looks.
LEMMA EnterArgs ==
    ASSUME ArgInv, Enter
    PROVE  ArgInv'
<1>1. /\ exec = "loading" /\ exec' = "entered" /\ call' = call /\ named' = named
      /\ syscall_sp' = new_sp - 1
      /\ user' = [WithImage EXCEPT ![new_sp - 1] = <<"pointer", LO>>]
      /\ MeasuredInv /\ StoredInv /\ NamedInv /\ LoadedInv
  BY DEF ArgInv, Enter, Goes
<1>2. MeasuredInv'
  BY <1>1, MeasuredStays DEF Vectored, Committed
<1>3. StoredInv' /\ NamedInv' /\ LoadedInv'
  BY <1>1 DEF StoredInv, NamedInv, LoadedInv, Committed
<1>4. /\ Measured /\ vectors_buffer_size <= HEAP /\ new_sp = vectors_buffer_base - 3
      /\ Holds(user, new_sp) /\ \A a \in User : mem[a] \in {Old, a - LO}
      /\ named \/ \E a \in Name : a >= new_sp
  BY <1>1 DEF MeasuredInv, StoredInv, NamedInv, LoadedInv, Measured, Vectored, Committed
<1>5. vectors_buffer_size \in Nat
  BY <1>4, Layout
<1>6. PICK sp \in Int : sp = new_sp
  BY <1>4, <1>5, Sizes DEF vectors_buffer_base
<1>7. sp - 1 \in User
  BY <1>4, <1>5, <1>6, Sizes, ExecveAssumption DEF vectors_buffer_base, User
<1>8. PICK u, m, M, old : u = user' /\ m = mem /\ M = Pushed \o vectors_buffer /\ old = user
  OBVIOUS
<1>9. /\ u[sp - 1] = <<"pointer", LO>>
      /\ \A b \in User \ {sp - 1} : u[b] = IF m[b] = Old THEN old[b] ELSE <<"image", m[b]>>
  BY <1>1, <1>6, <1>7, <1>8 DEF WithImage
<1>10. \A b \in User : old[b] = IF b >= sp THEN M[b - sp + 1] ELSE <<"old", b>>
  BY <1>4, <1>6, <1>8 DEF Holds
<1>11. \A b \in User : m[b] \in {Old, b - LO} /\ b \in Int
  BY <1>4, <1>8, Sizes DEF User
<1>12. ASSUME \A a \in User : u[a][1] = "image" => a < sp - 1
       PROVE  /\ u[sp - 1] = <<"pointer", LO>>
              /\ u[sp - 1 + 1] = <<"count", Len(call.argv.pointers)>>
              /\ CopyIn(u, u[sp - 1 + 2][2], call.argv)
              /\ CopyIn(u, u[sp - 1 + 3][2], call.envp)
              /\ \A a \in User : u[a][1] = "image" => u[a] = <<"image", a - LO>>
  <2>1. ASSUME NEW b \in User, b >= sp PROVE u[b] = M[b - sp + 1]
    <3>1. b \in Int /\ b # sp - 1
      BY <1>11, <2>1
    <3>2. m[b] = Old
      <4>1. ASSUME m[b] # Old PROVE FALSE
        <5>0. u[b] = <<"image", m[b]>>
          BY <1>9, <3>1, <4>1
        <5>1. u[b][1] = "image"
          BY <5>0
        <5>2. b < sp - 1
          BY <1>12, <5>1
        <5> QED BY <2>1, <3>1, <5>2
      <4> QED BY <4>1
    <3> QED BY <1>9, <1>10, <2>1, <3>1, <3>2
  <2>2. \A b \in User : b >= sp => u[b] = (Pushed \o vectors_buffer)[b - sp + 1]
    BY <1>8, <2>1
  <2>3. sp = vectors_buffer_base - 3
    BY <1>4, <1>6
  <2>4. /\ u[sp] = <<"count", argc>>
        /\ u[sp + 1] = <<"pointer", vectors_buffer_base>>
        /\ u[sp + 2] = <<"pointer", vectors_buffer_base + envp_offset>>
        /\ CopyIn(u, vectors_buffer_base, call.argv)
        /\ CopyIn(u, vectors_buffer_base + envp_offset, call.envp)
    BY <1>4, <2>2, <2>3, Laid
  <2>5. sp - 1 + 1 = sp /\ sp - 1 + 2 = sp + 1 /\ sp - 1 + 3 = sp + 2
    OBVIOUS
  <2>6. argc = Len(call.argv.pointers)
    BY <1>4, CallFacts
  <2>7. u[sp + 1][2] = vectors_buffer_base /\ u[sp + 2][2] = vectors_buffer_base + envp_offset
    BY <2>4
  <2>8. ASSUME NEW a \in User, u[a][1] = "image" PROVE u[a] = <<"image", a - LO>>
    <3>1. a # sp - 1
      <4>1. ASSUME a = sp - 1 PROVE FALSE
        BY <1>9, <2>8, <4>1
      <4> QED BY <4>1
    <3>2. a < sp - 1 /\ a \in Int
      BY <1>11, <1>12, <2>8
    <3>3. m[a] # Old
      <4>1. ASSUME m[a] = Old PROVE FALSE
        <5>0. ~ (a >= sp)
          BY <1>6, <3>2
        <5>1. u[a] = old[a] /\ old[a] = <<"old", a>>
          BY <1>9, <1>10, <3>1, <4>1, <5>0
        <5> QED BY <2>8, <5>1
      <4> QED BY <4>1
    <3>4. m[a] = a - LO
      BY <1>11, <3>3
    <3> QED BY <1>9, <3>1, <3>3, <3>4
  <2> QED BY <1>9, <2>4, <2>5, <2>6, <2>7, <2>8
<1>13. named \/ \E a \in User : /\ a - call.pathname \in 0 .. mem_user_strlen(call.pathname)
                              /\ a > sp - 1
  <2>1. ASSUME NEW a \in Name, a >= new_sp
        PROVE  a \in User /\ a - call.pathname \in 0 .. mem_user_strlen(call.pathname) /\ a > sp - 1
    <3>1. a \in User /\ a - call.pathname \in 0 .. mem_user_strlen(call.pathname)
      BY DEF Name
    <3>2. a \in Int /\ a >= sp
      BY <1>6, <1>11, <2>1, <3>1
    <3> QED BY <3>1, <3>2
  <2> QED BY <1>4, <2>1
<1>14. Arrives(u, sp - 1, call, named)
  BY <1>12, <1>13 DEF Arrives
<1>15. ArgumentsArrive'
  <2>1. Arrives(user', syscall_sp', call', named')
    BY <1>1, <1>6, <1>8, <1>14
  <2> QED BY <2>1, ArrivesNext
<1> QED BY <1>2, <1>3, <1>15 DEF ArgInv

LEMMA InitArgs == ExecveInit => ArgInv
BY DEF ExecveInit, ArgInv, MeasuredInv, StoredInv, NamedInv, LoadedInv, ArgumentsArrive,
       Vectored, Committed

\* A step that is none of execve's
LEMMA OtherArgs ==
    ASSUME ArgInv, UNCHANGED execVars, exec \notin {"load", "loading"} \/ UNCHANGED vars
    PROVE  ArgInv'
<1>1. /\ exec' = exec /\ call' = call /\ user' = user /\ new_sp' = new_sp /\ named' = named
      /\ syscall_sp' = syscall_sp
      /\ MeasuredInv /\ StoredInv /\ NamedInv /\ LoadedInv /\ ArgumentsArrive
  BY DEF ArgInv, execVars
<1>2. MeasuredInv' /\ StoredInv'
  BY <1>1, MeasuredStays, StoredStays
<1>3. Name' = Name
  BY <1>1, SameCall
<1>4. NamedInv' /\ LoadedInv'
  <2>1. exec \in {"load", "loading"} =>
          type' = type /\ pos' = pos /\ op' = op /\ buf' = buf /\ start' = start /\ mem' = mem
    BY DEF vars, args
  <2> QED BY <1>1, <1>3, <2>1 DEF NamedInv, LoadedInv
<1>5. exec' = "entered" => Arrives(user', syscall_sp', call', named')
  BY <1>1, ArrivesNow
<1>6. ArgumentsArrive'
  BY <1>5, ArrivesNext
<1> QED BY <1>2, <1>4, <1>6 DEF ArgInv

LEMMA CannotOpenArgs ==
    ASSUME ArgInv, CannotOpen
    PROVE  ArgInv'
<1>1. exec = "open" /\ exec' = "destroyed" /\ call' = call /\ MeasuredInv
  BY DEF ArgInv, CannotOpen, Goes, Keeps
<1>2. MeasuredInv'
  BY <1>1, MeasuredStays DEF Vectored
<1>3. StoredInv' /\ NamedInv' /\ LoadedInv' /\ ArgumentsArrive'
  BY <1>1 DEF StoredInv, NamedInv, LoadedInv, ArgumentsArrive, Committed
<1> QED BY <1>2, <1>3 DEF ArgInv

LEMMA StepArgs == ExecInv /\ ArgInv /\ [ExecveNext]_<<vars, execVars>> => ArgInv'
<1> SUFFICES ASSUME ExecInv, ArgInv, [ExecveNext]_<<vars, execVars>> PROVE ArgInv'
  OBVIOUS
<1>1. CASE exec = "none" /\ UNCHANGED execVars
  BY <1>1, OtherArgs
<1>2. CASE exec = "loading" /\ ReadPiece /\ UNCHANGED execVars
  BY <1>2, PieceArgs
<1>3. CASE sys_execve
  BY <1>3, MeasureStep, CopyStep, CannotOpenArgs, OpenArgs, LoadArgs, EnterArgs DEF sys_execve
<1>4. CASE UNCHANGED <<vars, execVars>>
  BY <1>4, OtherArgs
<1> QED BY <1>1, <1>2, <1>3, <1>4 DEF ExecveNext

\* A program that execve starts finds argc, argv and envp on its stack and all of
\* the strings behind them, for every call whose vectors pass the checks, every
\* size of memory, and every length and place of the strings; and its image is
\* in place as far as it does not reach the stack.
THEOREM VectorsArrive == ExecveSpec => []ArgumentsArrive
<1>1. ArgInv => ArgumentsArrive
  BY DEF ArgInv
<1>2. ExecveInit => ExecInv /\ ArgInv
  BY InitExec, InitArgs
<1>3. ExecInv /\ ArgInv /\ [ExecveNext]_<<vars, execVars>> => (ExecInv /\ ArgInv)'
  BY StepExec, StepArgs
<1> QED BY <1>1, <1>2, <1>3, PTL DEF ExecveSpec

-----------------------------------------------------------------------------
(* How many of a set point to something, when one of them is moved.         *)

Count(S, f, y) == Cardinality({t \in S : f[t] = y})

Bump(x, y) == IF x = y THEN 1 ELSE 0

LEMMA CountType ==
    ASSUME NEW S, IsFiniteSet(S), NEW f, NEW y
    PROVE  /\ Count(S, f, y) \in Nat
           /\ Count(S, f, y) = 0 <=> \A t \in S : f[t] # y
           /\ Count(S, f, y) <= Cardinality(S)
<1> DEFINE A == {t \in S : f[t] = y}
<1>1. IsFiniteSet(A) /\ Cardinality(A) <= Cardinality(S)
  BY FS_Subset
<1>2. Cardinality(A) \in Nat
  BY <1>1, FS_CardinalityType
<1>3. Cardinality(A) = 0 <=> A = {}
  BY <1>1, FS_EmptySet
<1> QED BY <1>1, <1>2, <1>3 DEF Count

\* g is f with one change.
Moves(S, f, g, s, x) == s \in S /\ \A t \in S : g[t] = IF t = s THEN x ELSE f[t]

LEMMA CountMoves ==
    ASSUME NEW S, IsFiniteSet(S), NEW f, NEW g, NEW s, NEW x, NEW y, Moves(S, f, g, s, x)
    PROVE  /\ Count(S, f, y) \in Nat
           /\ Count(S, g, y) = Count(S, f, y) - Bump(f[s], y) + Bump(x, y)
<1> DEFINE A == {t \in S : f[t] = y}
           B == {t \in S : g[t] = y}
<1>1. IsFiniteSet(A) /\ Cardinality(A) \in Nat
  BY FS_Subset, FS_CardinalityType
<1>2. s \in S /\ \A t \in S : g[t] = IF t = s THEN x ELSE f[t]
  BY DEF Moves
<1>3. IsFiniteSet(A \ {s}) /\ Cardinality(A \ {s}) = Cardinality(A) - Bump(f[s], y)
  <2>1. s \in A <=> f[s] = y
    BY <1>2
  <2> HIDE DEF A
  <2>2. /\ IsFiniteSet(A \ {s})
        /\ Cardinality(A \ {s}) = IF s \in A THEN Cardinality(A) - 1 ELSE Cardinality(A)
    BY <1>1, FS_RemoveElement
  <2> QED BY <1>1, <2>1, <2>2 DEF Bump
<1>4. CASE x = y
  <2>1. B = (A \ {s}) \cup {s}
    BY <1>2, <1>4
  <2>2. Cardinality((A \ {s}) \cup {s}) = Cardinality(A \ {s}) + 1
    <3>1. s \notin A \ {s}
      OBVIOUS
    <3> HIDE DEF A
    <3> QED BY <1>3, <3>1, FS_AddElement
  <2> HIDE DEF A, B
  <2>3. Cardinality(B) = Cardinality(A) - Bump(f[s], y) + 1
    BY <1>1, <1>3, <2>1, <2>2 DEF Bump
  <2> QED BY <1>1, <1>4, <2>3 DEF Count, Bump, A, B
<1>5. CASE x # y
  <2>1. B = A \ {s}
    BY <1>2, <1>5
  <2> HIDE DEF A, B
  <2>3. Cardinality(B) = Cardinality(A) - Bump(f[s], y) + 0
    BY <1>1, <1>3, <2>1 DEF Bump
  <2> QED BY <1>1, <1>5, <2>3 DEF Count, Bump, A, B
<1> QED BY <1>4, <1>5

-----------------------------------------------------------------------------
(* Descriptors and open files.                                              *)

Pairs == Proc \X Fd

\* The descriptors of all processes, as one table.
Flat(of) == [d \in Pairs |-> of[d[1]][d[2]]]

Tables == [Proc -> [Fd -> OpenFile \cup {NULL}]]

\* OpenFilesCounted, as it is of any tables, open files and counts.
CountedFds(of, fl, r) ==
    /\ of \in Tables /\ fl \in [OpenFile -> File \cup {NULL}] /\ r \in [OpenFile -> Nat]
    /\ \A o \in OpenFile :
          /\ r[o] = Count(Pairs, Flat(of), o)
          /\ fl[o] = NULL <=> r[o] = 0
    /\ \A d, e \in Pairs : Flat(of)[d] = Flat(of)[e] /\ Flat(of)[d] # NULL => d[1] = e[1]

LEMMA PairsFinite == IsFiniteSet(Fd) /\ Cardinality(Fd) = MAX_OPEN_FILES /\ IsFiniteSet(Pairs)
<1>1. IsFiniteSet(Fd) /\ Cardinality(Fd) = MAX_OPEN_FILES
  <2>1. 0 \in Int /\ MAX_OPEN_FILES - 1 \in Int /\ ~(0 > MAX_OPEN_FILES - 1)
        /\ (MAX_OPEN_FILES - 1) - 0 + 1 = MAX_OPEN_FILES
    BY FilesAssumption
  <2> QED BY <2>1, FS_Interval DEF Fd
<1>2. IsFiniteSet(Pairs)
  BY <1>1, FilesAssumption, FS_Product DEF Pairs
<1> QED BY <1>1, <1>2

\* One descriptor is set.
SetAt(of, new, p, fd, x) ==
    /\ new \in Tables
    /\ \A q \in Proc, e \in Fd : new[q][e] = IF q = p /\ e = fd THEN x ELSE of[q][e]

LEMMA FlatMoves ==
    ASSUME NEW of \in Tables, NEW p \in Proc, NEW fd \in Fd, NEW x \in OpenFile \cup {NULL},
           NEW new, SetAt(of, new, p, fd, x)
    PROVE  /\ Moves(Pairs, Flat(of), Flat(new), <<p, fd>>, x)
           /\ Flat(of) \in [Pairs -> OpenFile \cup {NULL}]
           /\ Flat(of)[<<p, fd>>] = of[p][fd]
<1>2. \A d \in Pairs : d[1] \in Proc /\ d[2] \in Fd /\ d = <<d[1], d[2]>>
  BY DEF Pairs
<1>3. <<p, fd>> \in Pairs
  BY DEF Pairs
<1>4. \A d \in Pairs : new[d[1]][d[2]] = IF d = <<p, fd>> THEN x ELSE of[d[1]][d[2]]
  BY <1>2 DEF Tables, SetAt
<1>5. Flat(of) \in [Pairs -> OpenFile \cup {NULL}]
  BY <1>2 DEF Flat, Tables
<1>6. \A d \in Pairs : Flat(new)[d] = IF d = <<p, fd>> THEN x ELSE Flat(of)[d]
  BY <1>4 DEF Flat
<1> QED BY <1>3, <1>5, <1>6 DEF Flat, Moves

\* An open file is made and a free descriptor points to it.
Opens(of, fl, r, p, fd, o, f, new, fl2, r2) ==
    /\ new = [of EXCEPT ![p][fd] = o]
    /\ fl2 = [fl EXCEPT ![o] = f]
    /\ r2 = [r EXCEPT ![o] = 1]

LEMMA FdOpens ==
    ASSUME NEW of, NEW fl, NEW r, CountedFds(of, fl, r),
           NEW p \in Proc, NEW fd \in Fd, of[p][fd] = NULL,
           NEW o \in OpenFile, fl[o] = NULL, NEW f \in File,
           NEW new, NEW fl2, NEW r2, Opens(of, fl, r, p, fd, o, f, new, fl2, r2)
    PROVE  CountedFds(new, fl2, r2)
<1> DEFINE h == Flat(of)
           k == Flat(new)
<1>0. new = [of EXCEPT ![p][fd] = o] /\ fl2 = [fl EXCEPT ![o] = f] /\ r2 = [r EXCEPT ![o] = 1]
  BY DEF Opens
<1>1. /\ of \in Tables /\ fl \in [OpenFile -> File \cup {NULL}] /\ r \in [OpenFile -> Nat]
      /\ \A x \in OpenFile : r[x] = Count(Pairs, h, x) /\ (fl[x] = NULL <=> r[x] = 0)
      /\ \A d, e \in Pairs : h[d] = h[e] /\ h[d] # NULL => d[1] = e[1]
  BY DEF CountedFds
<1>2. /\ new \in Tables /\ <<p, fd>> \in Pairs
      /\ h \in [Pairs -> OpenFile \cup {NULL}] /\ h[<<p, fd>>] = NULL
      /\ \A d \in Pairs : k[d] = IF d = <<p, fd>> THEN o ELSE h[d]
      /\ Moves(Pairs, h, k, <<p, fd>>, o)
  <2>1. o \in OpenFile \cup {NULL} /\ of \in Tables
    BY <1>1
  <2>2. SetAt(of, new, p, fd, o)
    BY <1>0, <2>1 DEF Tables, SetAt
  <2>3. Moves(Pairs, h, k, <<p, fd>>, o) /\ h \in [Pairs -> OpenFile \cup {NULL}] /\ h[<<p, fd>>] = of[p][fd]
    BY <2>1, <2>2, FlatMoves
  <2> QED BY <2>2, <2>3 DEF SetAt, Moves
<1> HIDE DEF h, k
<1>3. ASSUME NEW x \in OpenFile
      PROVE  Count(Pairs, k, x) = r[x] + Bump(o, x)
  <2>1. Count(Pairs, k, x) = Count(Pairs, h, x) - Bump(NULL, x) + Bump(o, x)
    BY <1>2, PairsFinite, CountMoves
  <2>2. Bump(NULL, x) = 0 /\ Count(Pairs, h, x) = r[x] /\ r[x] \in Nat
    BY <1>1, FilesAssumption DEF Bump
  <2> QED BY <2>1, <2>2 DEF Bump
<1>4. r[o] = 0 /\ f # NULL
  BY <1>1, NullIsNoFile
<1>5. \A x \in OpenFile : /\ r2[x] = Count(Pairs, k, x)
                          /\ fl2[x] = NULL <=> r2[x] = 0
  BY <1>0, <1>1, <1>3, <1>4 DEF Bump
<1>6. \A d \in Pairs : h[d] # o
  <2>1. Count(Pairs, h, o) = 0
    BY <1>1, <1>4
  <2> QED BY <2>1, PairsFinite, CountType
<1>7. \A d, e \in Pairs : k[d] = k[e] /\ k[d] # NULL => d[1] = e[1]
  BY <1>1, <1>2, <1>6
<1>8. fl2 \in [OpenFile -> File \cup {NULL}] /\ r2 \in [OpenFile -> Nat]
  BY <1>0, <1>1
<1> QED BY <1>2, <1>5, <1>7, <1>8 DEF CountedFds, k

\* A descriptor is closed: with the last one, the open file is freed.
LEMMA FdCloses ==
    ASSUME NEW of, NEW fl, NEW r, CountedFds(of, fl, r),
           NEW p \in Proc, NEW fd \in Fd, NEW o, o = of[p][fd], o # NULL,
           NEW new, new = [of EXCEPT ![p][fd] = NULL],
           NEW fl2, fl2 = IF r[o] = 1 THEN [fl EXCEPT ![o] = NULL] ELSE fl,
           NEW r2, r2 = [r EXCEPT ![o] = r[o] - 1]
    PROVE  /\ o \in OpenFile /\ fl[o] \in File /\ r[o] \in Nat \ {0}
           /\ CountedFds(new, fl2, r2)
<1> DEFINE h == Flat(of)
           k == Flat(new)
<1>1. /\ of \in Tables /\ fl \in [OpenFile -> File \cup {NULL}] /\ r \in [OpenFile -> Nat]
      /\ \A x \in OpenFile : r[x] = Count(Pairs, h, x) /\ (fl[x] = NULL <=> r[x] = 0)
      /\ \A d, e \in Pairs : h[d] = h[e] /\ h[d] # NULL => d[1] = e[1]
  BY DEF CountedFds
<1>2. /\ new \in Tables /\ <<p, fd>> \in Pairs
      /\ h \in [Pairs -> OpenFile \cup {NULL}] /\ h[<<p, fd>>] = o
      /\ \A d \in Pairs : k[d] = IF d = <<p, fd>> THEN NULL ELSE h[d]
      /\ Moves(Pairs, h, k, <<p, fd>>, NULL)
  <2>1. NULL \in OpenFile \cup {NULL} /\ of \in Tables
    BY <1>1
  <2>2. SetAt(of, new, p, fd, NULL)
    BY <2>1 DEF Tables, SetAt
  <2>3. Moves(Pairs, h, k, <<p, fd>>, NULL) /\ h \in [Pairs -> OpenFile \cup {NULL}] /\ h[<<p, fd>>] = of[p][fd]
    BY <2>1, <2>2, FlatMoves
  <2> QED BY <2>2, <2>3 DEF SetAt, Moves
<1> HIDE DEF h, k
<1>3. o \in OpenFile
  BY <1>2
<1>4. r[o] \in Nat \ {0}
  <2>1. Count(Pairs, h, o) # 0
    BY <1>2, PairsFinite, CountType
  <2> QED BY <1>1, <1>3, <2>1
<1>5. fl[o] \in File
  BY <1>1, <1>3, <1>4
<1>6. ASSUME NEW x \in OpenFile
      PROVE  Count(Pairs, k, x) = r[x] - Bump(o, x)
  <2>1. Count(Pairs, k, x) = Count(Pairs, h, x) - Bump(o, x) + Bump(NULL, x)
    BY <1>2, PairsFinite, CountMoves
  <2>2. Bump(NULL, x) = 0 /\ Count(Pairs, h, x) = r[x] /\ r[x] \in Nat
    BY <1>1, FilesAssumption DEF Bump
  <2> QED BY <2>1, <2>2 DEF Bump
<1>7. fl2 \in [OpenFile -> File \cup {NULL}]
      /\ \A x \in OpenFile : fl2[x] = IF x = o /\ r[o] = 1 THEN NULL ELSE fl[x]
  BY <1>1
<1>8. \A x \in OpenFile : /\ r2[x] = Count(Pairs, k, x)
                          /\ fl2[x] = NULL <=> r2[x] = 0
  BY <1>1, <1>3, <1>4, <1>6, <1>7 DEF Bump
<1>9. \A d, e \in Pairs : k[d] = k[e] /\ k[d] # NULL => d[1] = e[1]
  BY <1>1, <1>2
<1>10. r2 \in [OpenFile -> Nat]
  BY <1>1, <1>3, <1>4
<1> QED BY <1>2, <1>3, <1>4, <1>5, <1>7, <1>8, <1>9, <1>10 DEF CountedFds, k

\* A free descriptor of the same process shares an open file.
LEMMA FdShares ==
    ASSUME NEW of, NEW fl, NEW r, CountedFds(of, fl, r),
           NEW p \in Proc, NEW fd \in Fd, of[p][fd] = NULL,
           NEW e \in Fd, NEW o, o = of[p][e], o # NULL,
           NEW new, new = [of EXCEPT ![p][fd] = o], NEW r2, r2 = [r EXCEPT ![o] = r[o] + 1]
    PROVE  CountedFds(new, fl, r2)
<1> DEFINE h == Flat(of)
           k == Flat(new)
<1>1. /\ of \in Tables /\ fl \in [OpenFile -> File \cup {NULL}] /\ r \in [OpenFile -> Nat]
      /\ \A x \in OpenFile : r[x] = Count(Pairs, h, x) /\ (fl[x] = NULL <=> r[x] = 0)
      /\ \A d, c \in Pairs : h[d] = h[c] /\ h[d] # NULL => d[1] = c[1]
  BY DEF CountedFds
<1>2. o \in OpenFile /\ <<p, e>> \in Pairs /\ h[<<p, e>>] = o
  BY <1>1 DEF Tables, Pairs, Flat
<1>3. /\ new \in Tables /\ <<p, fd>> \in Pairs
      /\ h \in [Pairs -> OpenFile \cup {NULL}] /\ h[<<p, fd>>] = NULL
      /\ \A d \in Pairs : k[d] = IF d = <<p, fd>> THEN o ELSE h[d]
      /\ Moves(Pairs, h, k, <<p, fd>>, o)
  <2>1. o \in OpenFile \cup {NULL} /\ of \in Tables
    BY <1>1, <1>2
  <2>2. SetAt(of, new, p, fd, o)
    BY <2>1 DEF Tables, SetAt
  <2>3. Moves(Pairs, h, k, <<p, fd>>, o) /\ h \in [Pairs -> OpenFile \cup {NULL}] /\ h[<<p, fd>>] = of[p][fd]
    BY <2>1, <2>2, FlatMoves
  <2> QED BY <2>2, <2>3 DEF SetAt, Moves
<1> HIDE DEF h, k
<1>4. ASSUME NEW x \in OpenFile
      PROVE  Count(Pairs, k, x) = r[x] + Bump(o, x)
  <2>1. Count(Pairs, k, x) = Count(Pairs, h, x) - Bump(NULL, x) + Bump(o, x)
    BY <1>3, PairsFinite, CountMoves
  <2>2. Bump(NULL, x) = 0 /\ Count(Pairs, h, x) = r[x] /\ r[x] \in Nat
    BY <1>1, FilesAssumption DEF Bump
  <2> QED BY <2>1, <2>2 DEF Bump
<1>5. r[o] \in Nat \ {0}
  <2>1. Count(Pairs, h, o) # 0
    BY <1>2, PairsFinite, CountType
  <2> QED BY <1>1, <1>2, <2>1
<1>6. \A x \in OpenFile : /\ r2[x] = Count(Pairs, k, x)
                          /\ fl[x] = NULL <=> r2[x] = 0
  BY <1>1, <1>4, <1>5 DEF Bump
<1>7. \A d, c \in Pairs : k[d] = k[c] /\ k[d] # NULL => d[1] = c[1]
  <2>1. <<p, fd>>[1] = p /\ <<p, e>>[1] = p
    OBVIOUS
  <2>2. ASSUME NEW d \in Pairs, k[d] = o PROVE d[1] = p
    <3>1. CASE d = <<p, fd>>
      BY <2>1, <3>1
    <3>2. CASE d # <<p, fd>>
      <4>1. h[d] = o
        BY <1>3, <2>2, <3>2
      <4> QED BY <1>1, <1>2, <2>1, <4>1
    <3> QED BY <3>1, <3>2
  <2>3. ASSUME NEW d \in Pairs, k[d] # o PROVE k[d] = h[d]
    BY <1>3, <2>3
  <2> QED BY <1>1, <2>2, <2>3
<1>8. r2 \in [OpenFile -> Nat]
  BY <1>1, <1>2, <1>5
<1> QED BY <1>1, <1>3, <1>6, <1>7, <1>8 DEF CountedFds, k

\* A process forgets its open files, as the child of a fork that fails: they are
\* freed, since no other process has them.
Forgets(of, fl, r, c, made, new, fl2, r2) ==
    /\ made = {of[c][fd] : fd \in Fd} \ {NULL}
    /\ new = [of EXCEPT ![c] = NoFiles]
    /\ fl2 = [o \in OpenFile |-> IF o \in made THEN NULL ELSE fl[o]]
    /\ r2 = [o \in OpenFile |-> IF o \in made THEN 0 ELSE r[o]]

LEMMA FdsForgotten ==
    ASSUME NEW of, NEW fl, NEW r, CountedFds(of, fl, r), NEW c \in Proc,
           NEW made, NEW new, NEW fl2, NEW r2, Forgets(of, fl, r, c, made, new, fl2, r2)
    PROVE  CountedFds(new, fl2, r2)
<1> DEFINE h == Flat(of)
           k == Flat(new)
<1>0. /\ made = {of[c][fd] : fd \in Fd} \ {NULL}
      /\ new = [of EXCEPT ![c] = NoFiles]
      /\ fl2 = [o \in OpenFile |-> IF o \in made THEN NULL ELSE fl[o]]
      /\ r2 = [o \in OpenFile |-> IF o \in made THEN 0 ELSE r[o]]
  BY DEF Forgets
<1>1. /\ of \in Tables /\ fl \in [OpenFile -> File \cup {NULL}] /\ r \in [OpenFile -> Nat]
      /\ \A x \in OpenFile : r[x] = Count(Pairs, h, x) /\ (fl[x] = NULL <=> r[x] = 0)
      /\ \A d, e \in Pairs : h[d] = h[e] /\ h[d] # NULL => d[1] = e[1]
  BY DEF CountedFds
<1>2. new \in Tables
  BY <1>0, <1>1 DEF Tables, NoFiles
<1>3. \A d \in Pairs : d[1] \in Proc /\ d[2] \in Fd /\ <<c, d[2]>> \in Pairs
  BY DEF Pairs
<1>4. ASSUME NEW d \in Pairs
      PROVE  /\ h[d] = of[d[1]][d[2]] /\ h[d] \in OpenFile \cup {NULL}
             /\ k[d] = IF d[1] = c THEN NULL ELSE h[d]
             /\ d[1] = c /\ h[d] # NULL => h[d] \in made
  <2>1. h[d] = of[d[1]][d[2]] /\ k[d] = new[d[1]][d[2]]
    BY DEF Flat
  <2>2. d[1] \in Proc /\ d[2] \in Fd
    BY <1>3
  <2>3. /\ of[d[1]][d[2]] \in OpenFile \cup {NULL}
        /\ new[d[1]][d[2]] = IF d[1] = c THEN NULL ELSE of[d[1]][d[2]]
        /\ d[1] = c /\ of[d[1]][d[2]] # NULL => of[d[1]][d[2]] \in made
    BY <1>0, <1>1, <2>2 DEF Tables, NoFiles
  <2> HIDE DEF h, k
  <2> QED BY <2>1, <2>3
<1>5. ASSUME NEW x \in made PROVE x # NULL /\ \E d \in Pairs : d[1] = c /\ h[d] = x
  <2>1. PICK e \in Fd : x = of[c][e] /\ x # NULL
    BY <1>0
  <2>2. <<c, e>> \in Pairs /\ h[<<c, e>>] = of[c][e] /\ <<c, e>>[1] = c
    BY DEF Pairs, Flat
  <2> QED BY <2>1, <2>2
<1> HIDE DEF h, k
<1>6. ASSUME NEW x \in OpenFile PROVE r2[x] = Count(Pairs, k, x)
  <2>1. CASE x \in made
    <3>1. ASSUME NEW d \in Pairs, k[d] = x PROVE FALSE
      <4>1. PICK e \in Pairs : e[1] = c /\ h[e] = x /\ x # NULL
        BY <1>5, <2>1
      <4>2. d[1] # c /\ h[d] = x
        BY <1>4, <3>1, <4>1
      <4> QED BY <1>1, <4>1, <4>2
    <3>2. Count(Pairs, k, x) = 0
      BY <3>1, CountType, PairsFinite
    <3> QED BY <1>0, <2>1, <3>2
  <2>2. CASE x \notin made
    <3>1. \A d \in Pairs : k[d] = x <=> h[d] = x
      BY <1>4, <2>2, FilesAssumption
    <3>2. {d \in Pairs : k[d] = x} = {d \in Pairs : h[d] = x}
      BY <3>1
    <3> QED BY <1>0, <1>1, <2>2, <3>2 DEF Count
  <2> QED BY <2>1, <2>2
<1>7. \A x \in OpenFile : fl2[x] = NULL <=> r2[x] = 0
  BY <1>0, <1>1
<1>8. \A d, e \in Pairs : k[d] = k[e] /\ k[d] # NULL => d[1] = e[1]
  BY <1>1, <1>4
<1>9. fl2 \in [OpenFile -> File \cup {NULL}] /\ r2 \in [OpenFile -> Nat]
  BY <1>0, <1>1
<1> QED BY <1>2, <1>6, <1>7, <1>8, <1>9 DEF CountedFds, k

\* The descriptors of an open file are of one process, which has so many.
LEMMA FdsBounded ==
    ASSUME NEW of, NEW fl, NEW r, CountedFds(of, fl, r), NEW o \in OpenFile
    PROVE  r[o] \in 0 .. MAX_OPEN_FILES
<1> DEFINE h == Flat(of)
           A == {d \in Pairs : h[d] = o}
<1>1. r[o] = Cardinality(A) /\ r[o] \in Nat
  BY DEF CountedFds, Count
<1>2. \A d, e \in A : d[1] = e[1]
  BY FilesAssumption DEF CountedFds
<1>3. CASE A = {}
  BY <1>1, <1>3, FS_EmptySet, FilesAssumption
<1>4. CASE A # {}
  <2>1. PICK e \in A : TRUE
    BY <1>4
  <2> DEFINE p == e[1]
  <2>2. A \subseteq {p} \X Fd /\ p \in Proc
    BY <1>2, <2>1 DEF Pairs
  <2> HIDE DEF p
  <2>3. IsFiniteSet({p}) /\ Cardinality({p}) = 1
    BY FS_Singleton
  <2>4. IsFiniteSet({p} \X Fd) /\ Cardinality({p} \X Fd) = 1 * MAX_OPEN_FILES
    BY <2>3, PairsFinite, FS_Product
  <2>5. Cardinality(A) <= Cardinality({p} \X Fd)
    <3> HIDE DEF A
    <3> QED BY <2>2, <2>4, FS_Subset
  <2> HIDE DEF A
  <2>6. 1 * MAX_OPEN_FILES = MAX_OPEN_FILES /\ MAX_OPEN_FILES \in Nat
    BY FilesAssumption
  <2> QED BY <1>1, <2>4, <2>5, <2>6
<1> QED BY <1>3, <1>4

-----------------------------------------------------------------------------
(* Files and those who use them.                                            *)

\* NoFileLeaks, as it is of any open files, working directories and counts.
CountedFiles(fl, cw, fr, l) ==
    /\ fl \in [OpenFile -> File \cup {NULL}] /\ cw \in [Proc -> {NULL, Directory}]
    /\ fr \in [File -> Nat] /\ l \in Nat
    /\ \A f \in File :
          fr[f] = Count(OpenFile, fl, f) + Count(Proc, cw, f)
                  + (IF f \in TableFile THEN 1 ELSE 0) + (IF f = Directory THEN l ELSE 0)

\* The counts once a user of y uses x instead; either may be NULL.
Shifted(fr, fr2, y, x) ==
    /\ fr2 \in [File -> Int]
    /\ \A f \in File : fr2[f] = fr[f] - Bump(y, f) + Bump(x, f)

LEMMA RefShifts ==
    ASSUME NEW fr \in [File -> Int], NEW x \in File \cup {NULL}, NEW fr2, fr2 = Ref(fr, x)
    PROVE  Shifted(fr, fr2, NULL, x)
BY NullIsNoFile DEF Ref, Shifted, Bump

LEMMA UnrefShifts ==
    ASSUME NEW fr \in [File -> Int], NEW y \in File \cup {NULL}, NEW fr2, fr2 = Unref(fr, y)
    PROVE  Shifted(fr, fr2, y, NULL)
BY NullIsNoFile DEF Unref, Shifted, Bump

LEMMA ShiftsAdd ==
    ASSUME NEW fr, NEW fr1, NEW fr2, NEW x, NEW y, fr \in [File -> Int],
           \/ Shifted(fr, fr1, y, NULL) /\ Shifted(fr1, fr2, NULL, x)
           \/ Shifted(fr, fr1, NULL, x) /\ Shifted(fr1, fr2, y, NULL)
    PROVE  Shifted(fr, fr2, y, x)
BY NullIsNoFile DEF Shifted, Bump

\* An open file gets another file, or none.
LEMMA FileMoves ==
    ASSUME NEW fl, NEW cw, NEW fr, NEW l, CountedFiles(fl, cw, fr, l),
           NEW o \in OpenFile, NEW x \in File \cup {NULL},
           NEW fl2, fl2 = [fl EXCEPT ![o] = x], NEW fr2, Shifted(fr, fr2, fl[o], x)
    PROVE  CountedFiles(fl2, cw, fr2, l)
<1>1. fl \in [OpenFile -> File \cup {NULL}] /\ fr \in [File -> Nat] /\ l \in Nat
  BY DEF CountedFiles
<1>2. fl2 \in [OpenFile -> File \cup {NULL}] /\ Moves(OpenFile, fl, fl2, o, x)
  BY <1>1 DEF Moves
<1>3. ASSUME NEW f \in File
      PROVE  /\ fr2[f] \in Nat
             /\ fr2[f] = Count(OpenFile, fl2, f) + Count(Proc, cw, f)
                  + (IF f \in TableFile THEN 1 ELSE 0) + (IF f = Directory THEN l ELSE 0)
  <2>1. Count(OpenFile, fl2, f) = Count(OpenFile, fl, f) - Bump(fl[o], f) + Bump(x, f)
    BY <1>2, CountMoves, FilesAssumption
  <2>2. Count(OpenFile, fl, f) \in Nat /\ Count(OpenFile, fl2, f) \in Nat /\ Count(Proc, cw, f) \in Nat
    BY CountType, FilesAssumption
  <2>3. fr[f] = Count(OpenFile, fl, f) + Count(Proc, cw, f)
                + (IF f \in TableFile THEN 1 ELSE 0) + (IF f = Directory THEN l ELSE 0)
    BY DEF CountedFiles
  <2>4. fr2[f] = fr[f] - Bump(fl[o], f) + Bump(x, f)
    BY DEF Shifted
  <2>5. Bump(fl[o], f) \in Nat /\ Bump(x, f) \in Nat
    BY DEF Bump
  <2> QED BY <1>1, <2>1, <2>2, <2>3, <2>4, <2>5
<1>4. fr2 \in [File -> Nat]
  BY <1>3 DEF Shifted
<1> QED BY <1>2, <1>3, <1>4 DEF CountedFiles

\* A process gets another working directory, or none.
LEMMA CwdMoves ==
    ASSUME NEW fl, NEW cw, NEW fr, NEW l, CountedFiles(fl, cw, fr, l),
           NEW p \in Proc, NEW x \in {NULL, Directory},
           NEW cw2, cw2 = [cw EXCEPT ![p] = x], NEW fr2, Shifted(fr, fr2, cw[p], x)
    PROVE  CountedFiles(fl, cw2, fr2, l)
<1>1. cw \in [Proc -> {NULL, Directory}] /\ fr \in [File -> Nat] /\ l \in Nat
  BY DEF CountedFiles
<1>2. cw2 \in [Proc -> {NULL, Directory}] /\ Moves(Proc, cw, cw2, p, x)
  BY <1>1 DEF Moves
<1>3. ASSUME NEW f \in File
      PROVE  /\ fr2[f] \in Nat
             /\ fr2[f] = Count(OpenFile, fl, f) + Count(Proc, cw2, f)
                  + (IF f \in TableFile THEN 1 ELSE 0) + (IF f = Directory THEN l ELSE 0)
  <2>1. Count(Proc, cw2, f) = Count(Proc, cw, f) - Bump(cw[p], f) + Bump(x, f)
    BY <1>2, CountMoves, FilesAssumption
  <2>2. Count(OpenFile, fl, f) \in Nat /\ Count(Proc, cw2, f) \in Nat /\ Count(Proc, cw, f) \in Nat
    BY CountType, FilesAssumption
  <2>3. fr[f] = Count(OpenFile, fl, f) + Count(Proc, cw, f)
                + (IF f \in TableFile THEN 1 ELSE 0) + (IF f = Directory THEN l ELSE 0)
    BY DEF CountedFiles
  <2>4. fr2[f] = fr[f] - Bump(cw[p], f) + Bump(x, f)
    BY DEF Shifted
  <2>5. Bump(cw[p], f) \in Nat /\ Bump(x, f) \in Nat
    BY DEF Bump
  <2> QED BY <1>1, <2>1, <2>2, <2>3, <2>4, <2>5
<1>4. fr2 \in [File -> Nat]
  BY <1>3 DEF Shifted
<1> QED BY <1>2, <1>3, <1>4 DEF CountedFiles

\* Several open files are freed at once.
LEMMA FilesForgotten ==
    ASSUME NEW fl, NEW cw, NEW fr, NEW l, CountedFiles(fl, cw, fr, l),
           NEW made, made \subseteq OpenFile,
           NEW fl2, fl2 = [o \in OpenFile |-> IF o \in made THEN NULL ELSE fl[o]],
           NEW fr2,
           fr2 = [f \in File |-> fr[f] - Cardinality({o \in made : fl[o] = f})]
    PROVE  CountedFiles(fl2, cw, fr2, l)
<1>1. fl \in [OpenFile -> File \cup {NULL}] /\ fr \in [File -> Nat] /\ l \in Nat
  BY DEF CountedFiles
<1>2. fl2 \in [OpenFile -> File \cup {NULL}]
  BY <1>1
<1>3. ASSUME NEW f \in File
      PROVE  /\ fr2[f] \in Nat
             /\ fr2[f] = Count(OpenFile, fl2, f) + Count(Proc, cw, f)
                  + (IF f \in TableFile THEN 1 ELSE 0) + (IF f = Directory THEN l ELSE 0)
  <2> DEFINE A == {o \in OpenFile : fl[o] = f}
             B == {o \in made : fl[o] = f}
             C == {o \in OpenFile : fl2[o] = f}
  <2>1. C = A \ B /\ B \subseteq A /\ A \subseteq OpenFile /\ A \cap B = B
    BY NullIsNoFile
  <2>2. fr2[f] = fr[f] - Cardinality(B)
    OBVIOUS
  <2> HIDE DEF A, B, C
  <2>3. IsFiniteSet(A) /\ IsFiniteSet(B)
    BY <2>1, FS_Subset, FilesAssumption
  <2>4. Cardinality(C) = Cardinality(A) - Cardinality(B)
    <3>1. Cardinality(A \ B) = Cardinality(A) - Cardinality(A \cap B)
      BY <2>3, FS_Difference
    <3>2. Cardinality(A \ B) = Cardinality(C) /\ Cardinality(A \cap B) = Cardinality(B)
      BY <2>1
    <3> QED BY <3>1, <3>2
  <2>5. Cardinality(A) \in Nat /\ Cardinality(B) \in Nat /\ Cardinality(C) \in Nat
    BY <2>1, <2>3, FS_Difference, FS_CardinalityType
  <2>6. Count(OpenFile, fl, f) = Cardinality(A) /\ Count(OpenFile, fl2, f) = Cardinality(C)
    BY DEF Count, A, C
  <2>7. fr[f] = Count(OpenFile, fl, f) + Count(Proc, cw, f)
                + (IF f \in TableFile THEN 1 ELSE 0) + (IF f = Directory THEN l ELSE 0)
    BY DEF CountedFiles
  <2>8. Count(Proc, cw, f) \in Nat
    BY CountType, FilesAssumption
  <2> QED BY <1>1, <2>2, <2>4, <2>5, <2>6, <2>7, <2>8
<1>4. fr2 \in [File -> Nat]
  BY <1>3
<1> QED BY <1>2, <1>3, <1>4 DEF CountedFiles

\* A failed fork loses the working directory of its child.
LEMMA CwdLost ==
    ASSUME NEW fl, NEW cw, NEW fr, NEW l, CountedFiles(fl, cw, fr, l), NEW c \in Proc,
           NEW cw2, cw2 = [cw EXCEPT ![c] = NULL],
           NEW l2, l2 = IF cw[c] = NULL THEN l ELSE l + 1
    PROVE  CountedFiles(fl, cw2, fr, l2)
<1>1. cw \in [Proc -> {NULL, Directory}] /\ fr \in [File -> Nat] /\ l \in Nat
  BY DEF CountedFiles
<1>2. cw2 \in [Proc -> {NULL, Directory}] /\ Moves(Proc, cw, cw2, c, NULL) /\ l2 \in Nat
  BY <1>1 DEF Moves
<1>3. ASSUME NEW f \in File
      PROVE  fr[f] = Count(OpenFile, fl, f) + Count(Proc, cw2, f)
                  + (IF f \in TableFile THEN 1 ELSE 0) + (IF f = Directory THEN l2 ELSE 0)
  <2>1. Count(Proc, cw2, f) = Count(Proc, cw, f) - Bump(cw[c], f) + Bump(NULL, f)
    BY <1>2, CountMoves, FilesAssumption
  <2>2. Count(OpenFile, fl, f) \in Nat /\ Count(Proc, cw2, f) \in Nat /\ Count(Proc, cw, f) \in Nat
    BY CountType, FilesAssumption
  <2>3. fr[f] = Count(OpenFile, fl, f) + Count(Proc, cw, f)
                + (IF f \in TableFile THEN 1 ELSE 0) + (IF f = Directory THEN l ELSE 0)
    BY DEF CountedFiles
  <2>4. Bump(NULL, f) = 0 /\ (IF f = Directory THEN l2 ELSE 0) = (IF f = Directory THEN l ELSE 0) + Bump(cw[c], f)
    BY <1>1, NullIsNoFile DEF Bump
  <2>5. Bump(cw[c], f) \in Nat
    BY DEF Bump
  <2> QED BY <1>1, <2>1, <2>2, <2>3, <2>4, <2>5
<1> QED BY <1>1, <1>2, <1>3 DEF CountedFiles

-----------------------------------------------------------------------------
(* The inductive invariant.                                                 *)

PlainTypes ==
    /\ at \in [Proc -> {"unborn", "embryo", "run", "fork", "exit", "dead"}]
    /\ pipes \subseteq Pipe
    /\ child \in [Proc -> Proc \cup {NULL}]
    /\ next_fd \in [Proc -> 0 .. MAX_OPEN_FILES]
    /\ panicked \in BOOLEAN

\* A process that forks has a child of its own, which has its working directory
\* and no open files from next_fd on; a process not yet born has nothing.
ForkInv ==
    /\ \A p \in Proc : at[p] = "fork" =>
          /\ child[p] \in Proc /\ at[child[p]] = "embryo" /\ cwd[child[p]] = cwd[p]
          /\ \A fd \in Fd : fd >= next_fd[p] => open_files[child[p]][fd] = NULL
    /\ \A p, q \in Proc : at[p] = "fork" /\ at[q] = "fork" /\ child[p] = child[q] => p = q
    /\ \A c \in Proc : at[c] = "unborn" => open_files[c] = NoFiles /\ cwd[c] = NULL

\* No file of a pipe that is not created yet is in use.
PipesInv == \A o \in OpenFile : file[o] \in PipeFile => file[o][1] \in pipes

\* Each fork that failed left a process that is dead.
LostInv == lost <= Count(Proc, at, "dead")

FilesInv ==
    /\ PlainTypes
    /\ CountedFds(open_files, file, open_refs)
    /\ CountedFiles(file, cwd, file_refs, lost)
    /\ ForkInv
    /\ PipesInv
    /\ LostInv

LEMMA FileFacts ==
    /\ NULL \notin File /\ TableFile \subseteq File /\ PipeFile \cap TableFile = {}
    /\ Directory \in TableFile
    /\ \A k \in Pipe : /\ ReadEnd(k) \in PipeFile /\ WriteEnd(k) \in PipeFile
                       /\ ReadEnd(k) \in File /\ WriteEnd(k) \in File
                       /\ ReadEnd(k) # WriteEnd(k)
                       /\ ReadEnd(k)[1] = k /\ WriteEnd(k)[1] = k
<1>1. \A f \in PipeFile : f[2] \in {"PIPE_READ", "PIPE_WRITE"}
  BY DEF PipeFile
<1>2. \A f \in TableFile : f[2] \in {"FILE_DIRECTORY", "FILE_SPECIAL"}
  BY DEF TableFile
<1>3. PipeFile \cap TableFile = {}
  BY <1>1, <1>2
<1>4. \A k \in Pipe : /\ ReadEnd(k) \in PipeFile /\ WriteEnd(k) \in PipeFile
                      /\ ReadEnd(k) # WriteEnd(k)
                      /\ ReadEnd(k)[1] = k /\ WriteEnd(k)[1] = k
  BY DEF ReadEnd, WriteEnd, PipeFile
<1>5. Directory \in TableFile
  BY DEF Directory, TableFile
<1> QED BY <1>3, <1>4, <1>5, NullIsNoFile DEF File

\* What a descriptor in use points to.
LEMMA FdUsed ==
    ASSUME NEW of, NEW fl, NEW r, CountedFds(of, fl, r),
           NEW p \in Proc, NEW fd \in Fd, of[p][fd] # NULL
    PROVE  of[p][fd] \in OpenFile /\ fl[of[p][fd]] \in File /\ r[of[p][fd]] \in Nat \ {0}
<1>1. of[p][fd] \in OpenFile
  BY DEF CountedFds, Tables
<1>2. <<p, fd>> \in Pairs /\ Flat(of)[<<p, fd>>] = of[p][fd]
  BY DEF Pairs, Flat
<1>3. Count(Pairs, Flat(of), of[p][fd]) # 0
  BY <1>2, CountType, PairsFinite
<1>4. r[of[p][fd]] \in Nat \ {0}
  BY <1>1, <1>3 DEF CountedFds
<1> QED BY <1>1, <1>4 DEF CountedFds

LEMMA DeadGrows ==
    ASSUME NEW f, NEW g, \A p \in Proc : f[p] = "dead" => g[p] = "dead"
    PROVE  /\ Count(Proc, f, "dead") \in Nat /\ Count(Proc, g, "dead") \in Nat
           /\ Count(Proc, f, "dead") <= Count(Proc, g, "dead")
           /\ \A c \in Proc : f[c] # "dead" /\ g[c] = "dead" =>
                Count(Proc, f, "dead") + 1 <= Count(Proc, g, "dead")
<1> DEFINE A == {p \in Proc : f[p] = "dead"}
           B == {p \in Proc : g[p] = "dead"}
<1>1. A \subseteq B /\ B \subseteq Proc
  OBVIOUS
<1>2. Count(Proc, f, "dead") = Cardinality(A) /\ Count(Proc, g, "dead") = Cardinality(B)
  BY DEF Count
<1>3. \A c \in Proc : f[c] # "dead" /\ g[c] = "dead" => c \in B /\ c \notin A
  OBVIOUS
<1> HIDE DEF A, B
<1>4. IsFiniteSet(B) /\ IsFiniteSet(A) /\ Cardinality(A) <= Cardinality(B)
      /\ (Cardinality(A) = Cardinality(B) => A = B)
  <2>1. IsFiniteSet(B)
    BY <1>1, FS_Subset, FilesAssumption
  <2> QED BY <1>1, <2>1, FS_Subset
<1>5. Cardinality(A) \in Nat /\ Cardinality(B) \in Nat
  BY <1>4, FS_CardinalityType
<1> QED BY <1>2, <1>3, <1>4, <1>5

\* A process that neither forks nor waits to be born changes what is its own.
LEMMA OwnStep ==
    ASSUME ForkInv, NEW p \in Proc, at[p] \in {"run", "exit"},
           UNCHANGED <<at, child>>,
           \A q \in Proc : q # p => /\ next_fd'[q] = next_fd[q] /\ cwd'[q] = cwd[q]
                                    /\ open_files'[q] = open_files[q]
    PROVE  ForkInv'
<1>1. \A q \in Proc : at[q] = "fork" => q # p /\ child[q] \in Proc /\ child[q] # p
  BY DEF ForkInv
<1>2. \A c \in Proc : at[c] = "unborn" => c # p
  OBVIOUS
<1> QED BY <1>1, <1>2 DEF ForkInv

-----------------------------------------------------------------------------
(* The steps.                                                               *)

LEMMA OpenStep ==
    ASSUME FilesInv, NEW p \in Proc, NEW f \in TableFile, sys_open(p, f)
    PROVE  FilesInv'
<1>1. PICK fd \in Fd, o \in OpenFile :
         /\ IsFreeFd(p, fd, {}) /\ IsFree(o)
         /\ file' = [file EXCEPT ![o] = f]
         /\ open_refs' = [open_refs EXCEPT ![o] = 1]
         /\ file_refs' = Ref(file_refs, f)
         /\ SetFd(p, fd, o)
  BY DEF sys_open
<1>2. UNCHANGED <<at, cwd, pipes, child, next_fd, panicked, lost>> /\ at[p] = "run"
  BY DEF sys_open, At
<1>3. f \in File /\ f \notin PipeFile
  BY FileFacts
<1>4. file[o] = NULL /\ open_files[p][fd] = NULL /\ open_files' = [open_files EXCEPT ![p][fd] = o]
  BY <1>1 DEF IsFree, IsFreeFd, Has, SetFd
<1>5. CountedFds(open_files', file', open_refs')
  <2>1. CountedFds(open_files, file, open_refs)
    BY DEF FilesInv
  <2>2. Opens(open_files, file, open_refs, p, fd, o, f, open_files', file', open_refs')
    BY <1>1, <1>4 DEF Opens
  <2> QED BY <1>3, <1>4, <2>1, <2>2, FdOpens
<1>6. CountedFiles(file', cwd', file_refs', lost')
  <2>1. Shifted(file_refs, file_refs', NULL, f)
    BY <1>1, <1>3, RefShifts DEF FilesInv, CountedFiles
  <2>2. CountedFiles(file, cwd, file_refs, lost) /\ file' = [file EXCEPT ![o] = f]
    BY <1>1 DEF FilesInv
  <2>3. CountedFiles(file', cwd, file_refs', lost)
    BY <1>3, <1>4, <2>1, <2>2, FileMoves
  <2> QED BY <1>2, <2>3
<1>7. ForkInv'
  BY <1>2, <1>4, OwnStep DEF FilesInv, CountedFds, Tables
<1>8. PipesInv'
  BY <1>1, <1>2, <1>3 DEF FilesInv, PipesInv, CountedFds
<1> QED BY <1>2, <1>5, <1>6, <1>7, <1>8 DEF FilesInv, PlainTypes, LostInv

\* sys_close and the steps of sys_exit.
LEMMA Closes ==
    ASSUME FilesInv, NEW p \in Proc, NEW fd \in Fd, open_files[p][fd] # NULL, Close(p, fd)
    PROVE  /\ CountedFds(open_files', file', open_refs')
           /\ CountedFiles(file', cwd, file_refs', lost)
           /\ \A o \in OpenFile : file'[o] \in {file[o], NULL}
           /\ \A q \in Proc : q # p => open_files'[q] = open_files[q]
<1> DEFINE o == open_files[p][fd]
<1>1. o \in OpenFile /\ file[o] \in File /\ open_refs[o] \in Nat \ {0}
  BY FdUsed DEF FilesInv
<1>2. /\ open_files' = [open_files EXCEPT ![p][fd] = NULL]
      /\ open_refs' = [open_refs EXCEPT ![o] = open_refs[o] - 1]
      /\ file' = IF open_refs[o] = 1 THEN [file EXCEPT ![o] = NULL] ELSE file
      /\ file_refs' = IF open_refs[o] = 1 THEN Unref(file_refs, file[o]) ELSE file_refs
  BY DEF Close, SetFd, open_file_unref
<1>3. CountedFds(open_files', file', open_refs')
  BY <1>2, FdCloses DEF FilesInv
<1>4. CountedFiles(file', cwd, file_refs', lost)
  <2>1. CASE open_refs[o] # 1
    BY <1>2, <2>1 DEF FilesInv
  <2>2. CASE open_refs[o] = 1
    <3>1. Shifted(file_refs, file_refs', file[o], NULL)
      BY <1>1, <1>2, <2>2, UnrefShifts DEF FilesInv, CountedFiles
    <3> HIDE DEF o
    <3> QED BY <1>1, <1>2, <2>2, <3>1, FileMoves DEF FilesInv
  <2> QED BY <2>1, <2>2
<1>5. \A x \in OpenFile : file'[x] \in {file[x], NULL}
  BY <1>2 DEF FilesInv, CountedFds
<1>6. \A q \in Proc : q # p => open_files'[q] = open_files[q]
  BY <1>2 DEF FilesInv, CountedFds, Tables
<1> QED BY <1>3, <1>4, <1>5, <1>6

LEMMA CloseStep ==
    ASSUME FilesInv, NEW p \in Proc, NEW fd \in Fd, sys_close(p, fd)
    PROVE  FilesInv'
<1>1. /\ open_files[p][fd] # NULL /\ Close(p, fd) /\ at[p] = "run"
      /\ UNCHANGED <<at, cwd, pipes, child, next_fd, panicked, lost>>
  BY DEF sys_close, At, Has
<1>2. /\ CountedFds(open_files', file', open_refs')
      /\ CountedFiles(file', cwd, file_refs', lost)
      /\ \A o \in OpenFile : file'[o] \in {file[o], NULL}
      /\ \A q \in Proc : q # p => open_files'[q] = open_files[q]
  BY <1>1, Closes
<1>3. ForkInv'
  BY <1>1, <1>2, OwnStep DEF FilesInv
<1>4. PipesInv'
  BY <1>1, <1>2, FileFacts DEF FilesInv, PipesInv, File
<1> QED BY <1>1, <1>2, <1>3, <1>4 DEF FilesInv, PlainTypes, LostInv

LEMMA Dup2ClosesStep ==
    ASSUME FilesInv, NEW p \in Proc, NEW old \in Fd, NEW new \in Fd, Dup2Closes(p, old, new)
    PROVE  FilesInv'
<1> DEFINE o == open_files[p][old]
           n == open_files[p][new]
<1>1. /\ o # NULL /\ n # NULL /\ old # new /\ at[p] = "run"
      /\ UNCHANGED <<at, cwd, pipes, child, next_fd, panicked, lost>>
  BY DEF Dup2Closes, At, Has
<1>2. CASE o = n
  <2>1. UNCHANGED <<file, open_refs, file_refs, open_files>>
    BY <1>2 DEF Dup2Closes
  <2> QED BY <1>1, <2>1 DEF FilesInv, PlainTypes, ForkInv, PipesInv, LostInv
<1>3. CASE o # n
  <2>1. /\ open_refs' = [open_refs EXCEPT ![n] = @ - 1, ![o] = @ + 1]
        /\ file' = IF open_refs[n] = 1 THEN [file EXCEPT ![n] = NULL] ELSE file
        /\ file_refs' = IF open_refs[n] = 1 THEN Unref(file_refs, file[n]) ELSE file_refs
        /\ open_files' = [open_files EXCEPT ![p][new] = o]
    BY <1>3 DEF Dup2Closes, SetFd
  <2>2. /\ n \in OpenFile /\ file[n] \in File /\ open_refs[n] \in Nat \ {0}
        /\ o \in OpenFile
    BY <1>1, FdUsed DEF FilesInv
  <2>3. /\ open_files \in Tables /\ file \in [OpenFile -> File \cup {NULL}]
        /\ open_refs \in [OpenFile -> Nat]
    BY DEF FilesInv, CountedFds
  <2>4. PICK of1 : of1 = [open_files EXCEPT ![p][new] = NULL]
    OBVIOUS
  <2>5. PICK r1 : r1 = [open_refs EXCEPT ![n] = open_refs[n] - 1]
    OBVIOUS
  <2>6. CountedFds(of1, file', r1)
    BY <1>1, <2>1, <2>4, <2>5, FdCloses DEF FilesInv
  <2>7. /\ of1[p][old] = o /\ of1[p][new] = NULL
        /\ open_files' = [of1 EXCEPT ![p][new] = o]
        /\ open_refs' = [r1 EXCEPT ![o] = r1[o] + 1]
    <3>1. of1[p][old] = o /\ of1[p][new] = NULL
      BY <1>1, <2>3, <2>4 DEF Tables
    <3>2. open_files' = [of1 EXCEPT ![p][new] = o]
      BY <2>1, <2>3, <2>4 DEF Tables
    <3>3. open_refs' = [r1 EXCEPT ![o] = r1[o] + 1]
      BY <1>3, <2>1, <2>2, <2>3, <2>5
    <3> QED BY <3>1, <3>2, <3>3
  <2>8. CountedFds(open_files', file', open_refs')
    <3> HIDE DEF o, n
    <3> QED BY <1>1, <2>6, <2>7, FdShares
  <2>9. CountedFiles(file', cwd', file_refs', lost')
    <3>1. CASE open_refs[n] # 1
      BY <1>1, <2>1, <3>1 DEF FilesInv
    <3>2. CASE open_refs[n] = 1
      <4>1. Shifted(file_refs, file_refs', file[n], NULL)
        BY <2>1, <2>2, <3>2, UnrefShifts DEF FilesInv, CountedFiles
      <4> HIDE DEF n
      <4> QED BY <1>1, <2>1, <2>2, <3>2, <4>1, FileMoves DEF FilesInv
    <3> QED BY <3>1, <3>2
  <2>10. ForkInv'
    BY <1>1, <2>1, <2>3, OwnStep DEF FilesInv, Tables
  <2>11. PipesInv'
    BY <1>1, <2>1, <2>3, FileFacts DEF FilesInv, PipesInv, File
  <2> QED BY <1>1, <2>8, <2>9, <2>10, <2>11 DEF FilesInv, PlainTypes, LostInv
<1> QED BY <1>2, <1>3

LEMMA Dup2Step ==
    ASSUME FilesInv, NEW p \in Proc, NEW old \in Fd, NEW new \in Fd, Dup2(p, old, new)
    PROVE  FilesInv'
<1> DEFINE o == open_files[p][old]
<1>1. /\ o # NULL /\ open_files[p][new] = NULL /\ at[p] = "run"
      /\ open_refs' = [open_refs EXCEPT ![o] = open_refs[o] + 1]
      /\ open_files' = [open_files EXCEPT ![p][new] = o]
      /\ UNCHANGED <<at, cwd, file, file_refs, pipes, child, next_fd, panicked, lost>>
  BY DEF Dup2, At, Has, Share, SetFd
<1>2. CountedFds(open_files', file, open_refs')
  BY <1>1, FdShares DEF FilesInv
<1>3. ForkInv'
  BY <1>1, OwnStep DEF FilesInv, CountedFds, Tables
<1> QED BY <1>1, <1>2, <1>3 DEF FilesInv, PlainTypes, PipesInv, LostInv

\* The files of a new pipe have no users yet: a count that starts at one is one
\* more than before.
LEMMA PipeStep ==
    ASSUME FilesInv, NEW p \in Proc, sys_pipe(p)
    PROVE  FilesInv'
<1>1. PICK r \in Fd, w \in Fd, o \in OpenFile, q \in OpenFile, k \in Pipe \ pipes :
         /\ IsFreeFd(p, r, {}) /\ IsFreeFd(p, w, {r})
         /\ IsFree(o) /\ IsFree(q) /\ o # q
         /\ file' = [file EXCEPT ![o] = ReadEnd(k), ![q] = WriteEnd(k)]
         /\ open_refs' = [open_refs EXCEPT ![o] = 1, ![q] = 1]
         /\ file_refs' = [file_refs EXCEPT ![ReadEnd(k)] = 1, ![WriteEnd(k)] = 1]
         /\ pipes' = pipes \cup {k}
         /\ open_files' = [open_files EXCEPT ![p][r] = o, ![p][w] = q]
  BY DEF sys_pipe
<1>2. at[p] = "run" /\ UNCHANGED <<at, cwd, child, next_fd, panicked, lost>>
  BY DEF sys_pipe, At
<1>3. PICK a, b : a = ReadEnd(k) /\ b = WriteEnd(k)
  OBVIOUS
<1>4. /\ a \in File /\ b \in File /\ a # b /\ a \in PipeFile /\ b \in PipeFile
      /\ a[1] = k /\ b[1] = k /\ a \notin TableFile /\ b \notin TableFile
      /\ Directory \in TableFile
  BY <1>3, FileFacts
<1>5. /\ open_files[p][r] = NULL /\ open_files[p][w] = NULL /\ w # r
      /\ file[o] = NULL /\ file[q] = NULL
  BY <1>1 DEF IsFreeFd, Has, IsFree
<1>6. /\ o # q
      /\ file' = [file EXCEPT ![o] = a, ![q] = b]
      /\ open_refs' = [open_refs EXCEPT ![o] = 1, ![q] = 1]
      /\ file_refs' = [file_refs EXCEPT ![a] = 1, ![b] = 1]
      /\ pipes' = pipes \cup {k}
      /\ open_files' = [open_files EXCEPT ![p][r] = o, ![p][w] = q]
  BY <1>1, <1>3
<1>7. /\ open_files \in Tables /\ file \in [OpenFile -> File \cup {NULL}]
      /\ open_refs \in [OpenFile -> Nat] /\ CountedFds(open_files, file, open_refs)
      /\ cwd \in [Proc -> {NULL, Directory}] /\ file_refs \in [File -> Nat]
      /\ CountedFiles(file, cwd, file_refs, lost)
  BY DEF FilesInv, CountedFds, CountedFiles
<1>8. PICK of1, fl1, r1 : /\ of1 = [open_files EXCEPT ![p][r] = o]
                          /\ fl1 = [file EXCEPT ![o] = a]
                          /\ r1 = [open_refs EXCEPT ![o] = 1]
  OBVIOUS
<1>9. CountedFds(open_files', file', open_refs')
  <2>1. CountedFds(of1, fl1, r1)
    <3>1. Opens(open_files, file, open_refs, p, r, o, a, of1, fl1, r1)
      BY <1>8 DEF Opens
    <3> QED BY <1>4, <1>5, <1>7, <3>1, FdOpens
  <2>2. Opens(of1, fl1, r1, p, w, q, b, open_files', file', open_refs')
    <3>1. open_files' = [of1 EXCEPT ![p][w] = q]
      BY <1>5, <1>6, <1>7, <1>8 DEF Tables
    <3>2. file' = [fl1 EXCEPT ![q] = b] /\ open_refs' = [r1 EXCEPT ![q] = 1]
      BY <1>6, <1>7, <1>8
    <3> QED BY <3>1, <3>2 DEF Opens
  <2>3. of1[p][w] = NULL /\ fl1[q] = NULL
    BY <1>5, <1>6, <1>7, <1>8 DEF Tables
  <2> QED BY <1>4, <2>1, <2>2, <2>3, FdOpens
<1>10. file_refs[a] = 0 /\ file_refs[b] = 0
  <2>1. \A x \in OpenFile : file[x] # a /\ file[x] # b
    BY <1>4 DEF FilesInv, PipesInv
  <2>2. \A x \in Proc : cwd[x] # a /\ cwd[x] # b
    BY <1>4, <1>7, FileFacts
  <2>3. /\ Count(OpenFile, file, a) = 0 /\ Count(OpenFile, file, b) = 0
        /\ Count(Proc, cwd, a) = 0 /\ Count(Proc, cwd, b) = 0
    BY <2>1, <2>2, CountType, FilesAssumption
  <2> QED BY <1>4, <1>7, <2>3 DEF CountedFiles
<1>11. CountedFiles(file', cwd', file_refs', lost')
  <2>1. PICK fr1 : fr1 = [file_refs EXCEPT ![a] = 1]
    OBVIOUS
  <2>2. Shifted(file_refs, fr1, file[o], a)
    BY <1>4, <1>5, <1>7, <1>10, <2>1, NullIsNoFile DEF Shifted, Bump
  <2>3. CountedFiles(fl1, cwd, fr1, lost)
    BY <1>4, <1>5, <1>7, <1>8, <2>2, FileMoves
  <2>4. fl1[q] = NULL /\ file' = [fl1 EXCEPT ![q] = b]
    BY <1>5, <1>6, <1>7, <1>8
  <2>5. Shifted(fr1, file_refs', fl1[q], b)
    BY <1>4, <1>6, <1>7, <1>10, <2>1, <2>4, NullIsNoFile DEF Shifted, Bump
  <2>6. CountedFiles(file', cwd, file_refs', lost)
    BY <1>4, <2>3, <2>4, <2>5, FileMoves
  <2> QED BY <1>2, <2>6
<1>12. ForkInv'
  <2>1. \A x \in Proc : x # p => open_files'[x] = open_files[x]
    BY <1>6, <1>7 DEF Tables
  <2> QED BY <1>2, <2>1, OwnStep DEF FilesInv
<1>13. PipesInv'
  BY <1>4, <1>6, <1>7 DEF FilesInv, PipesInv
<1> QED BY <1>2, <1>6, <1>9, <1>11, <1>12, <1>13 DEF FilesInv, PlainTypes, LostInv

LEMMA ChdirStep ==
    ASSUME FilesInv, NEW p \in Proc, NEW f \in TableFile, sys_chdir(p, f)
    PROVE  FilesInv'
<1>1. /\ at[p] = "run"
      /\ UNCHANGED <<at, open_files, file, open_refs, pipes, child, next_fd, panicked, lost>>
  BY DEF sys_chdir, At
<1>2. CASE f # Directory
  BY <1>1, <1>2 DEF sys_chdir, IsDirectory, FilesInv, PlainTypes, ForkInv, PipesInv, LostInv
<1>3. CASE f = Directory
  <2>1. cwd' = [cwd EXCEPT ![p] = f] /\ file_refs' = Unref(Ref(file_refs, f), cwd[p])
    BY <1>3 DEF sys_chdir, IsDirectory
  <2>2. /\ cwd \in [Proc -> {NULL, Directory}] /\ file_refs \in [File -> Int]
        /\ CountedFiles(file, cwd, file_refs, lost)
        /\ f \in File /\ cwd[p] \in File \cup {NULL}
    BY FileFacts DEF FilesInv, CountedFiles
  <2>3. Shifted(file_refs, file_refs', cwd[p], f)
    <3>1. PICK fr1 : fr1 = Ref(file_refs, f)
      OBVIOUS
    <3>2. Shifted(file_refs, fr1, NULL, f)
      BY <2>2, <3>1, RefShifts
    <3>3. Shifted(fr1, file_refs', cwd[p], NULL)
      BY <2>1, <2>2, <3>1, <3>2, UnrefShifts DEF Shifted
    <3> QED BY <2>2, <3>2, <3>3, ShiftsAdd
  <2>4. CountedFiles(file, cwd', file_refs', lost)
    BY <1>3, <2>1, <2>2, <2>3, CwdMoves
  <2>5. ForkInv'
    BY <1>1, <2>1, <2>2, OwnStep DEF FilesInv
  <2> QED BY <1>1, <2>4, <2>5 DEF FilesInv, PlainTypes, PipesInv, LostInv
<1> QED BY <1>2, <1>3

LEMMA FchdirStep ==
    ASSUME FilesInv, NEW p \in Proc, NEW fd \in Fd, sys_fchdir(p, fd)
    PROVE  FilesInv'
<1>1. /\ at[p] = "run"
      /\ UNCHANGED <<at, open_files, file, open_refs, pipes, child, next_fd, panicked, lost>>
  BY DEF sys_fchdir, At
<1>2. PICK f : f = FileOf(p, fd)
  OBVIOUS
<1>3. f = Directory /\ cwd' = [cwd EXCEPT ![p] = f] /\ file_refs' = Ref(Unref(file_refs, cwd[p]), f)
  BY <1>2 DEF sys_fchdir, IsDirectory
<1>4. /\ cwd \in [Proc -> {NULL, Directory}] /\ file_refs \in [File -> Int]
      /\ CountedFiles(file, cwd, file_refs, lost)
      /\ f \in File /\ cwd[p] \in File \cup {NULL}
  BY <1>3, FileFacts DEF FilesInv, CountedFiles
<1>5. Shifted(file_refs, file_refs', cwd[p], f)
  <2>1. PICK fr1 : fr1 = Unref(file_refs, cwd[p])
    OBVIOUS
  <2>2. Shifted(file_refs, fr1, cwd[p], NULL)
    BY <1>4, <2>1, UnrefShifts
  <2>3. Shifted(fr1, file_refs', NULL, f)
    BY <1>3, <1>4, <2>1, <2>2, RefShifts DEF Shifted
  <2> QED BY <1>4, <2>2, <2>3, ShiftsAdd
<1>6. CountedFiles(file, cwd', file_refs', lost)
  BY <1>3, <1>4, <1>5, CwdMoves
<1>7. ForkInv'
  BY <1>1, <1>3, <1>4, OwnStep DEF FilesInv
<1> QED BY <1>1, <1>6, <1>7 DEF FilesInv, PlainTypes, PipesInv, LostInv

LEMMA IoctlStep ==
    ASSUME FilesInv, NEW p \in Proc, NEW fd \in Fd, IoctlOrReaddirent(p, fd)
    PROVE  FilesInv'
BY DEF IoctlOrReaddirent, FilesInv, PlainTypes, ForkInv, PipesInv, LostInv

LEMMA ForkBeginStep ==
    ASSUME FilesInv, NEW p \in Proc, NEW c \in Proc, ForkBegin(p, c)
    PROVE  FilesInv'
<1>1. /\ at[p] = "run" /\ at[c] = "unborn"
      /\ at' = [at EXCEPT ![p] = "fork", ![c] = "embryo"]
      /\ child' = [child EXCEPT ![p] = c]
      /\ next_fd' = [next_fd EXCEPT ![p] = 0]
      /\ cwd' = [cwd EXCEPT ![c] = cwd[p]]
      /\ file_refs' = Ref(file_refs, cwd[p])
      /\ UNCHANGED <<open_files, file, open_refs, pipes, panicked, lost>>
  BY DEF ForkBegin, At
<1>2. /\ cwd \in [Proc -> {NULL, Directory}] /\ file_refs \in [File -> Int]
      /\ CountedFiles(file, cwd, file_refs, lost)
      /\ cwd[p] \in File \cup {NULL} /\ cwd[p] \in {NULL, Directory}
      /\ cwd[c] = NULL /\ open_files[c] = NoFiles /\ p # c
  BY <1>1, FileFacts DEF FilesInv, CountedFiles, ForkInv
<1>3. CountedFiles(file, cwd', file_refs', lost)
  <2>1. PICK x \in {NULL, Directory} : x = cwd[p]
    BY <1>2
  <2>2. Shifted(file_refs, file_refs', cwd[c], x)
    BY <1>1, <1>2, <2>1, RefShifts
  <2>3. cwd' = [cwd EXCEPT ![c] = x]
    BY <1>1, <2>1
  <2> QED BY <1>2, <2>2, <2>3, CwdMoves
<1>4. PlainTypes'
  BY <1>1, FilesAssumption DEF FilesInv, PlainTypes
<1>5. ForkInv'
  <2>1. \A x \in Proc : /\ at'[x] = IF x = c THEN "embryo" ELSE IF x = p THEN "fork" ELSE at[x]
                        /\ child'[x] = IF x = p THEN c ELSE child[x]
                        /\ next_fd'[x] = IF x = p THEN 0 ELSE next_fd[x]
                        /\ cwd'[x] = IF x = c THEN cwd[p] ELSE cwd[x]
    BY <1>1, <1>2 DEF FilesInv, PlainTypes
  <2>2. \A fd \in Fd : open_files[c][fd] = NULL
    BY <1>2 DEF NoFiles
  <2>3. ForkInv
    BY DEF FilesInv
  <2>4. \A x \in Proc : at[x] = "fork" => child[x] # c /\ child[x] # p /\ x # c /\ x # p
    BY <1>1, <2>3 DEF ForkInv
  <2>5. ASSUME NEW x \in Proc, at'[x] = "fork"
        PROVE  /\ child'[x] \in Proc /\ at'[child'[x]] = "embryo" /\ cwd'[child'[x]] = cwd'[x]
               /\ \A fd \in Fd : fd >= next_fd'[x] => open_files'[child'[x]][fd] = NULL
    <3>1. CASE x = p
      BY <1>1, <1>2, <2>1, <2>2, <3>1
    <3>2. CASE x # p
      <4>1. at[x] = "fork" /\ child'[x] = child[x] /\ next_fd'[x] = next_fd[x] /\ child[x] \in Proc
        BY <2>1, <2>3, <2>5, <3>2 DEF ForkInv
      <4>2. /\ at[child[x]] = "embryo" /\ cwd[child[x]] = cwd[x]
            /\ \A fd \in Fd : fd >= next_fd[x] => open_files[child[x]][fd] = NULL
        BY <2>3, <4>1 DEF ForkInv
      <4>3. child[x] # c /\ child[x] # p /\ x # c
        BY <2>4, <4>1
      <4> QED BY <1>1, <2>1, <4>1, <4>2, <4>3
    <3> QED BY <3>1, <3>2
  <2>6. ASSUME NEW x \in Proc, NEW y \in Proc, at'[x] = "fork", at'[y] = "fork", child'[x] = child'[y]
        PROVE  x = y
    BY <2>1, <2>3, <2>4, <2>6 DEF ForkInv
  <2>7. \A x \in Proc : at'[x] = "unborn" => open_files'[x] = NoFiles /\ cwd'[x] = NULL
    BY <1>1, <2>1, <2>3 DEF ForkInv
  <2> QED BY <2>5, <2>6, <2>7 DEF ForkInv
<1>6. LostInv'
  <2>1. \A x \in Proc : at[x] = "dead" => at'[x] = "dead"
    BY <1>1 DEF FilesInv, PlainTypes
  <2>2. /\ Count(Proc, at, "dead") \in Nat /\ Count(Proc, at', "dead") \in Nat
        /\ Count(Proc, at, "dead") <= Count(Proc, at', "dead")
    BY <2>1, DeadGrows
  <2>3. lost \in Nat /\ lost <= Count(Proc, at, "dead")
    BY DEF FilesInv, LostInv, CountedFiles
  <2> QED BY <1>1, <2>2, <2>3 DEF LostInv
<1> QED BY <1>1, <1>3, <1>4, <1>5, <1>6 DEF FilesInv, PipesInv

LEMMA CloneStep ==
    ASSUME FilesInv, NEW p \in Proc, CloneFd(p)
    PROVE  FilesInv'
<1> DEFINE n == next_fd[p]
           c == child[p]
           src == open_files[p][n]
<1>1. /\ at[p] = "fork" /\ n \in Fd
      /\ next_fd' = [next_fd EXCEPT ![p] = n + 1]
      /\ UNCHANGED <<at, cwd, pipes, child, panicked, lost>>
  BY DEF CloneFd, At
<1>2. /\ c \in Proc /\ open_files[c][n] = NULL /\ n >= n
      /\ open_files \in Tables /\ file \in [OpenFile -> File \cup {NULL}]
  BY <1>1 DEF FilesInv, ForkInv, CountedFds, Fd
<1>3. PlainTypes'
  BY <1>1, FilesAssumption DEF FilesInv, PlainTypes, Fd
<1>4. ASSUME \A x \in Proc, fd \in Fd : x # c \/ fd # n => open_files'[x][fd] = open_files[x][fd],
             \A x \in Proc : x # c => open_files'[x] = open_files[x]
      PROVE  ForkInv'
  <2>1. ForkInv /\ next_fd \in [Proc -> 0 .. MAX_OPEN_FILES]
    BY DEF FilesInv, PlainTypes
  <2>2. ASSUME NEW x \in Proc, at[x] = "fork", NEW fd \in Fd, fd >= next_fd'[x]
        PROVE  open_files'[child[x]][fd] = NULL
    <3>1. child[x] \in Proc /\ (fd >= next_fd[x] => open_files[child[x]][fd] = NULL)
      BY <2>1, <2>2 DEF ForkInv
    <3>2. CASE x = p
      BY <1>1, <1>4, <2>1, <2>2, <3>1, <3>2 DEF Fd
    <3>3. CASE x # p
      <4>1. child[x] # c
        BY <1>1, <2>1, <2>2, <3>3 DEF ForkInv
      <4> QED BY <1>1, <1>4, <2>1, <2>2, <3>1, <3>3, <4>1
    <3> QED BY <3>2, <3>3
  <2>3. at[c] = "embryo"
    BY <1>1, <2>1 DEF ForkInv
  <2> QED BY <1>1, <1>4, <2>1, <2>2, <2>3 DEF ForkInv
<1>5. CASE src = NULL
  <2>1. UNCHANGED <<file, open_refs, file_refs, open_files>>
    BY <1>5 DEF CloneFd
  <2>2. ForkInv'
    BY <1>4, <2>1
  <2> QED BY <1>1, <1>3, <2>1, <2>2 DEF FilesInv, PipesInv, LostInv
<1>6. CASE src # NULL
  <2>1. PICK f : f = file[src]
    OBVIOUS
  <2>2. src \in OpenFile /\ f \in File
    BY <1>1, <1>6, <2>1, FdUsed DEF FilesInv
  <2>3. PICK o \in OpenFile : /\ file[o] = NULL
                              /\ file' = [file EXCEPT ![o] = f]
                              /\ open_refs' = [open_refs EXCEPT ![o] = 1]
                              /\ open_files' = [open_files EXCEPT ![c][n] = o]
    BY <1>6, <2>1 DEF CloneFd, SetFd, IsFree
  <2>4. file_refs' = Ref(file_refs, f)
    BY <1>6, <2>1 DEF CloneFd, CloneRef
  <2>5. CountedFds(open_files', file', open_refs')
    <3>1. Opens(open_files, file, open_refs, c, n, o, f, open_files', file', open_refs')
      BY <2>3 DEF Opens
    <3>2. CountedFds(open_files, file, open_refs)
      BY DEF FilesInv
    <3> QED BY <1>1, <1>2, <2>2, <2>3, <3>1, <3>2, FdOpens
  <2>6. CountedFiles(file', cwd', file_refs', lost')
    <3>1. Shifted(file_refs, file_refs', file[o], f)
      BY <2>2, <2>3, <2>4, RefShifts DEF FilesInv, CountedFiles
    <3>2. CountedFiles(file, cwd, file_refs, lost)
      BY DEF FilesInv
    <3>3. CountedFiles(file', cwd, file_refs', lost)
      BY <2>2, <2>3, <3>1, <3>2, FileMoves
    <3> QED BY <1>1, <3>3
  <2>7. ForkInv'
    <3>1. \A x \in Proc, fd \in Fd : x # c \/ fd # n => open_files'[x][fd] = open_files[x][fd]
      BY <1>2, <2>3 DEF Tables
    <3>2. \A x \in Proc : x # c => open_files'[x] = open_files[x]
      BY <1>2, <2>3 DEF Tables
    <3> QED BY <1>4, <3>1, <3>2
  <2>8. PipesInv'
    <3>1. f \in PipeFile => f[1] \in pipes
      BY <2>1, <2>2 DEF FilesInv, PipesInv
    <3> QED BY <1>1, <1>2, <2>3, <3>1 DEF FilesInv, PipesInv
  <2> QED BY <1>1, <1>3, <2>5, <2>6, <2>7, <2>8 DEF FilesInv, LostInv
<1> QED BY <1>5, <1>6

LEMMA CloneFailsStep ==
    ASSUME FilesInv, NEW p \in Proc, CloneFails(p)
    PROVE  FilesInv'
<1> DEFINE c == child[p]
<1>1. PICK made : made = {open_files[c][fd] : fd \in Fd} \ {NULL}
  OBVIOUS
<1>2. /\ at[p] = "fork"
      /\ file_refs' = [f \in File |-> file_refs[f] - Cardinality({o \in made : file[o] = f})]
      /\ file' = [o \in OpenFile |-> IF o \in made THEN NULL ELSE file[o]]
      /\ open_refs' = [o \in OpenFile |-> IF o \in made THEN 0 ELSE open_refs[o]]
      /\ open_files' = [open_files EXCEPT ![c] = NoFiles]
      /\ cwd' = [cwd EXCEPT ![c] = NULL]
      /\ at' = [at EXCEPT ![p] = "run", ![c] = "dead"]
      /\ child' = [child EXCEPT ![p] = NULL]
      /\ next_fd' = [next_fd EXCEPT ![p] = 0]
      /\ lost' = IF cwd[p] = NULL THEN lost ELSE lost + 1
      /\ UNCHANGED <<pipes, panicked>>
  BY <1>1 DEF CloneFails, At
<1>3. /\ c \in Proc /\ at[c] = "embryo" /\ cwd[c] = cwd[p] /\ p # c
      /\ open_files \in Tables /\ cwd \in [Proc -> {NULL, Directory}]
      /\ file \in [OpenFile -> File \cup {NULL}] /\ lost \in Nat
      /\ CountedFds(open_files, file, open_refs) /\ CountedFiles(file, cwd, file_refs, lost)
  BY <1>2 DEF FilesInv, ForkInv, CountedFds, CountedFiles
<1>4. CountedFds(open_files', file', open_refs')
  <2>1. Forgets(open_files, file, open_refs, c, made, open_files', file', open_refs')
    BY <1>1, <1>2 DEF Forgets
  <2> HIDE DEF c
  <2> QED BY <1>3, <2>1, FdsForgotten
<1>5. made \subseteq OpenFile
  BY <1>1, <1>3 DEF Tables
<1>6. CountedFiles(file', cwd, file_refs', lost)
  BY <1>2, <1>3, <1>5, FilesForgotten
<1>7. CountedFiles(file', cwd', file_refs', lost')
  <2>1. lost' = IF cwd[c] = NULL THEN lost ELSE lost + 1
    BY <1>2, <1>3
  <2> HIDE DEF c
  <2> QED BY <1>2, <1>3, <1>6, <2>1, CwdLost
<1>8. PlainTypes'
  BY <1>2, <1>3, FilesAssumption DEF FilesInv, PlainTypes
<1>9. \A x \in Proc : /\ at'[x] = IF x = c THEN "dead" ELSE IF x = p THEN "run" ELSE at[x]
                      /\ child'[x] = IF x = p THEN NULL ELSE child[x]
                      /\ next_fd'[x] = IF x = p THEN 0 ELSE next_fd[x]
                      /\ cwd'[x] = IF x = c THEN NULL ELSE cwd[x]
                      /\ x # c => open_files'[x] = open_files[x]
  <2> HIDE DEF c
  <2> QED BY <1>2, <1>3 DEF FilesInv, PlainTypes, Tables
<1>10. ForkInv'
  <2>1. ForkInv
    BY DEF FilesInv
  <2>2. ASSUME NEW x \in Proc, at'[x] = "fork"
        PROVE  /\ at[x] = "fork" /\ x # p /\ x # c /\ child[x] \in Proc /\ child[x] # p
               /\ child[x] # c /\ at[child[x]] = "embryo" /\ cwd[child[x]] = cwd[x]
               /\ \A fd \in Fd : fd >= next_fd[x] => open_files[child[x]][fd] = NULL
    <3>1. at[x] = "fork" /\ x # p /\ x # c
      BY <1>9, <2>2
    <3>2. /\ child[x] \in Proc /\ at[child[x]] = "embryo" /\ cwd[child[x]] = cwd[x]
          /\ \A fd \in Fd : fd >= next_fd[x] => open_files[child[x]][fd] = NULL
      BY <2>1, <3>1 DEF ForkInv
    <3>3. child[x] # c
      BY <1>2, <2>1, <3>1 DEF ForkInv
    <3> QED BY <1>2, <3>1, <3>2, <3>3
  <2>3. ASSUME NEW x \in Proc, at'[x] = "fork"
        PROVE  /\ child'[x] \in Proc /\ at'[child'[x]] = "embryo" /\ cwd'[child'[x]] = cwd'[x]
               /\ \A fd \in Fd : fd >= next_fd'[x] => open_files'[child'[x]][fd] = NULL
    BY <1>9, <2>2, <2>3
  <2>4. ASSUME NEW x \in Proc, NEW y \in Proc, at'[x] = "fork", at'[y] = "fork", child'[x] = child'[y]
        PROVE  x = y
    BY <1>9, <2>1, <2>2, <2>4 DEF ForkInv
  <2>5. \A x \in Proc : at'[x] = "unborn" => open_files'[x] = NoFiles /\ cwd'[x] = NULL
    BY <1>9, <2>1 DEF ForkInv
  <2> QED BY <2>3, <2>4, <2>5 DEF ForkInv
<1>11. PipesInv'
  BY <1>2, FileFacts DEF FilesInv, PipesInv, File
<1>12. LostInv'
  <2>1. \A x \in Proc : at[x] = "dead" => at'[x] = "dead"
    BY <1>2, <1>3, <1>9
  <2>2. at[c] # "dead" /\ at'[c] = "dead"
    BY <1>3, <1>9
  <2>3. /\ Count(Proc, at, "dead") \in Nat /\ Count(Proc, at', "dead") \in Nat
        /\ Count(Proc, at, "dead") + 1 <= Count(Proc, at', "dead")
    BY <1>3, <2>1, <2>2, DeadGrows
  <2>4. lost \in Nat /\ lost <= Count(Proc, at, "dead")
    BY <1>3 DEF FilesInv, LostInv
  <2> QED BY <1>2, <2>3, <2>4 DEF LostInv
<1> QED BY <1>4, <1>7, <1>8, <1>10, <1>11, <1>12 DEF FilesInv

LEMMA ForkEndStep ==
    ASSUME FilesInv, NEW p \in Proc, ForkEnd(p)
    PROVE  FilesInv'
<1> DEFINE c == child[p]
<1>1. /\ at[p] = "fork"
      /\ at' = [at EXCEPT ![p] = "run", ![c] = "run"]
      /\ child' = [child EXCEPT ![p] = NULL]
      /\ next_fd' = [next_fd EXCEPT ![p] = 0]
      /\ UNCHANGED <<open_files, cwd, file, open_refs, file_refs, pipes, panicked, lost>>
  BY DEF ForkEnd, At
<1>2. ForkInv /\ c \in Proc /\ at[c] = "embryo" /\ p # c
  BY <1>1 DEF FilesInv, ForkInv
<1>3. \A x \in Proc : /\ at'[x] = IF x \in {p, c} THEN "run" ELSE at[x]
                      /\ child'[x] = IF x = p THEN NULL ELSE child[x]
                      /\ next_fd'[x] = IF x = p THEN 0 ELSE next_fd[x]
  <2> HIDE DEF c
  <2> QED BY <1>1, <1>2 DEF FilesInv, PlainTypes
<1>4. PlainTypes'
  BY <1>1, <1>2, FilesAssumption DEF FilesInv, PlainTypes
<1>5. ForkInv'
  <2>1. ASSUME NEW x \in Proc, at'[x] = "fork"
        PROVE  at[x] = "fork" /\ x # p /\ x # c /\ child[x] \in Proc /\ child[x] # p /\ child[x] # c
    BY <1>1, <1>2, <1>3, <2>1 DEF ForkInv
  <2> HIDE DEF c
  <2>2. ASSUME NEW x \in Proc, at'[x] = "fork"
        PROVE  /\ child'[x] \in Proc /\ at'[child'[x]] = "embryo" /\ cwd'[child'[x]] = cwd'[x]
               /\ \A fd \in Fd : fd >= next_fd'[x] => open_files'[child'[x]][fd] = NULL
    <3>1. /\ at[child[x]] = "embryo" /\ cwd[child[x]] = cwd[x]
          /\ \A fd \in Fd : fd >= next_fd[x] => open_files[child[x]][fd] = NULL
      BY <1>2, <2>1, <2>2 DEF ForkInv
    <3>2. child'[x] = child[x] /\ next_fd'[x] = next_fd[x] /\ at'[child[x]] = at[child[x]]
      BY <1>3, <2>1, <2>2
    <3> QED BY <1>1, <2>1, <2>2, <3>1, <3>2
  <2>3. ASSUME NEW x \in Proc, NEW y \in Proc, at'[x] = "fork", at'[y] = "fork", child'[x] = child'[y]
        PROVE  x = y
    BY <1>2, <1>3, <2>1, <2>3 DEF ForkInv
  <2>4. \A x \in Proc : at'[x] = "unborn" => open_files'[x] = NoFiles /\ cwd'[x] = NULL
    BY <1>1, <1>2, <1>3 DEF ForkInv
  <2> QED BY <2>2, <2>3, <2>4 DEF ForkInv
<1>6. LostInv'
  <2>1. \A x \in Proc : at[x] = "dead" => at'[x] = "dead"
    BY <1>1, <1>2, <1>3
  <2>2. /\ Count(Proc, at, "dead") \in Nat /\ Count(Proc, at', "dead") \in Nat
        /\ Count(Proc, at, "dead") <= Count(Proc, at', "dead")
    BY <2>1, DeadGrows
  <2>3. lost \in Nat /\ lost <= Count(Proc, at, "dead")
    BY DEF FilesInv, LostInv, CountedFiles
  <2> QED BY <1>1, <2>2, <2>3 DEF LostInv
<1> QED BY <1>1, <1>4, <1>5, <1>6 DEF FilesInv, PipesInv

LEMMA ExitBeginStep ==
    ASSUME FilesInv, NEW p \in Proc, ExitBegin(p)
    PROVE  FilesInv'
<1>1. /\ at[p] = "run" /\ at' = [at EXCEPT ![p] = "exit"]
      /\ UNCHANGED <<open_files, cwd, file, open_refs, file_refs, pipes, child,
                     next_fd, panicked, lost>>
  BY DEF ExitBegin, At
<1>2. \A x \in Proc : at'[x] = IF x = p THEN "exit" ELSE at[x]
  BY <1>1 DEF FilesInv, PlainTypes
<1>3. PlainTypes'
  BY <1>1 DEF FilesInv, PlainTypes
<1>4. ForkInv'
  <2>1. \A x \in Proc : at[x] = "fork" => child[x] \in Proc /\ child[x] # p
    BY <1>1 DEF FilesInv, ForkInv
  <2> QED BY <1>1, <1>2, <2>1 DEF FilesInv, ForkInv
<1>5. LostInv'
  <2>1. {x \in Proc : at'[x] = "dead"} = {x \in Proc : at[x] = "dead"}
    BY <1>1, <1>2
  <2> QED BY <1>1, <2>1 DEF FilesInv, LostInv, Count
<1> QED BY <1>1, <1>3, <1>4, <1>5 DEF FilesInv, PipesInv

LEMMA ExitFdStep ==
    ASSUME FilesInv, NEW p \in Proc, ExitFd(p)
    PROVE  FilesInv'
<1> DEFINE n == next_fd[p]
<1>1. /\ at[p] = "exit" /\ n \in Fd
      /\ next_fd' = [next_fd EXCEPT ![p] = n + 1]
      /\ UNCHANGED <<at, cwd, pipes, child, panicked, lost>>
  BY DEF ExitFd, At
<1>2. PlainTypes'
  BY <1>1, FilesAssumption DEF FilesInv, PlainTypes, Fd
<1>3. \A q \in Proc : q # p => next_fd'[q] = next_fd[q] /\ cwd'[q] = cwd[q]
  BY <1>1 DEF FilesInv, PlainTypes
<1>4. CASE open_files[p][n] = NULL
  <2>1. UNCHANGED <<open_files, file, open_refs, file_refs>>
    BY <1>4 DEF ExitFd, Has
  <2>2. ForkInv'
    BY <1>1, <1>3, <2>1, OwnStep DEF FilesInv
  <2> QED BY <1>1, <1>2, <2>1, <2>2 DEF FilesInv, PipesInv, LostInv
<1>5. CASE open_files[p][n] # NULL
  <2>1. Close(p, n)
    BY <1>5 DEF ExitFd, Has
  <2>2. /\ CountedFds(open_files', file', open_refs')
        /\ CountedFiles(file', cwd, file_refs', lost)
        /\ \A o \in OpenFile : file'[o] \in {file[o], NULL}
        /\ \A q \in Proc : q # p => open_files'[q] = open_files[q]
    BY <1>1, <1>5, <2>1, Closes
  <2>3. ForkInv'
    BY <1>1, <1>3, <2>2, OwnStep DEF FilesInv
  <2>4. PipesInv'
    BY <1>1, <2>2, FileFacts DEF FilesInv, PipesInv, File
  <2> QED BY <1>1, <1>2, <2>2, <2>3, <2>4 DEF FilesInv, LostInv
<1> QED BY <1>4, <1>5

LEMMA ExitEndStep ==
    ASSUME FilesInv, NEW p \in Proc, ExitEnd(p)
    PROVE  FilesInv'
<1>1. /\ at[p] = "exit"
      /\ file_refs' = Unref(file_refs, cwd[p])
      /\ cwd' = [cwd EXCEPT ![p] = NULL]
      /\ at' = [at EXCEPT ![p] = "dead"]
      /\ next_fd' = [next_fd EXCEPT ![p] = 0]
      /\ UNCHANGED <<open_files, file, open_refs, pipes, child, panicked, lost>>
  BY DEF ExitEnd, At
<1>2. /\ cwd \in [Proc -> {NULL, Directory}] /\ file_refs \in [File -> Int]
      /\ CountedFiles(file, cwd, file_refs, lost) /\ cwd[p] \in File \cup {NULL}
  BY FileFacts DEF FilesInv, CountedFiles
<1>3. CountedFiles(file, cwd', file_refs', lost)
  <2>1. Shifted(file_refs, file_refs', cwd[p], NULL)
    BY <1>1, <1>2, UnrefShifts
  <2> QED BY <1>1, <1>2, <2>1, CwdMoves
<1>4. PlainTypes'
  BY <1>1, FilesAssumption DEF FilesInv, PlainTypes
<1>5. \A x \in Proc : /\ at'[x] = IF x = p THEN "dead" ELSE at[x]
                      /\ next_fd'[x] = IF x = p THEN 0 ELSE next_fd[x]
                      /\ cwd'[x] = IF x = p THEN NULL ELSE cwd[x]
  BY <1>1, <1>2 DEF FilesInv, PlainTypes
<1>6. ForkInv'
  <2>1. \A x \in Proc : at[x] = "fork" => child[x] \in Proc /\ child[x] # p /\ x # p
    BY <1>1 DEF FilesInv, ForkInv
  <2> QED BY <1>1, <1>5, <2>1 DEF FilesInv, ForkInv
<1>7. LostInv'
  <2>1. \A x \in Proc : at[x] = "dead" => at'[x] = "dead"
    BY <1>5
  <2>2. /\ Count(Proc, at, "dead") \in Nat /\ Count(Proc, at', "dead") \in Nat
        /\ Count(Proc, at, "dead") <= Count(Proc, at', "dead")
    BY <2>1, DeadGrows
  <2>3. lost \in Nat /\ lost <= Count(Proc, at, "dead")
    BY DEF FilesInv, LostInv, CountedFiles
  <2> QED BY <1>1, <2>2, <2>3 DEF LostInv
<1> QED BY <1>1, <1>3, <1>4, <1>6, <1>7 DEF FilesInv, PipesInv

-----------------------------------------------------------------------------
LEMMA FilesInvInit == FilesInit => FilesInv
<1> SUFFICES ASSUME FilesInit PROVE FilesInv
  OBVIOUS
<1>1. PlainTypes
  <2>1. 0 \in 0 .. MAX_OPEN_FILES
    BY FilesAssumption
  <2> QED BY <2>1, Zenon DEF FilesInit, PlainTypes
<1>2. CountedFds(open_files, file, open_refs)
  <2>1. open_files \in Tables /\ \A p \in Proc, fd \in Fd : open_files[p][fd] = NULL
    BY DEF FilesInit, Tables, NoFiles
  <2>2. \A d \in Pairs : Flat(open_files)[d] = NULL
    BY <2>1 DEF Flat, Pairs
  <2>3. \A o \in OpenFile : Count(Pairs, Flat(open_files), o) = 0
    BY <2>2, CountType, PairsFinite, FilesAssumption
  <2>4. /\ file \in [OpenFile -> File \cup {NULL}] /\ open_refs \in [OpenFile -> Nat]
        /\ \A o \in OpenFile : file[o] = NULL /\ open_refs[o] = 0
    BY DEF FilesInit
  <2> QED BY <2>1, <2>2, <2>3, <2>4 DEF CountedFds
<1>3. CountedFiles(file, cwd, file_refs, lost)
  <2>1. /\ file \in [OpenFile -> File \cup {NULL}] /\ \A o \in OpenFile : file[o] = NULL
        /\ cwd \in [Proc -> {NULL, Directory}] /\ \A p \in Proc : cwd[p] = NULL
        /\ file_refs \in [File -> Nat] /\ lost = 0
        /\ \A f \in File : file_refs[f] = IF f \in TableFile THEN 1 ELSE 0
    BY DEF FilesInit
  <2>2. \A f \in File : Count(OpenFile, file, f) = 0 /\ Count(Proc, cwd, f) = 0
    BY <2>1, CountType, FilesAssumption, NullIsNoFile
  <2> QED BY <2>1, <2>2 DEF CountedFiles
<1>4. ForkInv
  BY DEF FilesInit, ForkInv
<1>5. PipesInv
  BY NullIsNoFile DEF FilesInit, PipesInv, File
<1>6. LostInv
  BY CountType, FilesAssumption DEF FilesInit, LostInv
<1> QED BY <1>1, <1>2, <1>3, <1>4, <1>5, <1>6 DEF FilesInv

LEMMA FilesInvStep == FilesInv /\ [FilesNext]_filesVars => FilesInv'
<1> SUFFICES ASSUME FilesInv, [FilesNext]_filesVars PROVE FilesInv'
  OBVIOUS
<1>1. CASE UNCHANGED filesVars
  BY <1>1 DEF filesVars, FilesInv, PlainTypes, ForkInv, PipesInv, LostInv
<1>2. CASE FilesNext
  <2>1. PICK p \in Proc :
          \/ \E f \in TableFile : sys_open(p, f) \/ sys_chdir(p, f)
          \/ \E fd \in Fd : \/ sys_close(p, fd)
                            \/ sys_fchdir(p, fd)
                            \/ IoctlOrReaddirent(p, fd)
          \/ \E old, new \in Fd : Dup2(p, old, new) \/ Dup2Closes(p, old, new)
          \/ sys_pipe(p)
          \/ \E c \in Proc : ForkBegin(p, c)
          \/ CloneFd(p) \/ CloneFails(p) \/ ForkEnd(p)
          \/ ExitBegin(p) \/ ExitFd(p) \/ ExitEnd(p)
    BY <1>2 DEF FilesNext
  <2> QED BY <2>1, OpenStep, ChdirStep, CloseStep, FchdirStep, IoctlStep, Dup2Step,
             Dup2ClosesStep, PipeStep, ForkBeginStep, CloneStep, CloneFailsStep,
             ForkEndStep, ExitBeginStep, ExitFdStep, ExitEndStep
<1> QED BY <1>1, <1>2

LEMMA FilesInvHolds == FilesSpec => []FilesInv
BY FilesInvInit, FilesInvStep, PTL DEF FilesSpec

\* The counts of the open files are exact in every state, for every number of
\* processes, descriptors and open files: an open file is freed by the descriptor
\* that goes last, and no two processes share one (file_open_file_clone copies).
THEOREM OpenFilesAreCounted == FilesSpec => []OpenFilesCounted
<1>1. FilesInv => OpenFilesCounted
  <2> SUFFICES ASSUME FilesInv PROVE OpenFilesCounted
    OBVIOUS
  <2>1. /\ open_files \in Tables /\ file \in [OpenFile -> File \cup {NULL}]
        /\ open_refs \in [OpenFile -> Nat]
    BY DEF FilesInv, CountedFds
  <2>2. open_refs \in [OpenFile -> 0 .. MAX_OPEN_FILES]
    BY <2>1, FdsBounded DEF FilesInv
  <2>3. lost \in 0 .. Cardinality(Proc)
    <3>1. /\ Count(Proc, at, "dead") \in Nat /\ Count(Proc, at, "dead") <= Cardinality(Proc)
          /\ Cardinality(Proc) \in Nat
      BY CountType, FS_CardinalityType, FilesAssumption
    <3> QED BY <3>1 DEF FilesInv, LostInv, CountedFiles
  <2>4. cwd \in [Proc -> File \cup {NULL}] /\ file_refs \in [File -> Nat]
    BY FileFacts DEF FilesInv, CountedFiles
  <2>5. FilesTypeOK
    BY <2>1, <2>2, <2>3, <2>4 DEF FilesTypeOK, FilesInv, PlainTypes, Tables
  <2>6. ASSUME NEW o \in OpenFile
        PROVE  /\ open_refs[o] = Cardinality(FdsOf(o))
               /\ IsFree(o) <=> open_refs[o] = 0
               /\ \A d, e \in FdsOf(o) : d[1] = e[1]
    <3>1. \A d \in Pairs : Flat(open_files)[d] = open_files[d[1]][d[2]]
      BY DEF Flat
    <3>2. FdsOf(o) = {d \in Pairs : Flat(open_files)[d] = o}
      BY <3>1 DEF FdsOf, Pairs
    <3>3. open_refs[o] = Cardinality(FdsOf(o)) /\ (IsFree(o) <=> open_refs[o] = 0)
      BY <3>2 DEF FilesInv, CountedFds, Count, IsFree
    <3>4. \A d, e \in FdsOf(o) : d[1] = e[1]
      BY <3>2, FilesAssumption DEF FilesInv, CountedFds
    <3> QED BY <3>3, <3>4
  <2> QED BY <2>5, <2>6 DEF OpenFilesCounted
<1> QED BY <1>1, FilesInvHolds, PTL

\* The counts of the files are exact too, but for the working directory that each
\* failed fork leaves counted: no file is freed while an open file or a process
\* has it, the file of a pipe goes with its last user, and a working directory is
\* always a directory.
THEOREM NoFileIsLeaked == FilesSpec => []NoFileLeaks
<1>1. FilesInv => NoFileLeaks
  <2> SUFFICES ASSUME FilesInv PROVE NoFileLeaks
    OBVIOUS
  <2>1. CwdIsDirectory
    BY DEF FilesInv, CountedFiles, CwdIsDirectory
  <2>2. \A f \in File : file_refs[f] = Users(f) + (IF f = Directory THEN lost ELSE 0)
    BY DEF FilesInv, CountedFiles, Users, Count
  <2> QED BY <2>1, <2>2 DEF NoFileLeaks
<1> QED BY <1>1, FilesInvHolds, PTL
=============================================================================
