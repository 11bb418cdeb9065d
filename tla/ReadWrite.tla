------------------------------ MODULE ReadWrite ------------------------------
(***************************************************************************)
(* sys_read, sys_write and sys_lseek of src/file.c on one open file of one *)
(* process.  The data go in pieces through the process's user_buffer; the  *)
(* DMA channel copies each piece between it and the caller's memory.  A    *)
(* byte is known by its position in the file, or in the stream of a serial *)
(* port or a pipe.                                                         *)
(***************************************************************************)
EXTENDS Integers, Sequences

CONSTANTS
    SPACE,                 \* addresses of a process: 2^16 in the source
    LO, HI,                \* the user's part is LO .. HI - 1: 0x1000, 0xF000
    MEM_USER_BUFFER_SIZE,
    Types,                 \* kinds of file that may be open
    FileSize,              \* length of a plain file
    MaxPos                 \* bound on the position

ASSUME ReadWriteAssumption ==
    /\ SPACE \in Nat /\ SPACE % 2 = 0
    /\ LO \in Nat /\ HI \in Nat /\ LO < HI /\ HI < SPACE
    /\ MEM_USER_BUFFER_SIZE \in 1 .. SPACE \div 2 - 1
    /\ Types \subseteq {"plain", "directory", "asci", "sd", "pipe_read", "pipe_write"}
    /\ FileSize \in Nat /\ MaxPos \in Nat

Addr     == 0 .. SPACE - 1
Physical == 0 .. 2 * SPACE - 1   \* the caller's page block and the one behind it
Position == 0 .. MaxPos
Old      == -1                   \* memory that a call left alone
Junk     == -2                   \* what follows the piece in the page of user_buffer

VARIABLES
    type,        \* what the open file is
    pos,         \* struct open_file's pos
    op,          \* the call under way
    buf, count,  \* its arguments
    done_count,
    start,       \* the position when it was called
    mem,         \* what the call under way stored in memory
    taken,       \* the addresses whose bytes the file took from it
    result       \* what the last call returned

args == <<buf, count, start>>
vars == <<type, pos, op, args, done_count, mem, taken, result>>

Untouched == [a \in Physical |-> Old]

TypeOK ==
    /\ type \in Types
    /\ pos \in Position
    /\ op \in {"none", "read", "write", "end"}
    /\ buf \in Addr /\ count \in Addr
    /\ done_count \in -1 .. count
    /\ start \in Position
    /\ mem \in [Physical -> Position \cup {Old, Junk}]
    /\ taken \in Seq(Addr)
    /\ result \in -(SPACE \div 2) .. SPACE \div 2 - 1

\* sys_open, or sys_pipe
Init ==
    /\ type \in Types
    /\ pos = 0
    /\ op = "none"
    /\ buf = 0 /\ count = 0 /\ done_count = 0 /\ start = 0
    /\ mem = Untouched
    /\ taken = <<>>
    /\ result = 0

-----------------------------------------------------------------------------
\* Mutant: only the first address is looked at.
FirstInBounds(b, c) == b >= LO /\ b <= HI

\* The check of sys_read; sys_write's is stricter by one.
ReadBounds(b, c) == b >= LO /\ b + c <= HI
WriteBounds(b, c) == b >= LO /\ b + c < HI

Call(what, b, c) ==
    /\ op = "none" /\ pos + c <= MaxPos
    /\ op' = what
    /\ buf' = b /\ count' = c /\ done_count' = 0 /\ start' = pos
    /\ mem' = Untouched /\ taken' = <<>>
    /\ UNCHANGED <<type, pos, result>>

sys_read(b, c)  == ReadBounds(b, c) /\ Call("read", b, c)
sys_write(b, c) == WriteBounds(b, c) /\ Call("write", b, c)

\* A call that moves no bytes.
MovesNothing ==
    /\ op = "none"
    /\ count' = 0 /\ done_count' = 0 /\ start' = pos'
    /\ mem' = Untouched /\ taken' = <<>>
    /\ UNCHANGED <<type, op, buf>>

\* A buffer that is not in the user's memory.
Refused(b, c) ==
    /\ ~ReadBounds(b, c) \/ ~WriteBounds(b, c)
    /\ result' = -1 /\ UNCHANGED pos
    /\ MovesNothing

Smaller(m, n) == IF m < n THEN m ELSE n

inc_count == Smaller(count - done_count, MEM_USER_BUFFER_SIZE)

\* A plain file of the initrd: shorter at the end, an error behind it.
fs_initrd_read == IF pos >= FileSize THEN {-1} ELSE {Smaller(inc_count, FileSize - pos)}

\* What the serial port's buffer has; it says -1 if that is nothing, a pipe 0.
asci_read == {-1} \cup 1 .. inc_count
pipe_read == 0 .. inc_count

\* As far as there is space.
asci_write == 0 .. inc_count
pipe_write == 0 .. inc_count

\* All that is asked for.
sd_transfer == {inc_count}

\* A driver without an operation, a directory, the wrong end of a pipe.
Fails == {-1}

device_read == CASE type = "asci" -> asci_read
                 [] type = "sd"   -> sd_transfer
                 [] OTHER         -> Fails

device_write == CASE type = "asci" -> asci_write
                  [] type = "sd"   -> sd_transfer
                  [] OTHER         -> Fails

\* What file_read may return.
file_read == CASE type = "plain"     -> fs_initrd_read
               [] type = "pipe_read" -> pipe_read
               [] OTHER              -> device_read

\* What file_write may return; 0 if the file system has no write, as the initrd.
file_write == CASE type = "plain"      -> {0}
                [] type = "pipe_write" -> pipe_write
                [] OTHER               -> device_write

\* The byte count register of the DMA channel: zero means all of 2^16.
DmaCount(n) == IF n = 0 THEN SPACE ELSE n

\* Mutant: every piece goes to the start of the caller's buffer.
DestAlwaysBuf == buf

Dest == buf + done_count

\* mem_copy_from_user_buffer of n bytes
CopiedOut(n) ==
    [a \in Physical |->
        IF a - Dest \notin 0 .. DmaCount(n) - 1 THEN mem[a]
        ELSE IF a - Dest < n THEN pos + (a - Dest) ELSE Junk]

\* mem_copy_to_user_buffer, of which the file takes n bytes
CopiedIn(n) == [k \in 1 .. n |-> buf + done_count + k - 1]

\* Mutant: an error hides what was done before it.
AfterErrorForgets == -1

AfterError == IF done_count = 0 THEN -1 ELSE done_count

\* Mutant: a piece that comes up short is tried again.
LastPieceOnError(n) == n < 0

\* An error, or less than was asked for.
LastPiece(n) == n < inc_count

\* What both loops do with file_read's or file_write's result.
Advance(n) ==
    /\ done_count' = IF n < 0 THEN AfterError ELSE done_count + n
    /\ pos' = IF n < 0 THEN pos ELSE pos + n
    /\ op' = IF LastPiece(n) THEN "end" ELSE op
    /\ UNCHANGED <<type, args, result>>

ReadPiece ==
    /\ op = "read" /\ done_count < count
    /\ \E n \in file_read : /\ mem' = IF n < 0 THEN mem ELSE CopiedOut(n)
                            /\ Advance(n)
    /\ UNCHANGED taken

WritePiece ==
    /\ op = "write" /\ done_count < count
    /\ \E n \in file_write : /\ taken' = IF n < 0 THEN taken ELSE taken \o CopiedIn(n)
                             /\ Advance(n)
    /\ UNCHANGED mem

\* done_count is a ssize_t, half of whose values are negative.
Signed(n) == IF n >= SPACE \div 2 THEN n - SPACE ELSE n

Return ==
    /\ op = "end" \/ (op \in {"read", "write"} /\ done_count = count)
    /\ op' = "none"
    /\ result' = Signed(done_count)
    /\ mem' = Untouched /\ taken' = <<>>
    /\ UNCHANGED <<type, pos, args, done_count>>

\* SEEK_SET and SEEK_CUR.  What it returns is the position.
sys_lseek ==
    /\ pos' \in Position /\ result' = 0
    /\ MovesNothing

Next ==
    \/ \E b, c \in Addr : sys_read(b, c) \/ sys_write(b, c) \/ Refused(b, c)
    \/ ReadPiece \/ WritePiece \/ Return
    \/ sys_lseek

Spec == Init /\ [][Next]_vars

-----------------------------------------------------------------------------
Moved == IF done_count < 0 THEN 0 ELSE done_count

\* The caller finds the bytes of the file in order, from the position at the
\* call, whatever the pieces were and wherever the file ended.
ReadInOrder ==
    op # "none" /\ taken = <<>> =>
        /\ \A k \in 0 .. done_count - 1 : mem[buf + k] = start + k
        /\ pos = start + Moved

\* The file takes the caller's bytes in order, as many as the position moves
\* on, and from the user's memory only.
WriteInOrder ==
    taken # <<>> => /\ taken = [k \in 1 .. Moved |-> buf + k - 1]
                    /\ pos = start + Moved
                    /\ \A k \in DOMAIN taken : taken[k] \in LO .. HI - 1

\* Bytes arrive in order in both directions.
BytesInOrder == ReadInOrder /\ WriteInOrder

\* A read changes nothing in memory outside the buffer that its check of the
\* bounds let pass: neither the user's, nor the kernel's, nor another process's.
ReadInBounds ==
    \A a \in Physical : mem[a] # Old =>
        a \in buf .. buf + count - 1 /\ a \in LO .. HI - 1

\* A call that reports failure has moved nothing, unless it moved so much that
\* the count is negative as a ssize_t.  (And every variable has its type.)
FailureMovesNothing ==
    /\ TypeOK
    /\ op = "none" /\ result < 0 => pos = start \/ Moved >= SPACE \div 2

\* The loops end: each piece moves something or is the last one.
CallsReturn == op # "none" ~> op = "none"
=============================================================================
