-------------------------------- MODULE SdCard --------------------------------
(***************************************************************************)
(* The driver of the SD card, src/dev_sd.c.  dev_sd_init makes the card    *)
(* ready at boot, if it can.  sd_read and sd_write cut a                   *)
(* request at the boundaries of the card's blocks.  A piece smaller than a *)
(* block goes through a buffer of block_buf.c (BlockBuf): a small write    *)
(* reads the block, changes some bytes and writes it back.  A whole block  *)
(* goes between the card and the caller's memory.  Nothing but the wait    *)
(* for a buffer keeps processes from using the card at the same time.      *)
(***************************************************************************)
EXTENDS Integers, FiniteSets, Sequences

CONSTANTS
    Proc,             \* processes, numbered from 1
    SD_BLOCK_LEN,     \* bytes of a block
    Blocks,           \* blocks of the card
    BLOCK_512_COUNT,  \* buffers of block_buf.c
    Cards,            \* the kinds of card that may be in the slot
    INIT_ATTEMPTS,    \* how often a card is asked to get ready: 100
    Requests,         \* [write, pos, count]: the calls that processes make
    MaxCalls          \* bound on the calls made

ASSUME SdAssumption ==
    /\ Proc \subseteq Nat \ {0} /\ IsFiniteSet(Proc)
    /\ SD_BLOCK_LEN \in Nat \ {0} /\ Blocks \in Nat \ {0}
    /\ BLOCK_512_COUNT \in Nat \ {0} /\ MaxCalls \in Nat
    /\ Cards \subseteq {"none", "v1", "sdsc", "sdhc"}
    /\ INIT_ATTEMPTS \in Nat \ {0}
    /\ Requests # {} /\ Requests \subseteq [write : BOOLEAN, pos : Nat, count : Nat]
    /\ \A r \in Requests : r.pos + r.count <= Blocks * SD_BLOCK_LEN

(* What keeps the small accesses apart is only that block_buf.c has a single *)
(* buffer: with a second one (block_buf.c:7) two of them may overlap.        *)
ASSUME OneBuffer == BLOCK_512_COUNT = 1

Address == 0 .. Blocks * SD_BLOCK_LEN - 1

(* A byte is known by who wrote it and for which address it was meant.      *)
Byte    == ({0} \cup Proc) \X Address
Garbage == <<0, -1>>     \* what a buffer holds from its last use

VARIABLES
    boot,     \* where in dev_sd_init the kernel is, "up" when it is over
    card,     \* the kind of the card
    ready,    \* it has left its idle state
    init_attempts,
    send_op_cond_result,
    init_result,
    disk,     \* the bytes on the card
    calls,    \* calls made so far
    req,      \* the call each process has made last
    done,     \* result, count_done: how many bytes of it are dealt with
    at,       \* where in the call each process is
    block,    \* block_buffer[] of each process
    mixed,    \* processes whose access to the card overlapped another one
    got,      \* the bytes a reader was given
    written,  \* who last wrote each byte
    raced     \* blocks on which a whole-block access overlapped another one

initVars == <<boot, card, ready, init_attempts, send_op_cond_result, init_result>>
vars == <<initVars, disk, calls, req, done, at, block, mixed, got, written, raced>>

InAccess  == {"reading", "writing"}
Piece     == {"read", "write", "free"} \cup InAccess
NoAnswer  == 255
NoData    == [k \in 0 .. SD_BLOCK_LEN - 1 |-> Garbage]

TypeOK ==
    /\ boot \in {"go_idle", "if_cond", "app", "op_cond", "check", "ocr", "done",
                "up"}
    /\ card \in Cards /\ ready \in BOOLEAN
    /\ init_attempts \in 0 .. INIT_ATTEMPTS
    /\ send_op_cond_result \in Nat /\ init_result \in {-1, 0}
    /\ disk \in [Address -> Byte \cup {Garbage}]
    /\ calls \in 0 .. MaxCalls
    /\ \A p \in Proc : /\ req[p] \in Requests /\ done[p] \in 0 .. req[p].count
                       /\ Len(got[p]) = IF req[p].write THEN 0 ELSE done[p]
    /\ at \in [Proc -> {"out", "loop"} \cup Piece]
    /\ block \in [Proc -> [0 .. SD_BLOCK_LEN - 1 -> Byte \cup {Garbage}]]
    /\ mixed \subseteq Proc
    /\ written \in [Address -> {0} \cup Proc]
    /\ raced \subseteq 0 .. Blocks - 1

Init ==
    /\ boot = "go_idle" /\ card \in Cards /\ ready = FALSE
    /\ init_attempts = 0 /\ send_op_cond_result = NoAnswer /\ init_result = -1
    /\ disk = [a \in Address |-> <<0, a>>]
    /\ calls = 0
    /\ req \in [Proc -> {CHOOSE r \in Requests : TRUE}]
    /\ done = [p \in Proc |-> 0]
    /\ at = [p \in Proc |-> "out"]
    /\ block = [p \in Proc |-> NoData]
    /\ mixed = {}
    /\ got = [p \in Proc |-> <<>>]
    /\ written = [a \in Address |-> 0]
    /\ raced = {}

-----------------------------------------------------------------------------
(* The card, as far as its answers to commands go.  An empty slot never     *)
(* answers.  A first byte of the answer has 1 for "idle", 4 for "illegal    *)
(* command", and any answer may come with 8, an error of the transmission,  *)
(* for a command that the card then has not carried out.                    *)

r1 == IF ready THEN 0 ELSE 1

\* CMD0 makes the card idle, which it is at boot.
go_idle_state == {1, 9}

\* CMD8 is new in version 2.
send_if_cond == IF card = "v1" THEN {5, 13} ELSE {1, 9}

send_app == {r1, r1 + 8}

read_ocr == {r1, r1 + 8}

-----------------------------------------------------------------------------
(* dev_sd_init.  A command sent and answered is one step: processes do not  *)
(* exist yet.  The answer is waited for with no limit.                      *)

accessVars == <<disk, calls, req, done, at, block, mixed, got, written, raced>>

\* A command is answered in state `from' of the initialisation.
Answered(from) == boot = from /\ card # "none"

\* goto done
Done(result) == boot' = "done" /\ init_result' = result

\* Any answer above 1 is an error, which ends the initialisation.
GoesOn(r, to) == IF r > 1 THEN Done(-1) ELSE boot' = to /\ UNCHANGED init_result

GoIdle ==
    /\ Answered("go_idle")
    /\ \E r \in go_idle_state : GoesOn(r, "if_cond")
    /\ UNCHANGED <<card, ready, init_attempts, send_op_cond_result, accessVars>>

IfCond ==
    /\ Answered("if_cond")
    /\ \E r \in send_if_cond : GoesOn(r, "app")
    /\ UNCHANGED <<card, ready, init_attempts, send_op_cond_result, accessVars>>

\* Mutant: the attempts are not counted.
AttemptUncounted == init_attempts

AttemptMade == init_attempts + 1

\* The end of an attempt that has not made the card ready
NextAttempt ==
    /\ init_attempts' = AttemptMade
    /\ boot' = IF AttemptMade < INIT_ATTEMPTS THEN "app" ELSE "check"

\* CMD55 announces the next command, unless it is answered with an error.
App ==
    /\ Answered("app")
    /\ \E r \in send_app : IF r <= 1 THEN boot' = "op_cond" /\ UNCHANGED init_attempts
                           ELSE NextAttempt
    /\ UNCHANGED <<card, ready, send_op_cond_result, init_result, accessVars>>

\* ACMD41 asks the card to get ready, for which it takes some time.
OpCond ==
    /\ Answered("op_cond")
    /\ \/ /\ ready' = TRUE /\ send_op_cond_result' = 0
          /\ boot' = "check" /\ UNCHANGED init_attempts
       \/ /\ send_op_cond_result' \in {1, 9}
          /\ NextAttempt /\ UNCHANGED ready
    /\ UNCHANGED <<card, init_result, accessVars>>

\* Mutant: a card that has not been asked counts as ready.
NotReadyIfIdle == send_op_cond_result # 0 /\ send_op_cond_result # NoAnswer

NotReady == send_op_cond_result # 0

Check ==
    /\ boot = "check"
    /\ IF NotReady THEN Done(-1) ELSE boot' = "ocr" /\ UNCHANGED init_result
    /\ UNCHANGED <<card, ready, init_attempts, send_op_cond_result, accessVars>>

\* What the card says here, as how it is addressed, is not looked at.
Ocr ==
    /\ Answered("ocr")
    /\ \E r \in read_ocr : IF r > 1 THEN Done(-1) ELSE Done(0)
    /\ UNCHANGED <<card, ready, init_attempts, send_op_cond_result, accessVars>>

\* The driver is registered whatever the result is, which module_init ignores.
Register ==
    /\ boot = "done" /\ boot' = "up"
    /\ init_attempts' = 0 /\ send_op_cond_result' = NoAnswer /\ init_result' = -1
    /\ UNCHANGED <<card, ready, accessVars>>

dev_sd_init == GoIdle \/ IfCond \/ App \/ OpCond \/ Check \/ Ocr \/ Register

-----------------------------------------------------------------------------
(* The loop of sd_read and sd_write.                                        *)

pos(p)   == req[p].pos + done[p]
count(p) == req[p].count - done[p]

pos_in_block(p) == pos(p) % SD_BLOCK_LEN
Block(p)        == pos(p) \div SD_BLOCK_LEN

\* To the end of the block or of the request.
bytes_to_do(p) ==
    LET room == SD_BLOCK_LEN - pos_in_block(p)
    IN  IF count(p) < room THEN count(p) ELSE room

Small(p) == bytes_to_do(p) < SD_BLOCK_LEN

\* Is byte k of the block one of those the piece is about?
InPiece(p, k) == k - pos_in_block(p) \in 0 .. bytes_to_do(p) - 1

\* Mutant: the buffer is given back before the block is written.
HoldersForReading == {q \in Proc : at[q] \in {"read", "reading"} /\ Small(q)}

\* Who has a buffer.
Holders == {q \in Proc : at[q] \in Piece /\ Small(q)}

\* Mutant: one buffer too many is given out.
BufferLeftOneMore == Cardinality(Holders) <= BLOCK_512_COUNT

\* block_512_alloc sleeps until a buffer is left.
BufferLeft == Cardinality(Holders) < BLOCK_512_COUNT

Goto(p, label) == at' = [at EXCEPT ![p] = label]

ghostVars == <<got, written, raced>>

Call(p, r) ==
    /\ boot = "up" /\ at[p] = "out" /\ calls < MaxCalls
    /\ calls' = calls + 1
    /\ req' = [req EXCEPT ![p] = r]
    /\ done' = [done EXCEPT ![p] = 0]
    /\ got' = [got EXCEPT ![p] = <<>>]
    /\ Goto(p, "loop")
    /\ UNCHANGED <<initVars, disk, block, mixed, written, raced>>

Return(p) ==
    /\ at[p] = "loop" /\ count(p) = 0
    /\ Goto(p, "out")
    /\ UNCHANGED <<initVars, disk, calls, req, done, block, mixed, ghostVars>>

\* A small piece: its block is read first, for a write as well.
SmallPiece(p) ==
    /\ at[p] = "loop" /\ count(p) > 0 /\ Small(p)
    /\ BufferLeft
    /\ Goto(p, "read")
    /\ UNCHANGED <<initVars, disk, calls, req, done, block, mixed, ghostVars>>

WholePiece(p) ==
    /\ at[p] = "loop" /\ count(p) > 0 /\ ~Small(p)
    /\ Goto(p, IF req[p].write THEN "write" ELSE "read")
    /\ UNCHANGED <<initVars, disk, calls, req, done, block, mixed, ghostVars>>

-----------------------------------------------------------------------------
(* sd_read_single_block and sd_write_single_block: from the assertion of CS *)
(* to its deassertion.  When two processes are in there at once, the bytes  *)
(* of their commands mix on the bus; nobody looks at the response and the   *)
(* token, so that an access that failed goes on like one that succeeded.    *)

Others(p) == {q \in Proc \ {p} : at[q] \in InAccess}

\* Whole-block accesses of p or q that come between steps of the other.
Races(p) ==
    {q \in Proc \ {p} :
        /\ ~(Small(p) /\ Small(q))
        /\ \/ at[q] \in InAccess
           \/ at[q] \in Piece /\ Small(q) /\ Block(q) = Block(p)}

Assert(p) ==
    /\ mixed' = IF Others(p) = {} THEN mixed \ {p} ELSE mixed \cup {p} \cup Others(p)
    /\ raced' = raced \cup UNION {{Block(p), Block(q)} : q \in Races(p)}
    /\ UNCHANGED <<initVars, disk, calls, req, done, block, got, written>>

BeginRead(p)  == at[p] = "read" /\ Goto(p, "reading") /\ Assert(p)
BeginWrite(p) == at[p] = "write" /\ Goto(p, "writing") /\ Assert(p)

\* The card is sent the address of the block's first byte, which a card of high
\* capacity takes for the number of a block.
Addressed(p) == IF card = "sdhc" THEN Block(p) * SD_BLOCK_LEN ELSE Block(p)

\* A card that is not ready, or has no such block, refuses.
Serves(p) == ready /\ Addressed(p) < Blocks

OnCard(p) == [k \in 0 .. SD_BLOCK_LEN - 1 |-> disk[Addressed(p) * SD_BLOCK_LEN + k]]

\* What the caller of p writes.
Mine(p) == [k \in 0 .. SD_BLOCK_LEN - 1 |-> <<p, Block(p) * SD_BLOCK_LEN + k>>]

\* memcpy of the caller's bytes over the block
Merged(p, data) ==
    [k \in 0 .. SD_BLOCK_LEN - 1 |-> IF InPiece(p, k) THEN Mine(p)[k] ELSE data[k]]

\* Mutant: the bytes at the start of the block.
GivenFromStart(p, data) == [k \in 1 .. bytes_to_do(p) |-> data[k - 1]]

\* The bytes that a reader is given of what it read.
Given(p, data) == [k \in 1 .. bytes_to_do(p) |-> data[pos_in_block(p) + k - 1]]

Advanced(p) == [done EXCEPT ![p] = @ + bytes_to_do(p)]

\* A small piece: the block is in the buffer, and changed there by a write.
EndReadSmall(p, data) ==
    /\ Small(p)
    /\ IF req[p].write
       THEN block' = [block EXCEPT ![p] = Merged(p, data)] /\ Goto(p, "write")
       ELSE block' = [block EXCEPT ![p] = data] /\ Goto(p, "free")
    /\ UNCHANGED <<done, got>>

EndReadWhole(p, data) ==
    /\ ~Small(p)
    /\ got' = [got EXCEPT ![p] = @ \o Given(p, data)]
    /\ done' = Advanced(p)
    /\ Goto(p, "loop")
    /\ UNCHANGED block

EndRead(p) ==
    /\ at[p] = "reading"
    /\ \E data \in (IF Serves(p) THEN {OnCard(p)} ELSE {})
                     \cup (IF ~Serves(p) \/ p \in mixed THEN {NoData} ELSE {}) :
         EndReadSmall(p, data) \/ EndReadWhole(p, data)
    /\ mixed' = mixed \ {p}
    /\ UNCHANGED <<initVars, disk, calls, req, written, raced>>

\* The block that goes to the card.
Sent(p) == IF Small(p) THEN block[p] ELSE Mine(p)

OnDisk(p, a) == IF a \div SD_BLOCK_LEN = Addressed(p) THEN Sent(p)[a % SD_BLOCK_LEN]
                ELSE disk[a]

EndWrite(p) ==
    /\ at[p] = "writing"
    /\ \/ Serves(p) /\ disk' = [a \in Address |-> OnDisk(p, a)]
       \/ (~Serves(p) \/ p \in mixed) /\ UNCHANGED disk
    /\ written' = [a \in Address |->
                    IF a - pos(p) \in 0 .. bytes_to_do(p) - 1 THEN p ELSE written[a]]
    /\ IF Small(p) THEN Goto(p, "free") /\ UNCHANGED done
                   ELSE Goto(p, "loop") /\ done' = Advanced(p)
    /\ mixed' = mixed \ {p}
    /\ UNCHANGED <<initVars, calls, req, block, got, raced>>

\* The reader's bytes are copied and the buffer is given back.
Free(p) ==
    /\ at[p] = "free"
    /\ got' = IF req[p].write THEN got
              ELSE [got EXCEPT ![p] = @ \o Given(p, block[p])]
    /\ block' = [block EXCEPT ![p] = NoData]
    /\ done' = Advanced(p)
    /\ Goto(p, "loop")
    /\ UNCHANGED <<initVars, disk, calls, req, mixed, written, raced>>

Next ==
    \/ dev_sd_init
    \/ \E p \in Proc :
        \/ \E r \in Requests : Call(p, r)
        \/ Return(p)
        \/ SmallPiece(p) \/ WholePiece(p)
        \/ BeginRead(p) \/ EndRead(p) \/ BeginWrite(p) \/ EndWrite(p)
        \/ Free(p)

Spec == Init /\ [][Next]_vars

\* The boot code goes on whenever the card has answered.
FairSpec == Spec /\ WF_vars(dev_sd_init)

-----------------------------------------------------------------------------
\* The initialisation succeeds only if the card is ready: also if it has never
\* answered to the command that makes it ready.
SuccessMeansReady == boot = "done" /\ init_result = 0 => ready

\* Boot does not wait for ever for a card that answers, even if it is never
\* ready.  (It does for an empty slot, which the driver's TODO is about.)
InitReturns == card # "none" ~> boot = "up"

\* No piece leaves its block, and the 512 bytes that sd_read_single_block stores
\* behind `buf' without being told a length fit in what is left of the buffer.
PieceFits ==
    \A p \in Proc : at[p] \in Piece =>
        /\ bytes_to_do(p) \in 1 .. count(p)
        /\ pos_in_block(p) + bytes_to_do(p) <= SD_BLOCK_LEN

\* Two processes are in the middle of an access to the card at once only if
\* one of them moves a whole block: a small one waits for the single buffer.
SmallAccessesExclude ==
    \A p, q \in Proc :
        p # q /\ at[p] \in InAccess /\ at[q] \in InAccess => ~(Small(p) /\ Small(q))

\* The card has been made ready and is addressed as the driver does it.
CardUsable == ready /\ card = "sdsc"

\* Every byte on the card is the one that was last written there: small writes
\* of two processes to one block do not undo each other.  A block that a whole
\* access raced on is excepted, for which the driver takes no lock, and so is a
\* card that does not serve it, since results are not looked at.
DiskIsRight ==
    CardUsable => \A a \in Address :
        a \div SD_BLOCK_LEN \notin raced => disk[a] = <<written[a], a>>

\* A reader is given the bytes of the addresses it asked for, in order, in
\* pieces that stay within their blocks.  (And every variable has its type.)
ReadIsRight ==
    /\ TypeOK /\ PieceFits
    /\ CardUsable => \A p \in Proc : \A k \in DOMAIN got[p] :
         LET a == req[p].pos + k - 1
         IN  a \div SD_BLOCK_LEN \notin raced => got[p][k][2] = a
=============================================================================
