-------------------------------- MODULE Flash --------------------------------
(***************************************************************************)
(* The driver of the flash chip, src/dev_flash.c.  A call locks the        *)
(* instance's mutex and, under it, the mutex of the DMA channel for every  *)
(* byte that it sends to the chip or gets from it; the rest of the kernel  *)
(* uses the channel as well.  Both mutexes put a process to sleep.         *)
(***************************************************************************)
EXTENDS Scheduler, FiniteSets

CONSTANTS
    chip_size,    \* bytes of the chip
    sector_size,
    Requests,     \* the calls: [what, pos, count]
    MaxCalls      \* bound on the calls made

ASSUME FlashAssumption ==
    /\ sector_size \in Nat \ {0} /\ chip_size \in Nat \ {0}
    /\ chip_size % sector_size = 0 /\ MaxCalls \in Nat
    /\ Requests \subseteq
         [what : {"read", "write", "erase sector", "erase chip", "nothing", "copy"},
          pos : Nat, count : Nat \ {0}]
    /\ \A r \in Requests : r.what = "erase sector" => r.pos < chip_size \div sector_size

Users   == 1 .. MaxPid
Address == 0 .. chip_size - 1
CallId  == 1 .. MaxCalls

\* The bytes that a command consists of, each to its address.
ProgramCommand     == <<"AA", "55", "A0", "data">>
EraseSectorCommand == <<"AA", "55", "80", "AA", "55", "30">>
EraseChipCommand   == <<"AA", "55", "80", "AA", "55", "10">>
Commands == {ProgramCommand, EraseSectorCommand, EraseChipCommand}

VARIABLES
    mtx,        \* the mutex of flash_instance_0
    dma_0_mtx,  \* the mutex of DMA channel 0
    calls,      \* calls made so far
    req, id,    \* the call of each process and its number
    pc,         \* where in the call it is
    in_dma,     \* it has the DMA channel
    k,          \* bytes of the command it has sent
    bytes_written,
    got,        \* what a reader was given
    seen,       \* the bytes of a command the chip has seen
    busy,       \* the chip programs or erases
    flash,      \* its bytes: the calls that programmed each since it was erased
    becomes     \* what `flash' becomes when the chip is done

lockVars  == <<mtx, dma_0_mtx>>
callVars  == <<calls, req, id>>
localVars == <<k, bytes_written, got>>
chipVars  == <<seen, busy, flash, becomes>>
vars      == <<schedVars, lockVars, callVars, pc, in_dma, localVars, chipVars>>

Contents  == [Address -> SUBSET CallId]
NoRequest == [what |-> "nothing", pos |-> 0, count |-> 1]

Init ==
    /\ current_proc = IDLE
    /\ process_ready_list = [p \in Users |-> p]
    /\ state = [p \in Pid |-> IF p = IDLE THEN "RUNNING" ELSE "READY"]
    /\ panicked = FALSE
    /\ mtx = mutex_init /\ dma_0_mtx = mutex_init
    /\ calls = 0
    /\ req = [p \in Users |-> NoRequest] /\ id = [p \in Users |-> 0]
    /\ pc = [p \in Users |-> "out"]
    /\ in_dma = [p \in Users |-> FALSE]
    /\ k = [p \in Users |-> 0] /\ bytes_written = [p \in Users |-> 0]
    /\ got = [p \in Users |-> {}]
    /\ seen = <<>> /\ busy = FALSE
    /\ flash = [a \in Address |-> {}] /\ becomes = flash

On(p, label) == ~panicked /\ p = current_proc /\ pc[p] = label

Goto(p, label) == pc' = [pc EXCEPT ![p] = label]

-----------------------------------------------------------------------------
(* The calls.                                                               *)

\* flash_read and flash_write shorten a request to what the chip has left.
Request(r) ==
    IF r.what \in {"read", "write"} /\ r.count > chip_size - r.pos
    THEN [r EXCEPT !.count = chip_size - r.pos]
    ELSE r

\* A request behind the end of the chip returns -1 at once.  "copy" stands for
\* any other user of the DMA channel.
Call(p, r) ==
    /\ On(p, "out") /\ calls < MaxCalls
    /\ r.what \in {"read", "write"} => r.pos < chip_size
    /\ calls' = calls + 1
    /\ req' = [req EXCEPT ![p] = Request(r)]
    /\ id' = [id EXCEPT ![p] = calls + 1]
    /\ Goto(p, IF r.what = "copy" THEN "copy" ELSE "lock")
    /\ UNCHANGED <<schedVars, lockVars, in_dma, localVars, chipVars>>

FirstStep(p) ==
    CASE req[p].what = "read"    -> "read"
      [] req[p].what = "nothing" -> "unlock"
      [] OTHER                   -> "send"

\* Mutant: a reader does not wait for the mutex.
MayEnterReading(p) == ~mtx.locked \/ req[p].what = "read"

\* Mutant: that nobody uses the DMA channel is taken to be enough.
MayEnterFreeChannel(p) == ~dma_0_mtx.locked

MayEnter(p) == ~mtx.locked

\* mutex_lock(&instance->mtx), which a woken process tries again
Lock(p) ==
    /\ On(p, "lock") /\ MayEnter(p)
    /\ mtx' = mutex_taken(mtx)
    /\ Goto(p, FirstStep(p))
    /\ k' = [k EXCEPT ![p] = 0]
    /\ bytes_written' = [bytes_written EXCEPT ![p] = 0]
    /\ UNCHANGED <<schedVars, dma_0_mtx, callVars, in_dma, got, chipVars>>

LockBlocks(p) ==
    /\ On(p, "lock") /\ ~MayEnter(p)
    /\ mtx' = mutex_queued(mtx, p)
    /\ process_block
    /\ UNCHANGED <<dma_0_mtx, callVars, pc, in_dma, localVars, chipVars>>

Unlock(p) ==
    /\ On(p, "unlock")
    /\ mtx' = mutex_unlocked(mtx)
    /\ process_wake_front(mtx.blocked_list)
    /\ got' = [got EXCEPT ![p] = {}]
    /\ Goto(p, "out")
    /\ UNCHANGED <<dma_0_mtx, callVars, in_dma, k, bytes_written, chipVars>>

-----------------------------------------------------------------------------
(* dma_memcpy: first the mutex, then the transfer and the mutex back.       *)

InTransfer == {"read", "send", "poll", "copy"}

DmaLock(p) ==
    /\ ~panicked /\ p = current_proc /\ pc[p] \in InTransfer /\ ~in_dma[p]
    /\ ~dma_0_mtx.locked
    /\ dma_0_mtx' = mutex_taken(dma_0_mtx)
    /\ in_dma' = [in_dma EXCEPT ![p] = TRUE]
    /\ UNCHANGED <<schedVars, mtx, callVars, pc, localVars, chipVars>>

DmaBlocks(p) ==
    /\ ~panicked /\ p = current_proc /\ pc[p] \in InTransfer /\ ~in_dma[p]
    /\ dma_0_mtx.locked
    /\ dma_0_mtx' = mutex_queued(dma_0_mtx, p)
    /\ process_block
    /\ UNCHANGED <<mtx, callVars, pc, in_dma, localVars, chipVars>>

DmaUnlock(p) ==
    /\ dma_0_mtx' = mutex_unlocked(dma_0_mtx)
    /\ process_wake_front(dma_0_mtx.blocked_list)
    /\ in_dma' = [in_dma EXCEPT ![p] = FALSE]
    /\ UNCHANGED <<mtx, callVars>>

Transfer(p, label) == On(p, label) /\ in_dma[p] /\ DmaUnlock(p)

Span(p) == req[p].pos .. req[p].pos + req[p].count - 1

\* The bytes that the command of p changes.
Target(p) ==
    CASE req[p].what = "write"        -> {req[p].pos + bytes_written[p]}
      [] req[p].what = "erase sector" -> {a \in Address : a \div sector_size = req[p].pos}
      [] OTHER                        -> Address

Command(p) ==
    CASE req[p].what = "write"        -> ProgramCommand
      [] req[p].what = "erase sector" -> EraseSectorCommand
      [] OTHER                        -> EraseChipCommand

\* Programming can only clear bits that are set.
Changed(p) ==
    [a \in Address |->
        IF a \notin Target(p) THEN flash[a]
        ELSE IF req[p].what = "write" THEN flash[a] \cup {id[p]} ELSE {}]

\* The chip sees a byte: it ignores it when busy, starts when the command is
\* complete, and is back at the beginning after a byte that fits no command.
ChipSees(p, byte) ==
    LET s == Append(seen, byte)
    IN  IF busy THEN UNCHANGED chipVars
        ELSE /\ seen' = IF \E c \in Commands : IsStrictPrefix(s, c) THEN s ELSE <<>>
             /\ busy' = (s \in Commands)
             /\ becomes' = IF s \in Commands THEN Changed(p) ELSE becomes
             /\ UNCHANGED flash

Send(p) ==
    /\ Transfer(p, "send")
    /\ ChipSees(p, Command(p)[k[p] + 1])
    /\ IF k[p] + 1 < Len(Command(p))
       THEN k' = [k EXCEPT ![p] = @ + 1] /\ UNCHANGED pc
       ELSE k' = [k EXCEPT ![p] = 0] /\ Goto(p, "poll")
    /\ UNCHANGED <<bytes_written, got>>

\* Mutant: one look at the chip is enough.
PolledOnce == TRUE

\* Bit 6 has not toggled between two reads: the chip is done.
Steady == ~busy

\* sst39sfxxxa_wait, and the loop of flash_write_sst39sfxxxa
Poll(p) ==
    /\ Transfer(p, "poll")
    /\ IF ~Steady THEN UNCHANGED <<pc, bytes_written>>
       ELSE IF req[p].what = "write"
       THEN /\ bytes_written' = [bytes_written EXCEPT ![p] = @ + 1]
            /\ Goto(p, IF bytes_written[p] + 1 < req[p].count THEN "send" ELSE "unlock")
       ELSE UNCHANGED bytes_written /\ Goto(p, "unlock")
    /\ UNCHANGED <<k, got, chipVars>>

\* All the calls whose bytes the reader is given.
Read(p) ==
    /\ Transfer(p, "read")
    /\ got' = [got EXCEPT ![p] = UNION {flash[a] : a \in Span(p)}]
    /\ Goto(p, "unlock")
    /\ UNCHANGED <<k, bytes_written, chipVars>>

Copy(p) == Transfer(p, "copy") /\ Goto(p, "out") /\ UNCHANGED <<localVars, chipVars>>

-----------------------------------------------------------------------------
ChipDone ==
    /\ busy /\ busy' = FALSE /\ flash' = becomes
    /\ UNCHANGED <<schedVars, lockVars, callVars, pc, in_dma, localVars, seen, becomes>>

\* The timer interrupt.
Tick ==
    /\ ~panicked
    /\ process_tick
    /\ UNCHANGED <<lockVars, callVars, pc, in_dma, localVars, chipVars>>

Continue(p) ==
    \/ Lock(p) \/ LockBlocks(p) \/ Unlock(p)
    \/ DmaLock(p) \/ DmaBlocks(p)
    \/ Send(p) \/ Poll(p) \/ Read(p) \/ Copy(p)

Next ==
    \/ \E p \in Users : Continue(p) \/ \E r \in Requests : Call(p, r)
    \/ ChipDone
    \/ Tick

Spec == Init /\ [][Next]_vars

\* The timer keeps interrupting, but not so fast that no process ever gets on
\* with its call, and the chip is done after a while.
FairSpec ==
    /\ Spec
    /\ WF_vars(Tick) /\ WF_vars(ChipDone)
    /\ SF_vars(\E p \in Users : Continue(p))

-----------------------------------------------------------------------------
\* Every variable has its type; a call stays within the chip.
TypeOK ==
    /\ SchedTypeOK
    /\ mtx \in Mutex /\ dma_0_mtx \in Mutex
    /\ calls \in 0 .. MaxCalls
    /\ id \in [Users -> 0 .. MaxCalls]
    /\ \A p \in Users : req[p].what \in {"read", "write"} => Span(p) \subseteq Address
    /\ pc \in [Users -> {"out", "lock", "unlock"} \cup InTransfer]
    /\ in_dma \in [Users -> BOOLEAN]
    /\ k \in [Users -> 0 .. 5]
    /\ \A p \in Users : bytes_written[p] \in 0 .. chip_size
    /\ got \in [Users -> SUBSET CallId]
    /\ flash \in Contents /\ becomes \in Contents /\ busy \in BOOLEAN

\* The chip is in the middle of a command only while one process is sending it,
\* and has seen what that process sent: no other byte gets in between, although
\* the DMA channel is given up after each byte.  (And every variable has its type.)
CommandsWhole ==
    /\ TypeOK
    /\ seen # <<>> => \E p \in Users : pc[p] = "send" /\ k[p] > 0
    /\ \A p \in Users : pc[p] = "send" => seen = SubSeq(Command(p), 1, k[p])

\* A call that is about to return has done what it was called for: flash_write
\* programmed every byte and the erasure is complete.
DoneWhenReturned ==
    \A p \in Users : pc[p] = "unlock" =>
        /\ ~busy
        /\ req[p].what = "write" => \A a \in Span(p) : id[p] \in flash[a]
        /\ req[p].what \in {"erase sector", "erase chip"} =>
             \A a \in Target(p) : flash[a] = {}

\* A reader is never given the bytes of a write that is not finished, nor the
\* status of a busy chip in place of bytes.
ReadsFinishedWrites ==
    /\ \A p, q \in Users : pc[q] \notin {"out", "lock"} /\ p # q => id[q] \notin got[p]
    /\ \A p \in Users : pc[p] = "read" => ~busy

\* The two mutexes, one within the other, never leave everyone waiting, and no
\* wakeup is lost: every call returns.
CallsReturn == (\E p \in Users : pc[p] # "out") ~> \A p \in Users : pc[p] = "out"
=============================================================================
