------------------------------ MODULE BlockBuf ------------------------------
(***************************************************************************)
(* The pool of 512-byte buffers of src/block_buf.c: a counting semaphore   *)
(* (src/semaphore.c) says how many buffers are left and a mutex per buffer *)
(* says which.  The processes 1..MaxPid take a buffer and give it back,    *)
(* over and over, as sd_read and sd_write do; process IDLE only runs.      *)
(***************************************************************************)
EXTENDS Scheduler, FiniteSets

CONSTANTS
    BLOCK_512_COUNT,  \* how many buffers there are
    Sleepers          \* the processes that call block_512_alloc, which sleeps;
                      \* the others call block_512_tryalloc

ASSUME BlockBufAssumption ==
    /\ BLOCK_512_COUNT \in Nat \ {0}
    /\ Sleepers \subseteq 1 .. MaxPid

Users == 1 .. MaxPid
Slot  == 0 .. BLOCK_512_COUNT - 1

VARIABLES
    available_512,  \* the semaphore: permits left, and processes asleep
    free_512,       \* the mutex of each buffer
    pc,             \* where in its call each process is
    i               \* the buffer it tries, then the one it has

bufVars == <<available_512, free_512>>
vars    == <<schedVars, bufVars, pc, i>>

TypeOK ==
    /\ SchedTypeOK
    /\ available_512 \in [count : -MaxPid .. BLOCK_512_COUNT,
                      blocked_list : Seq(Users)]
    /\ free_512 \in [Slot -> Mutex]
    /\ pc \in [Pid -> {"idle", "out", "wait", "scan", "have", "freed"}]
    /\ i \in [Pid -> 0 .. BLOCK_512_COUNT]

\* block_buf_init, and processes 1..MaxPid ready.
Init ==
    /\ current_proc = IDLE
    /\ process_ready_list = [p \in Users |-> p]
    /\ state = [p \in Pid |-> IF p = IDLE THEN "RUNNING" ELSE "READY"]
    /\ panicked = FALSE
    /\ available_512 = [count |-> BLOCK_512_COUNT, blocked_list |-> <<>>]
    /\ free_512 = [s \in Slot |-> mutex_init]
    /\ pc = [p \in Pid |-> IF p = IDLE THEN "idle" ELSE "out"]
    /\ i = [p \in Pid |-> 0]

On(p, label) == ~panicked /\ p = current_proc /\ pc[p] = label

Goto(p, label) == pc' = [pc EXCEPT ![p] = label]

-----------------------------------------------------------------------------
(* semaphore.c                                                              *)

PermitTaken(s) == [s EXCEPT !.count = @ - 1]

\* Tests the count it is given, in `s'; sleeps while it is negative, and tests
\* it again, with interrupts disabled, when it is woken.
semaphore_wait(p, s) ==
    \/ /\ s.count >= 0
       /\ available_512' = s
       /\ Goto(p, "scan")
       /\ UNCHANGED schedVars
    \/ /\ s.count < 0
       /\ available_512' = [s EXCEPT !.blocked_list = Append(@, p)]
       /\ Goto(p, "wait")
       /\ process_block

\* Mutant: off by one.
MayTakeOneTooMany(s) == s.count >= 0

MayTake(s) == s.count > 0

semaphore_trywait(p) ==
    /\ MayTake(available_512)
    /\ available_512' = PermitTaken(available_512)
    /\ Goto(p, "scan")
    /\ UNCHANGED schedVars

\* Mutant: the permit is given back and nobody is woken.
semaphore_signal_silent ==
    /\ available_512' = [available_512 EXCEPT !.count = @ + 1]
    /\ UNCHANGED schedVars

semaphore_signal ==
    /\ available_512' = [count |-> available_512.count + 1,
                         blocked_list |-> p_list_pop_front(available_512.blocked_list)]
    /\ process_wake_front(available_512.blocked_list)

-----------------------------------------------------------------------------
(* block_buf.c                                                              *)

Alloc(p) ==
    /\ On(p, "out") /\ p \in Sleepers
    /\ semaphore_wait(p, PermitTaken(available_512))
    /\ i' = [i EXCEPT ![p] = 0]
    /\ UNCHANGED free_512

Woken(p) ==
    /\ On(p, "wait")
    /\ semaphore_wait(p, available_512)
    /\ UNCHANGED <<free_512, i>>

TryAlloc(p) ==
    /\ On(p, "out") /\ p \in Users \ Sleepers
    /\ semaphore_trywait(p)
    /\ i' = [i EXCEPT ![p] = 0]
    /\ UNCHANGED free_512

\* Mutant: a locked mutex is taken again.
mutex_trylock_blind(m) == TRUE

mutex_trylock(m) == ~m.locked

\* mutex_trylock of one buffer: have it, or go on to the next.
Scan(p) ==
    /\ On(p, "scan") /\ i[p] \in Slot
    /\ IF mutex_trylock(free_512[i[p]])
       THEN /\ free_512' = [free_512 EXCEPT ![i[p]] = mutex_taken(@)]
            /\ Goto(p, "have")
            /\ UNCHANGED i
       ELSE /\ i' = [i EXCEPT ![p] = @ + 1]
            /\ UNCHANGED <<free_512, pc>>
    /\ UNCHANGED <<schedVars, available_512>>

\* No buffer although the semaphore promised one.
ScanPanics == \E p \in Users : On(p, "scan") /\ i[p] \notin Slot

Free(p) ==
    /\ On(p, "have")
    /\ process_wake_front(free_512[i[p]].blocked_list)
    /\ free_512' = [free_512 EXCEPT ![i[p]] = mutex_unlocked(@)]
    /\ Goto(p, "freed")
    /\ UNCHANGED <<available_512, i>>

Signal(p) ==
    /\ On(p, "freed")
    /\ semaphore_signal
    /\ Goto(p, "out")
    /\ i' = [i EXCEPT ![p] = 0]
    /\ UNCHANGED free_512

Tick ==
    /\ ~panicked /\ pc[current_proc] # "wait"
    /\ process_tick
    /\ UNCHANGED <<bufVars, pc, i>>

Step(p) == Alloc(p) \/ Woken(p) \/ TryAlloc(p) \/ Scan(p) \/ Free(p) \/ Signal(p)

Next == (\E p \in Users : Step(p)) \/ Tick

Spec == Init /\ [][Next]_vars

(***************************************************************************)
(* The timer interrupt stays pending until it is taken, and a process that *)
(* runs again and again gets to its next step.                             *)
(***************************************************************************)
FairSpec == Spec /\ SF_vars(Tick) /\ \A p \in Users : SF_vars(Step(p))

-----------------------------------------------------------------------------
Holders == {p \in Users : pc[p] \in {"scan", "have", "freed"}}
Waiting == {p \in Users : pc[p] = "wait"}

\* A buffer belongs to one process at a time, and its mutex is locked exactly
\* while somebody has it.
BlockExclusive ==
    /\ \A p, q \in Users :
         pc[p] = "have" /\ pc[q] = "have" /\ i[p] = i[q] => p = q
    /\ \A s \in Slot :
         free_512[s].locked <=> \E p \in Users : pc[p] = "have" /\ i[p] = s

\* The semaphore counts permits and sleepers in one number: what is left, less
\* one for each process that has a permit or waits for one.
PermitAccounting ==
    available_512.count =
        BLOCK_512_COUNT - Cardinality(Holders) - Cardinality(Waiting)

\* The panic() at the end of block_512_alloc and block_512_tryalloc cannot be
\* reached: the count is exact, and who gets a permit finds an unlocked buffer,
\* even though the scan can be interrupted by others that take and free buffers
\* behind it.  (And every variable has its type.)
PermitFindsBlock == TypeOK /\ PermitAccounting /\ ~panicked /\ ~ScanPanics

\* Because a woken process tests the number that counts the other sleepers as
\* well, sleepers can be stranded while buffers are free.  That never happens
\* to as many sleepers as there are buffers: it takes one more.
StrandedOnlyTogether ==
    /\ Holders = {}
    /\ Waiting # {}
    /\ \A p \in Waiting : state[p] = "BLOCKED"
    => Cardinality(Waiting) > BLOCK_512_COUNT

\* A sleeper gets a buffer unless another one joins it: it takes two to strand
\* or to overtake each other, and who only tries never starves a sleeper.
SleeperGetsBlock ==
    \A p \in Users : Waiting = {p} ~> pc[p] = "have" \/ Cardinality(Waiting) > 1
=============================================================================
