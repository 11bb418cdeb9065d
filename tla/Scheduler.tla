------------------------------ MODULE Scheduler ------------------------------
(***************************************************************************)
(* The round-robin scheduler of src/process.c and the sleeping mutex of    *)
(* src/mutex.c that is built on it.  There is one CPU: the process         *)
(* current_proc runs, the others sit on exactly one list of processes.     *)
(* The operators are action fragments that the modules of the components   *)
(* use; each says what the primed scheduler variables are.                 *)
(***************************************************************************)
EXTENDS Integers, Sequences, SequencesExt

CONSTANT MaxPid   \* bound on the process identifiers ever handed out

ASSUME MaxPidAssumption == MaxPid \in Nat \ {0}

Pid  == 0 .. MaxPid
IDLE == 0             \* the process of main(): the boot code, then the idle loop

VARIABLES
    current_proc,        \* the process the CPU runs
    process_ready_list,  \* FIFO of the processes that could run
    state,               \* proc_state of every process
    panicked             \* panic() was reached: the machine stops for ever

schedVars == <<current_proc, process_ready_list, state, panicked>>

ProcState == {"EMPTY", "RUNNING", "READY", "BLOCKED", "ZOMBIE"}

SchedTypeOK ==
    /\ current_proc \in Pid
    /\ process_ready_list \in Seq(Pid)
    /\ state \in [Pid -> ProcState]
    /\ panicked \in BOOLEAN

SchedInit ==
    /\ current_proc = IDLE
    /\ process_ready_list = <<>>
    /\ state = [p \in Pid |-> IF p = IDLE THEN "RUNNING" ELSE "EMPTY"]
    /\ panicked = FALSE

-----------------------------------------------------------------------------
(* Lists of processes.                                                      *)

p_list_pop_front(s) == IF s = <<>> THEN <<>> ELSE Tail(s)

\* The idle process gives way to any other process that is ready.
IdleLast(ready) ==
    IF Head(ready) = IDLE /\ Tail(ready) # <<>>
    THEN Append(Tail(ready), IDLE)
    ELSE ready

(***************************************************************************)
(* process_switch(next): leave the current process, whatever st made of    *)
(* it, and run next, which gets the state RUNNING.                         *)
(***************************************************************************)
process_switch(next, ready, st) ==
    /\ current_proc' = next
    /\ process_ready_list' = ready
    /\ state' = [st EXCEPT ![next] = "RUNNING"]
    /\ UNCHANGED panicked

(***************************************************************************)
(* process_schedule() with the ready list `ready' and the states st that   *)
(* its caller left.  An empty list is a NULL next_proc: panic.             *)
(***************************************************************************)
process_schedule(ready, st) ==
    IF ready # <<>>
    THEN process_switch(Head(IdleLast(ready)), Tail(IdleLast(ready)), st)
    ELSE /\ panicked' = TRUE
         /\ state' = st
         /\ UNCHANGED <<current_proc, process_ready_list>>

\* Mutant: the process is left out of the ready list.
process_tick_forgets ==
    process_schedule(process_ready_list,
                     [state EXCEPT ![current_proc] = "READY"])

\* The timer interrupt PRT0: the current process goes to the back of the list.
process_tick ==
    process_schedule(Append(process_ready_list, current_proc),
                     [state EXCEPT ![current_proc] = "READY"])

\* The current process blocks: its caller puts it on a list of waiters.
process_block ==
    process_schedule(process_ready_list,
                     [state EXCEPT ![current_proc] = "BLOCKED"])

\* Mutant: last in, first out.
process_ready_front(p) ==
    /\ process_ready_list' = <<p>> \o process_ready_list
    /\ state' = [state EXCEPT ![p] = "READY"]
    /\ UNCHANGED <<current_proc, panicked>>

\* p becomes ready while the current process keeps running.
process_ready(p) ==
    /\ process_ready_list' = Append(process_ready_list, p)
    /\ state' = [state EXCEPT ![p] = "READY"]
    /\ UNCHANGED <<current_proc, panicked>>

\* Mutant: the waiter is taken off its list and not made ready.
process_wake_nobody(waiters) == UNCHANGED schedVars

\* The front of a list of waiters, if any, becomes ready (mutex, semaphore).
process_wake_front(waiters) ==
    IF waiters = <<>> THEN UNCHANGED schedVars
                      ELSE process_ready(Head(waiters))

-----------------------------------------------------------------------------
(* The mutex of mutex.c.  All of it runs with interrupts disabled; only     *)
(* process_schedule inside mutex_lock lets another process run.  The lock   *)
(* is not handed over: a woken process tests `locked' again.                *)

Mutex == [locked : BOOLEAN, blocked_list : Seq(Pid)]

mutex_init == [locked |-> FALSE, blocked_list |-> <<>>]

mutex_taken(m) == [m EXCEPT !.locked = TRUE]

mutex_queued(m, p) == [m EXCEPT !.blocked_list = Append(@, p)]

\* Mutant: the waiter that is woken stays on the list.
mutex_unlocked_kept(m) == [m EXCEPT !.locked = FALSE]

mutex_unlocked(m) ==
    [m EXCEPT !.locked = FALSE, !.blocked_list = p_list_pop_front(@)]
=============================================================================
