------------------------------- MODULE Process -------------------------------
(***************************************************************************)
(* Processes of the kernel, src/process.c, with the page blocks of mem.c   *)
(* that hold them, the DMA channel of dma.c that copies for them, the idle *)
(* loop of main.c and the program of init/src/main.c.                      *)
(*                                                                         *)
(* A process is a pid.  System calls run with interrupts enabled, so the   *)
(* timer can switch processes between any two steps; a section between     *)
(* intrinsic_di and cpu_set_int_state is one step, except that             *)
(* process_schedule inside it ends the step and the process resumes, still *)
(* with interrupts disabled, at one of the labels IntOff.                  *)
(***************************************************************************)
EXTENDS Scheduler, FiniteSets

CONSTANTS
    MaxBlock,  \* page blocks are 0..MaxBlock; block 0 is the one main() reserves
    NULL       \* no process, no block

ASSUME BlockAssumption == MaxBlock \in Nat
ASSUME NullAssumption  == NULL \notin Pid /\ NULL \notin 0 .. MaxBlock

Block       == 0 .. MaxBlock
KernelBlock == 0     \* CBR at boot: the kernel's stack, then process IDLE's
INIT        == 1     \* the pid of init, the child of the boot code
ANY         == -1    \* waitpid(-1, ...)
WaitPid     == Pid \cup {ANY}

VARIABLES
    next_pid,             \* pid_t next_pid
    process_list,         \* the process structures that exist
    process_zombie_list,  \* zombies that no waiter has taken
    process_wait_list,    \* processes blocked in waitpid
    ppid, cbr,            \* fields of struct process
    wait_pid,             \* what a blocked waitpid waits for
    wait_process,         \* the zombie an exiting child handed to its waiter
    page_usage_map,       \* which page blocks are taken
    dma_0_mtx,            \* the mutex of DMA channel 0
    pc,                   \* where in a system call each process is
    after,                \* where it goes when its DMA copy is done
    new_cbr,              \* local of process_new
    child_proc,           \* local of sys_fork
    found_process,        \* local of sys_waitpid
    halted                \* main() returned

tableVars == <<next_pid, process_list, ppid, cbr, page_usage_map>>
waitVars  == <<process_zombie_list, process_wait_list, wait_pid, wait_process>>
localVars == <<new_cbr, child_proc, found_process>>
vars == <<schedVars, tableVars, waitVars, localVars, dma_0_mtx, pc, after, halted>>

Home     == {"boot", "idle", "init", "init_wait", "init_exit", "user"}
InFork   == {"fork_link", "fork_ppid", "fork_clone", "fork_ready"}
InDma    == {"dma_lock", "dma_retry", "dma_xfer"}
InWait   == {"wait_woken", "reap"}
Label    == Home \cup InFork \cup InDma \cup InWait \cup {"dead"}
IntOff   == {"dma_retry", "wait_woken"}   \* resumed inside a critical section

TypeOK ==
    /\ SchedTypeOK
    /\ next_pid \in 1 .. MaxPid + 1
    /\ process_list \in SUBSET Pid
    /\ process_zombie_list \in Seq(Pid)
    /\ process_wait_list \in Seq(Pid)
    /\ ppid \in [Pid -> Pid]
    /\ cbr \in [Pid -> Block \cup {NULL}]
    /\ wait_pid \in [Pid -> WaitPid]
    /\ wait_process \in [Pid -> Pid \cup {NULL}]
    /\ page_usage_map \in [Block -> {"empty", "full"}]
    /\ dma_0_mtx \in Mutex
    /\ pc \in [Pid -> Label]
    /\ after \in [Pid -> {"init", "user", "fork_ready", "reap"}]
    /\ new_cbr \in [Pid -> Block \cup {NULL}]
    /\ child_proc \in [Pid -> Pid \cup {NULL}]
    /\ found_process \in [Pid -> Pid \cup {NULL}]
    /\ halted \in BOOLEAN

\* main() reserved the kernel's block and process_init created process IDLE.
Init ==
    /\ SchedInit
    /\ next_pid = 1
    /\ process_list = {IDLE}
    /\ process_zombie_list = <<>>
    /\ process_wait_list = <<>>
    /\ ppid = [p \in Pid |-> 0]
    /\ cbr = [p \in Pid |-> IF p = IDLE THEN KernelBlock ELSE NULL]
    /\ wait_pid = [p \in Pid |-> ANY]
    /\ wait_process = [p \in Pid |-> NULL]
    /\ page_usage_map =
         [b \in Block |-> IF b = KernelBlock THEN "full" ELSE "empty"]
    /\ dma_0_mtx = mutex_init
    /\ pc = [p \in Pid |-> IF p = IDLE THEN "boot" ELSE "dead"]
    /\ after = [p \in Pid |-> "user"]
    /\ new_cbr = [p \in Pid |-> NULL]
    /\ child_proc = [p \in Pid |-> NULL]
    /\ found_process = [p \in Pid |-> NULL]
    /\ halted = FALSE

-----------------------------------------------------------------------------
On(p, labels) ==
    /\ ~panicked /\ ~halted
    /\ p = current_proc
    /\ pc[p] \in labels

Goto(p, label) == pc' = [pc EXCEPT ![p] = label]

(* mem.c *)

\* Mutant: the block need not be empty.
mem_alloc_any_block(b) ==
    /\ \A c \in Block : c < b => page_usage_map[c] # "empty"
    /\ page_usage_map' = [page_usage_map EXCEPT ![b] = "full"]

\* First fit.
mem_alloc_page_block(b) ==
    /\ page_usage_map[b] = "empty"
    /\ \A c \in Block : c < b => page_usage_map[c] # "empty"
    /\ page_usage_map' = [page_usage_map EXCEPT ![b] = "full"]

mem_free_page_block(b) ==
    page_usage_map' = [page_usage_map EXCEPT ![b] = "empty"]

\* The structure is freed: its fields go back to the value of one never used.
process_destroy(d) ==
    /\ mem_free_page_block(cbr[d])
    /\ process_list' = process_list \ {d}
    /\ cbr' = [cbr EXCEPT ![d] = NULL]
    /\ ppid' = [ppid EXCEPT ![d] = 0]
    /\ state' = [state EXCEPT ![d] = "EMPTY"]
    /\ UNCHANGED <<next_pid, current_proc, process_ready_list, panicked>>

-----------------------------------------------------------------------------
(* sys_fork *)

\* Where a program goes on after fork or waitpid: main(), init, any other.
Resume(p) == CASE p = IDLE -> "idle"
                  [] p = INIT -> "init_wait"
                  [] OTHER    -> "user"

\* Where a new process starts: the boot code's child becomes init.
ChildStart(c) == IF c = INIT THEN "init" ELSE "user"

\* The bound on pids, for the forks that have not taken theirs yet as well.
PidsLeft ==
    next_pid + Cardinality({q \in Pid : pc[q] = "fork_link"}) <= MaxPid

ForkAlloc(p) ==
    /\ On(p, {"boot", "init", "user"})
    /\ PidsLeft
    /\ \E b \in Block : /\ mem_alloc_page_block(b)
                        /\ new_cbr' = [new_cbr EXCEPT ![p] = b]
    /\ Goto(p, "fork_link")
    /\ UNCHANGED <<schedVars, next_pid, process_list, ppid, cbr, waitVars,
                   child_proc, found_process, dma_0_mtx, after, halted>>

\* malloc returns NULL, or no block is empty.
ForkNoMemory(p) ==
    /\ On(p, {"boot", "init", "user"})
    /\ Goto(p, Resume(p))
    /\ UNCHANGED <<schedVars, tableVars, waitVars, localVars, dma_0_mtx, after,
                   halted>>

\* Mutant: ++next_pid for next_pid++.
NewPidIncremented == next_pid + 1

NewPid == next_pid

\* The structure gets its pid and is put on the list of all processes.
ForkLink(p) ==
    /\ On(p, {"fork_link"})
    /\ next_pid \in Pid
    /\ next_pid' = next_pid + 1
    /\ process_list' = process_list \cup {NewPid}
    /\ ppid' = [ppid EXCEPT ![NewPid] = 0]
    /\ cbr' = [cbr EXCEPT ![NewPid] = new_cbr[p]]
    /\ state' = [state EXCEPT ![NewPid] = "EMPTY"]
    /\ new_cbr' = [new_cbr EXCEPT ![p] = NULL]
    /\ child_proc' = [child_proc EXCEPT ![p] = NewPid]
    /\ Goto(p, "fork_ppid")
    /\ UNCHANGED <<current_proc, process_ready_list, panicked, page_usage_map,
                   waitVars, found_process, dma_0_mtx, after, halted>>

ForkPpid(p) ==
    /\ On(p, {"fork_ppid"})
    /\ ppid' = [ppid EXCEPT ![child_proc[p]] = p]
    /\ Goto(p, "fork_clone")
    /\ UNCHANGED <<schedVars, next_pid, process_list, cbr, page_usage_map,
                   waitVars, localVars, dma_0_mtx, after, halted>>

\* The files are cloned: copy the whole block to the child with the DMA channel.
ForkClone(p) ==
    /\ On(p, {"fork_clone"})
    /\ Goto(p, "dma_lock")
    /\ after' = [after EXCEPT ![p] = "fork_ready"]
    /\ UNCHANGED <<schedVars, tableVars, waitVars, localVars, dma_0_mtx, halted>>

ForkCloneFails(p) ==
    /\ On(p, {"fork_clone"})
    /\ process_destroy(child_proc[p])
    /\ child_proc' = [child_proc EXCEPT ![p] = NULL]
    /\ Goto(p, Resume(p))
    /\ UNCHANGED <<waitVars, new_cbr, found_process, dma_0_mtx, after, halted>>

ForkReady(p) ==
    /\ On(p, {"fork_ready"})
    /\ process_ready(child_proc[p])
    /\ pc' = [pc EXCEPT ![p] = Resume(p),
                        ![child_proc[p]] = ChildStart(child_proc[p])]
    /\ child_proc' = [child_proc EXCEPT ![p] = NULL]
    /\ UNCHANGED <<tableVars, waitVars, new_cbr, found_process, dma_0_mtx,
                   after, halted>>

-----------------------------------------------------------------------------
(* dma_memcpy: the mutex, the transfer (burst mode stops the CPU, so it is  *)
(* over when the next instruction runs), and the unlock.                    *)

\* Mutant: `if' for `while' in mutex_lock.
DmaFreeTestedOnce(p) == ~dma_0_mtx.locked \/ pc[p] = "dma_retry"

DmaFree(p) == ~dma_0_mtx.locked

DmaLock(p) ==
    /\ On(p, {"dma_lock", "dma_retry"})
    /\ DmaFree(p)
    /\ dma_0_mtx' = mutex_taken(dma_0_mtx)
    /\ Goto(p, "dma_xfer")
    /\ UNCHANGED <<schedVars, tableVars, waitVars, localVars, after, halted>>

DmaBlock(p) ==
    /\ On(p, {"dma_lock", "dma_retry"})
    /\ ~DmaFree(p)
    /\ dma_0_mtx' = mutex_queued(dma_0_mtx, p)
    /\ process_block
    /\ Goto(p, "dma_retry")
    /\ UNCHANGED <<tableVars, waitVars, localVars, after, halted>>

DmaUnlock(p) ==
    /\ On(p, {"dma_xfer"})
    /\ process_wake_front(dma_0_mtx.blocked_list)
    /\ dma_0_mtx' = mutex_unlocked(dma_0_mtx)
    /\ Goto(p, after[p])
    /\ UNCHANGED <<tableVars, waitVars, localVars, after, halted>>

\* A program's read, write, open or execve copies with the DMA channel.
SysIo(p) ==
    /\ On(p, {"init", "user"})
    /\ after' = [after EXCEPT ![p] = pc[p]]
    /\ Goto(p, "dma_lock")
    /\ UNCHANGED <<schedVars, tableVars, waitVars, localVars, dma_0_mtx, halted>>

-----------------------------------------------------------------------------
(* sys_waitpid *)

\* Who calls waitpid, for whom, and with which options and wstatus.
Waits(p, pid, nohang, wstatus) ==
    \/ On(p, {"idle"}) /\ pid = INIT /\ nohang /\ ~wstatus
    \/ On(p, {"init_wait"}) /\ pid = ANY /\ ~nohang /\ wstatus
    \/ On(p, {"user"})

\* Mutant: any process with the right pid will do.
IsChildOrPid(c, p, pid) == ppid[c] = p \/ c = pid

IsChild(c, p, pid) == ppid[c] = p /\ (pid = ANY \/ c = pid)

ChildExists(p, pid) == \E c \in process_list : IsChild(c, p, pid)

\* Mutant: only the front of the list is looked at.
NoZombieInFront(p, pid) ==
    process_zombie_list # <<>> => ~IsChild(Head(process_zombie_list), p, pid)

NoZombie(p, pid) ==
    \A i \in DOMAIN process_zombie_list : ~IsChild(process_zombie_list[i], p, pid)

\* Mutant: the zombie stays on the list.
ZombiesKept(i) == process_zombie_list

ZombiesWithout(i) == RemoveAt(process_zombie_list, i)

\* The first zombie of the list that the caller waits for is taken off it.
WaitFound(p, pid, nohang, wstatus) ==
    /\ Waits(p, pid, nohang, wstatus)
    /\ \E i \in DOMAIN process_zombie_list :
         LET z == process_zombie_list[i] IN
         /\ IsChild(z, p, pid)
         /\ \A j \in 1 .. i - 1 : ~IsChild(process_zombie_list[j], p, pid)
         /\ found_process' = [found_process EXCEPT ![p] = z]
         /\ process_zombie_list' = ZombiesWithout(i)
         /\ panicked' = (state[z] # "ZOMBIE")
    /\ Goto(p, IF wstatus THEN "dma_lock" ELSE "reap")
    /\ after' = IF wstatus THEN [after EXCEPT ![p] = "reap"] ELSE after
    /\ UNCHANGED <<current_proc, process_ready_list, state, tableVars,
                   process_wait_list, wait_pid, wait_process, new_cbr,
                   child_proc, dma_0_mtx, halted>>

WaitHang(p, pid, wstatus) ==
    /\ Waits(p, pid, FALSE, wstatus)
    /\ NoZombie(p, pid)
    /\ ChildExists(p, pid)
    /\ wait_pid' = [wait_pid EXCEPT ![p] = pid]
    /\ wait_process' = [wait_process EXCEPT ![p] = NULL]
    /\ process_wait_list' = Append(process_wait_list, p)
    /\ process_block
    /\ Goto(p, "wait_woken")
    /\ after' = [after EXCEPT ![p] = IF wstatus THEN "reap" ELSE "user"]
    /\ UNCHANGED <<tableVars, process_zombie_list, localVars, dma_0_mtx, halted>>

\* The waiter resumes: an exiting child switched to it and named itself.
WaitWoken(p) ==
    /\ On(p, {"wait_woken"})
    /\ found_process' = [found_process EXCEPT ![p] = wait_process[p]]
    /\ Goto(p, IF wait_process[p] = NULL THEN Resume(p)
               ELSE IF after[p] = "reap" THEN "dma_lock" ELSE "reap")
    /\ UNCHANGED <<schedVars, tableVars, waitVars, new_cbr, child_proc,
                   dma_0_mtx, after, halted>>

\* waitpid returns 0 (no zombie yet, WNOHANG) or -1 (no such child).
WaitReturn(p, pid, nohang) ==
    /\ \E wstatus \in BOOLEAN : Waits(p, pid, nohang, wstatus)
    /\ NoZombie(p, pid)
    /\ nohang \/ ~ChildExists(p, pid)
    /\ Goto(p, IF p = INIT /\ ~ChildExists(p, pid) THEN "init_exit" ELSE pc[p])
    /\ UNCHANGED <<schedVars, tableVars, waitVars, localVars, dma_0_mtx, after,
                   halted>>

\* The status is copied: the zombie is destroyed and its pid returned, which
\* ends the idle loop.
Reap(p) ==
    /\ On(p, {"reap"})
    /\ process_destroy(found_process[p])
    /\ found_process' = [found_process EXCEPT ![p] = NULL]
    /\ Goto(p, Resume(p))
    /\ halted' = (p = IDLE)
    /\ UNCHANGED <<waitVars, new_cbr, child_proc, dma_0_mtx, after>>

-----------------------------------------------------------------------------
(* sys_exit.  Closing the files and the working directory is left out.      *)

\* The place in the wait list of a process that waits for its child p.
WaiterOf(p, i) ==
    LET w == process_wait_list[i]
    IN  w = ppid[p] /\ (wait_pid[w] = ANY \/ wait_pid[w] = p)

\* Mutant: orphans go to the idle process.
ChildrenToIdle(p) ==
    [c \in Pid |-> IF c \in process_list /\ ppid[c] = p THEN IDLE ELSE ppid[c]]

\* All children, dead or alive, go to init.
ChildrenReparented(p) ==
    [c \in Pid |-> IF c \in process_list /\ ppid[c] = p THEN INIT ELSE ppid[c]]

Exits(p) ==
    /\ On(p, {"user", "init_exit"})
    /\ ppid' = ChildrenReparented(p)
    /\ Goto(p, "dead")
    /\ UNCHANGED <<next_pid, process_list, cbr, page_usage_map, wait_pid,
                   localVars, dma_0_mtx, after, halted>>

Zombified(p) == [state EXCEPT ![p] = "ZOMBIE"]

\* The parent waits: the CPU goes straight to it.
ExitHandOff(p) ==
    /\ Exits(p)
    /\ \E i \in DOMAIN process_wait_list :
         /\ WaiterOf(p, i)
         /\ wait_process' = [wait_process EXCEPT ![process_wait_list[i]] = p]
         /\ process_wait_list' = RemoveAt(process_wait_list, i)
         /\ process_switch(process_wait_list[i], process_ready_list, Zombified(p))
    /\ UNCHANGED process_zombie_list

ExitZombie(p) ==
    /\ Exits(p)
    /\ \A i \in DOMAIN process_wait_list : ~WaiterOf(p, i)
    /\ process_zombie_list' = Append(process_zombie_list, p)
    /\ process_schedule(process_ready_list, Zombified(p))
    /\ UNCHANGED <<process_wait_list, wait_process>>

-----------------------------------------------------------------------------
\* int_prt0: taken only between instructions that run with interrupts enabled.
Tick ==
    /\ ~panicked /\ ~halted
    /\ pc[current_proc] \notin IntOff
    /\ process_tick
    /\ UNCHANGED <<tableVars, waitVars, localVars, dma_0_mtx, pc, after, halted>>

\* main() returned: the machine is at rest.
Rest == halted /\ UNCHANGED vars

Critical(p) == DmaLock(p) \/ DmaBlock(p) \/ WaitWoken(p)

Exit(p) == ExitHandOff(p) \/ ExitZombie(p)

Step(p) ==
    \/ ForkAlloc(p) \/ ForkNoMemory(p) \/ ForkLink(p) \/ ForkPpid(p)
    \/ ForkClone(p) \/ ForkCloneFails(p) \/ ForkReady(p)
    \/ DmaUnlock(p) \/ SysIo(p)
    \/ Critical(p)
    \/ \E pid \in WaitPid, nohang, wstatus \in BOOLEAN :
          WaitFound(p, pid, nohang, wstatus)
    \/ \E pid \in WaitPid, wstatus \in BOOLEAN : WaitHang(p, pid, wstatus)
    \/ \E pid \in WaitPid, nohang \in BOOLEAN : WaitReturn(p, pid, nohang)
    \/ Reap(p)
    \/ Exit(p)

Next == (\E p \in Pid : Step(p)) \/ Tick \/ Rest

Spec == Init /\ [][Next]_vars

(***************************************************************************)
(* Fairness.  The timer keeps its interrupt pending until it is taken, and *)
(* a section with interrupts disabled runs to its end because nothing else *)
(* can run.                                                                *)
(***************************************************************************)
TimerFairness == SF_vars(Tick) /\ \A p \in Pid : WF_vars(Critical(p))

FairSpec == Spec /\ TimerFairness

(***************************************************************************)
(* What a run of well-behaved programs adds: between two timer interrupts  *)
(* the CPU executes instructions of the process it runs, init gets to its  *)
(* fork, and every program exits in the end (a property of the programs,   *)
(* not of the kernel).                                                     *)
(***************************************************************************)
ProgramFairness ==
    /\ \A p \in Pid : SF_vars(Step(p)) /\ SF_vars(Exit(p))
    /\ SF_vars(ForkAlloc(INIT) \/ ForkNoMemory(INIT))

ExitingSpec == FairSpec /\ ProgramFairness

-----------------------------------------------------------------------------
(* Safety.                                                                  *)

Living(p) == p \in process_list /\ state[p] \in {"RUNNING", "READY", "BLOCKED"}

\* The list a process is on is the one its state says, it is there once, and
\* exactly the current process is RUNNING: no handler of process.c or mutex.c
\* drops a process, queues it twice or leaves it on a list it was taken from.
\* So panic() is never reached: the ready list is not empty when the scheduler
\* takes its head (main.c:94, the idle process must remain runnable), every
\* process on the zombie list is a zombie, and no dead process is run again.
QueueDiscipline ==
    /\ ~panicked
    /\ IsInjective(process_ready_list)
    /\ IsInjective(process_wait_list \o dma_0_mtx.blocked_list)
    /\ \A p \in Pid :
         /\ state[p] = "READY" <=> p \in ToSet(process_ready_list)
         /\ state[p] = "BLOCKED" <=>
              p \in ToSet(process_wait_list \o dma_0_mtx.blocked_list)
         /\ state[p] = "RUNNING" <=> p = current_proc

\* No zombie is lost and none is reaped twice: each is either on the zombie
\* list, once, or held by exactly one waitpid, its parent's.
ZombieOwnedOnce ==
    /\ IsInjective(process_zombie_list)
    /\ \A z \in Pid :
         LET held == {p \in Pid : \/ found_process[p] = z
                                  \/ pc[p] = "wait_woken" /\ wait_process[p] = z}
         IN  IF state[z] = "ZOMBIE"
             THEN IF z \in ToSet(process_zombie_list) THEN held = {}
                                                      ELSE held = {ppid[z]}
             ELSE held = {} /\ z \notin ToSet(process_zombie_list)

\* Every page block but the kernel's is taken exactly when one process, or
\* one fork that is under way, owns it: none leaks and none has two owners.
BlockOwnedOnce ==
    \A b \in Block :
        LET owners == {p \in process_list : cbr[p] = b}
            forks  == {p \in Pid : new_cbr[p] = b}
        IN  Cardinality(owners) + Cardinality(forks)
              = (IF page_usage_map[b] = "full" THEN 1 ELSE 0)

\* A process blocked in waitpid has a living child whose exit will wake it.
WaiterHasChild ==
    \A w \in ToSet(process_wait_list) :
        \E c \in process_list : IsChild(c, w, wait_pid[w]) /\ Living(c)

\* No process but init sleeps in waitpid while a zombie it waits for is on the
\* zombie list: sys_exit looks at the waiters, and sys_waitpid at the zombies,
\* in one section with interrupts disabled.  (Init adopts zombies asleep.)
NoMissedZombie ==
    \A w \in ToSet(process_wait_list) \ {INIT} :
        \A z \in ToSet(process_zombie_list) : ~IsChild(z, w, wait_pid[w])

\* Nobody sleeps in waitpid who will not be woken by a child, or who would find
\* a zombie if awake.
WaitersWillWake == WaiterHasChild /\ NoMissedZombie

\* Init exits after every other program (init/src/main.c:51), and when main()
\* returns all processes are reaped and all page blocks are free again.
CleanShutdown ==
    /\ pc[INIT] = "init_exit" => process_list = {IDLE, INIT}
    /\ halted => /\ process_list = {IDLE}
                 /\ \A b \in Block \ {KernelBlock} : page_usage_map[b] = "empty"

\* At most one process programs the DMA channel, and it holds the mutex.
DmaExclusive ==
    /\ \A p, q \in Pid : pc[p] = "dma_xfer" /\ pc[q] = "dma_xfer" => p = q
    /\ dma_0_mtx.locked <=> \E p \in Pid : pc[p] = "dma_xfer"

\* No wakeup is lost: if the mutex is free while processes sleep on it, one
\* that was woken is on its way to try again.
NoLostWakeup ==
    ~dma_0_mtx.locked /\ dma_0_mtx.blocked_list # <<>> =>
        \E p \in Pid : /\ pc[p] = "dma_retry"
                       /\ state[p] \in {"READY", "RUNNING"}

-----------------------------------------------------------------------------
(* Action properties and liveness.                                          *)

Place(p) == CHOOSE i \in DOMAIN process_ready_list : process_ready_list[i] = p

\* Round robin: while a process stays on the ready list, other than IDLE, no
\* step moves it back, so it runs after those that were ahead of it.
NoOvertaking ==
    [][\A p \in Pid \ {IDLE} :
          p \in ToSet(process_ready_list) /\ p \in ToSet(process_ready_list')
          => Place(p)' <= Place(p)]_vars

\* If every program exits in the end, the machine halts once init has started.
HaltsInTheEnd == state[INIT] = "READY" ~> halted

-----------------------------------------------------------------------------
(* Refinement: process.c implements the tree of processes of ProcessTree.   *)

Life == [p \in Pid |->
    IF p >= next_pid \/ (p \in process_list /\ state[p] = "EMPTY") THEN "unborn"
    ELSE IF p \notin process_list THEN "gone"
    ELSE IF state[p] = "ZOMBIE" THEN "zombie" ELSE "alive"]

Parent == [p \in Pid |-> IF Life[p] \in {"alive", "zombie"} THEN ppid[p] ELSE 0]

Tree == INSTANCE ProcessTree
          WITH life <- Life, parent <- Parent, actor <- current_proc

\* Forks, exits and reaps as user programs see them: one parent for each
\* process, orphans to init, a zombie reaped once and by its parent, and no
\* process runs after its exit.
TreeSpec == Tree!Spec
=============================================================================
