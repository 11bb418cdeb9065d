---------------------------- MODULE ProcessProofs ----------------------------
(***************************************************************************)
(* Proofs about Process, for every number of processes and page blocks:    *)
(* first its lists, states and waits, then its page blocks, its tree of    *)
(* processes and that it implements ProcessTree.                           *)
(***************************************************************************)
EXTENDS Process, SchedulerProofs, SequenceTheorems, FiniteSetTheorems,
        WellFoundedInduction, TLAPS

(* Lists of processes.                                                      *)

LEMMA PopType ==
    ASSUME NEW S, NEW s \in Seq(S)
    PROVE  p_list_pop_front(s) \in Seq(S)
<1>1. CASE s = <<>>
  BY <1>1 DEF p_list_pop_front
<1>2. CASE s # <<>>
  BY <1>2, HeadTailProperties DEF p_list_pop_front
<1> QED BY <1>1, <1>2

LEMMA IdleLastType ==
    ASSUME NEW ready \in Seq(Pid), ready # <<>>
    PROVE  /\ Head(IdleLast(ready)) \in Pid
           /\ Tail(IdleLast(ready)) \in Seq(Pid)
<1>1. Head(ready) \in Pid /\ Tail(ready) \in Seq(Pid)
  BY HeadTailProperties
<1>2. IDLE \in Pid
  BY MaxPidAssumption DEF IDLE, Pid
<1>3. IdleLast(ready) \in Seq(Pid) /\ IdleLast(ready) # <<>>
  BY <1>1, <1>2, AppendProperties DEF IdleLast
<1> QED BY <1>3, HeadTailProperties

LEMMA ScheduleType ==
    ASSUME SchedTypeOK,
           NEW ready \in Seq(Pid), NEW st \in [Pid -> ProcState],
           process_schedule(ready, st)
    PROVE  SchedTypeOK'
<1>1. CASE ready # <<>>
  BY <1>1, IdleLastType DEF process_schedule, process_switch, SchedTypeOK, ProcState
<1>2. CASE ready = <<>>
  BY <1>2 DEF process_schedule, SchedTypeOK
<1> QED BY <1>1, <1>2

LEMMA ReadyType ==
    ASSUME SchedTypeOK, NEW p \in Pid, process_ready(p)
    PROVE  SchedTypeOK'
BY AppendProperties DEF process_ready, SchedTypeOK, ProcState

LEMMA WakeType ==
    ASSUME SchedTypeOK, NEW waiters \in Seq(Pid), process_wake_front(waiters)
    PROVE  SchedTypeOK'
<1>1. CASE waiters = <<>>
  BY <1>1 DEF process_wake_front, SchedTypeOK, schedVars
<1>2. CASE waiters # <<>>
  BY <1>2, HeadTailProperties, ReadyType DEF process_wake_front
<1> QED BY <1>1, <1>2

LEMMA BlockType ==
    ASSUME SchedTypeOK, process_block
    PROVE  SchedTypeOK'
<1>1. [state EXCEPT ![current_proc] = "BLOCKED"] \in [Pid -> ProcState]
  BY DEF SchedTypeOK, ProcState
<1> QED BY <1>1, ScheduleType DEF process_block, SchedTypeOK

LEMMA TickType ==
    ASSUME SchedTypeOK, process_tick
    PROVE  SchedTypeOK'
<1>1. [state EXCEPT ![current_proc] = "READY"] \in [Pid -> ProcState]
  BY DEF SchedTypeOK, ProcState
<1>2. Append(process_ready_list, current_proc) \in Seq(Pid)
  BY AppendProperties DEF SchedTypeOK
<1> QED BY <1>1, <1>2, ScheduleType DEF process_tick

LEMMA MutexType ==
    ASSUME NEW m \in Mutex, NEW p \in Pid
    PROVE  /\ mutex_init \in Mutex
           /\ mutex_taken(m) \in Mutex
           /\ mutex_queued(m, p) \in Mutex
           /\ mutex_unlocked(m) \in Mutex
           /\ mutex_taken(m).locked = TRUE
           /\ mutex_queued(m, p).locked = m.locked
           /\ mutex_unlocked(m).locked = FALSE
<1>1. m.blocked_list \in Seq(Pid)
  BY DEF Mutex
<1>2. /\ p_list_pop_front(m.blocked_list) \in Seq(Pid)
      /\ Append(m.blocked_list, p) \in Seq(Pid)
      /\ <<>> \in Seq(Pid)
  BY <1>1, PopType, AppendProperties, EmptySeq
<1> QED BY <1>2 DEF Mutex, mutex_init, mutex_taken, mutex_queued, mutex_unlocked

-----------------------------------------------------------------------------
(* The invariant, in parts: what is true of forks, of the scheduler, of the  *)
(* processes that sleep, of those that are dead, of the idle process, of the *)
(* children that are not born and of the zombies.                            *)

\* A fork between process_new and p_list_append has a child, which only it
\* knows and which does not run yet.
Forking(p) ==
    \/ pc[p] \in {"fork_ppid", "fork_clone", "fork_ready"}
    \/ pc[p] \in InDma /\ after[p] = "fork_ready"

ForkHasChild == \A p \in Pid : Forking(p) => child_proc[p] \in Pid

ChildDead ==
    /\ \A p \in Pid : child_proc[p] \in Pid =>
          child_proc[p] < next_pid /\ pc[child_proc[p]] = "dead"
    /\ \A p, q \in Pid :
          child_proc[p] \in Pid /\ child_proc[p] = child_proc[q] => p = q
    /\ \A c \in Pid : c >= next_pid => pc[c] = "dead"

Waiters  == ToSet(process_wait_list)
Sleepers == ToSet(dma_0_mtx.blocked_list)

\* A process is BLOCKED exactly while it is on one of the two lists of waiters,
\* the one its place in a system call says.
SleepInv ==
    /\ IsInjective(process_wait_list)
    /\ IsInjective(dma_0_mtx.blocked_list)
    /\ \A p \in Pid : p \in Waiters <=> state[p] = "BLOCKED" /\ pc[p] = "wait_woken"
    /\ \A p \in Pid : p \in Sleepers <=> state[p] = "BLOCKED" /\ pc[p] = "dma_retry"
    /\ \A p \in Pid : state[p] = "BLOCKED" => pc[p] \in IntOff
    /\ \A p \in Waiters : wait_process[p] = NULL

LifeInv ==
    /\ \A p \in Pid : pc[p] = "dead" <=> state[p] \in {"EMPTY", "ZOMBIE"}
    /\ \A p \in Pid : state[p] # "EMPTY" => p \in process_list
    /\ \A p \in process_list : p < next_pid
    /\ IDLE \in process_list

\* The boot code forks init before anything else exists, so that the idle
\* process never waits for the DMA channel and is always awake.
Booting == pc[IDLE] \notin {"idle", "reap"}

IdleInv ==
    /\ pc[IDLE] \in {"boot", "idle", "reap", "dma_lock", "dma_xfer"} \cup InFork
    /\ pc[IDLE] \in InDma => after[IDLE] = "fork_ready"
    /\ Booting => \A p \in Pid \ {IDLE} : state[p] = "EMPTY"
    /\ pc[IDLE] \in {"boot", "fork_link"} => next_pid = 1

ChildInv ==
    /\ \A p \in Pid : child_proc[p] \in Pid => Forking(p)
    /\ \A p \in Pid : child_proc[p] \in Pid =>
          /\ child_proc[p] \in process_list
          /\ state[child_proc[p]] = "EMPTY"
          /\ ppid[child_proc[p]] = IF pc[p] = "fork_ppid" THEN 0 ELSE p
          /\ p < child_proc[p]
    /\ \A c \in process_list : state[c] = "EMPTY" => \E q \in Pid : child_proc[q] = c

\* A waitpid that has found a zombie has it until it is reaped; one that was
\* woken by an exit has it already.
Reaping(p) ==
    \/ pc[p] = "reap"
    \/ pc[p] \in InDma /\ after[p] = "reap"

Holds(p, z) ==
    \/ found_process[p] = z
    \/ pc[p] = "wait_woken" /\ wait_process[p] = z

Zombies == ToSet(process_zombie_list)

ZombieInv ==
    /\ IsInjective(process_zombie_list)
    /\ \A z \in Zombies : state[z] = "ZOMBIE"
    /\ \A p \in Pid : found_process[p] \in Pid <=> Reaping(p)
    /\ \A p, z \in Pid : Holds(p, z) =>
          state[z] = "ZOMBIE" /\ z \notin Zombies /\ ppid[z] = p
    /\ \A z \in Pid : state[z] = "ZOMBIE" =>
          z \in Zombies \/ \E p \in Pid : Holds(p, z)

IInv ==
    /\ TypeOK /\ ForkHasChild /\ ChildDead /\ DmaExclusive
    /\ SchedInv /\ SleepInv /\ LifeInv /\ IdleInv /\ ChildInv /\ ZombieInv

-----------------------------------------------------------------------------
(* Types.                                                                   *)

LEMMA InitType == Init => TypeOK
<1> SUFFICES ASSUME Init PROVE TypeOK
  OBVIOUS
<1>1. IDLE \in Pid /\ Pid \subseteq Nat /\ 1 \in 1 .. MaxPid + 1
  BY MaxPidAssumption DEF IDLE, Pid
<1>2. KernelBlock \in Block
  BY BlockAssumption DEF KernelBlock, Block
<1>3. SchedTypeOK
  BY <1>1, EmptySeq DEF Init, SchedInit, SchedTypeOK, ProcState
<1>4. mutex_init \in Mutex
  BY EmptySeq DEF mutex_init, Mutex
<1>5. 0 \in Pid /\ <<>> \in Seq(Pid)
  BY <1>1, EmptySeq DEF IDLE
<1> QED
  BY <1>1, <1>2, <1>3, <1>4, <1>5
     DEF Init, TypeOK, Label, Home, WaitPid

LEMMA TypeStep ==
    ASSUME TypeOK, ForkHasChild, [Next]_vars
    PROVE  TypeOK'
<1> USE DEF TypeOK
<1>p. ASSUME NEW p \in Pid, Step(p) PROVE TypeOK'
  <2> USE DEF On, Goto
  <2>l. pc[p] \in Label /\ Resume(p) \in Label
    BY DEF Resume, Label, Home
  <2>n. next_pid \in Nat /\ MaxPid \in Nat
    BY MaxPidAssumption
  <2>1. CASE ForkAlloc(p)
    BY <2>1, <2>l DEF ForkAlloc, mem_alloc_page_block, SchedTypeOK, schedVars, waitVars, Label, InFork
  <2>2. CASE ForkNoMemory(p)
    BY <2>2, <2>l DEF ForkNoMemory, SchedTypeOK, schedVars, tableVars, waitVars, localVars
  <2>3. CASE ForkLink(p)
    <3>1. NewPid \in Pid /\ next_pid' \in 1 .. MaxPid + 1
      BY <2>3, <2>n DEF ForkLink, NewPid, Pid
    <3>2. SchedTypeOK'
      BY <2>3, <3>1 DEF ForkLink, SchedTypeOK, ProcState
    <3>3. 0 \in Pid
      BY MaxPidAssumption DEF Pid
    <3> QED BY <2>3, <3>1, <3>2, <3>3 DEF ForkLink, waitVars, Label, InFork
  <2>4. CASE ForkPpid(p)
    BY <2>4 DEF ForkPpid, SchedTypeOK, schedVars, waitVars, localVars, Label, InFork
  <2>5. CASE ForkClone(p)
    BY <2>5 DEF ForkClone, SchedTypeOK, schedVars, tableVars, waitVars, localVars, Label, InDma
  <2>6. CASE ForkCloneFails(p)
    <3>1. 0 \in Pid
      BY MaxPidAssumption DEF Pid
    <3> QED BY <2>6, <2>l, <3>1 DEF ForkCloneFails, process_destroy, mem_free_page_block, SchedTypeOK, ProcState, waitVars
  <2>7. CASE ForkReady(p)
    <3>1. child_proc[p] \in Pid
      BY <2>7 DEF ForkReady, ForkHasChild, Forking
    <3>2. SchedTypeOK'
      BY <2>7, <3>1, ReadyType DEF ForkReady
    <3>3. ChildStart(child_proc[p]) \in Label
      BY DEF ChildStart, Label, Home
    <3> QED BY <2>7, <2>l, <3>2, <3>3 DEF ForkReady, tableVars, waitVars
  <2>8. CASE DmaLock(p)
    BY <2>8, MutexType DEF DmaLock, SchedTypeOK, schedVars, tableVars, waitVars, localVars, Label, InDma
  <2>9. CASE DmaBlock(p)
    BY <2>9, MutexType, BlockType DEF DmaBlock, tableVars, waitVars, localVars, Label, InDma
  <2>10. CASE DmaUnlock(p)
    <3>1. dma_0_mtx.blocked_list \in Seq(Pid)
      BY DEF Mutex
    <3>2. SchedTypeOK'
      BY <2>10, <3>1, WakeType DEF DmaUnlock
    <3>3. after[p] \in Label
      BY DEF Label, Home, InFork, InWait
    <3> QED BY <2>10, <3>2, <3>3, MutexType DEF DmaUnlock, tableVars, waitVars, localVars
  <2>11. CASE SysIo(p)
    BY <2>11 DEF SysIo, SchedTypeOK, schedVars, tableVars, waitVars, localVars, Label, InDma
  <2>12. ASSUME NEW pid \in WaitPid, NEW nohang \in BOOLEAN, NEW wstatus \in BOOLEAN,
                WaitFound(p, pid, nohang, wstatus)
         PROVE TypeOK'
    <3>1. PICK i \in DOMAIN process_zombie_list :
            /\ found_process' = [found_process EXCEPT ![p] = process_zombie_list[i]]
            /\ process_zombie_list' = ZombiesWithout(i)
            /\ panicked' = (state[process_zombie_list[i]] # "ZOMBIE")
      BY <2>12 DEF WaitFound
    <3>2. process_zombie_list[i] \in Pid
      BY LenProperties, ElementOfSeq
    <3>3. process_zombie_list' \in Seq(Pid)
      BY <3>1, RemoveAtList DEF ZombiesWithout
    <3>4. panicked' \in BOOLEAN
      BY <3>1
    <3>5. SchedTypeOK'
      BY <2>12, <3>4 DEF WaitFound, SchedTypeOK
    <3>6. found_process' \in [Pid -> Pid \cup {NULL}]
      BY <3>1, <3>2
    <3>7. pc' \in [Pid -> Label] /\ after' \in [Pid -> {"init", "user", "fork_ready", "reap"}]
      BY <2>12 DEF WaitFound, Label, InDma, InWait
    <3> QED BY <2>12, <3>3, <3>5, <3>6, <3>7 DEF WaitFound, tableVars
  <2>13. ASSUME NEW pid \in WaitPid, NEW wstatus \in BOOLEAN, WaitHang(p, pid, wstatus)
         PROVE TypeOK'
    <3>1. SchedTypeOK'
      BY <2>13, BlockType DEF WaitHang
    <3>2. process_wait_list' \in Seq(Pid)
      BY <2>13, AppendProperties DEF WaitHang
    <3>3. pc' \in [Pid -> Label] /\ after' \in [Pid -> {"init", "user", "fork_ready", "reap"}]
      BY <2>13 DEF WaitHang, Label, InWait
    <3> QED BY <2>13, <3>1, <3>2, <3>3 DEF WaitHang, tableVars, localVars
  <2>14. ASSUME NEW pid \in WaitPid, NEW nohang \in BOOLEAN, WaitReturn(p, pid, nohang)
         PROVE TypeOK'
    BY <2>14, <2>l DEF WaitReturn, SchedTypeOK, schedVars, tableVars, waitVars, localVars, Label, Home
  <2>15. CASE WaitWoken(p)
    BY <2>15, <2>l DEF WaitWoken, SchedTypeOK, schedVars, tableVars, waitVars, Label, InDma, InWait
  <2>16. CASE Reap(p)
    <3>1. 0 \in Pid
      BY MaxPidAssumption DEF Pid
    <3> QED BY <2>16, <2>l, <3>1 DEF Reap, process_destroy, mem_free_page_block, SchedTypeOK, ProcState, waitVars
  <2>e. ASSUME Exits(p)
        PROVE  /\ ppid' \in [Pid -> Pid] /\ pc' \in [Pid -> Label]
               /\ Zombified(p) \in [Pid -> ProcState]
    <3>1. ChildrenReparented(p) \in [Pid -> Pid]
      BY MaxPidAssumption DEF ChildrenReparented, INIT, Pid
    <3> QED BY <2>e, <3>1 DEF Exits, Zombified, SchedTypeOK, ProcState, Label
  <2>17. CASE ExitHandOff(p)
    <3>0. Exits(p)
      BY <2>17 DEF ExitHandOff
    <3>1. PICK i \in DOMAIN process_wait_list :
            /\ wait_process' = [wait_process EXCEPT ![process_wait_list[i]] = p]
            /\ process_wait_list' = RemoveAt(process_wait_list, i)
            /\ process_switch(process_wait_list[i], process_ready_list, Zombified(p))
      BY <2>17 DEF ExitHandOff
    <3>2. process_wait_list[i] \in Pid
      BY LenProperties, ElementOfSeq
    <3>3. process_wait_list' \in Seq(Pid)
      BY <3>1, RemoveAtList
    <3>4. SchedTypeOK'
      BY <3>0, <3>1, <3>2, <2>e DEF process_switch, SchedTypeOK, ProcState
    <3>5. wait_process' \in [Pid -> Pid \cup {NULL}]
      BY <3>1, <3>2
    <3> QED BY <2>17, <3>0, <2>e, <3>3, <3>4, <3>5 DEF ExitHandOff, Exits, localVars
  <2>18. CASE ExitZombie(p)
    <3>0. Exits(p)
      BY <2>18 DEF ExitZombie
    <3>1. SchedTypeOK'
      BY <2>18, <3>0, <2>e, ScheduleType DEF ExitZombie, SchedTypeOK
    <3>2. process_zombie_list' \in Seq(Pid)
      BY <2>18, AppendProperties DEF ExitZombie
    <3> QED BY <2>18, <3>0, <2>e, <3>1, <3>2 DEF ExitZombie, Exits, localVars
  <2> QED
    BY <1>p, <2>1, <2>2, <2>3, <2>4, <2>5, <2>6, <2>7, <2>8, <2>9, <2>10, <2>11, <2>12,
       <2>13, <2>14, <2>15, <2>16, <2>17, <2>18 DEF Step, Critical, Exit
<1>t. CASE Tick
  BY <1>t, TickType DEF Tick, tableVars, waitVars, localVars
<1>u. CASE UNCHANGED vars
  BY <1>u DEF vars, schedVars, tableVars, waitVars, localVars, SchedTypeOK
<1> QED BY <1>p, <1>t, <1>u DEF Next, Rest

-----------------------------------------------------------------------------
(* Forks under way.                                                         *)

LEMMA ForkStep ==
    ASSUME TypeOK, ForkHasChild, ChildDead, [Next]_vars
    PROVE  ForkHasChild' /\ ChildDead'
<1>0. Pid \subseteq Nat /\ NULL \notin Pid /\ next_pid \in Nat
  BY MaxPidAssumption, NullAssumption DEF Pid, TypeOK
<1>t. pc \in [Pid -> Label] /\ after \in [Pid -> {"init", "user", "fork_ready", "reap"}]
      /\ child_proc \in [Pid -> Pid \cup {NULL}]
  BY DEF TypeOK
\* Most steps move one process, and begin no fork.
<1>m. ASSUME NEW p \in Pid, NEW l \in Label, pc[p] # "dead", l # "fork_ppid",
             pc' = [pc EXCEPT ![p] = l], UNCHANGED <<child_proc, next_pid>>,
             \A q \in Pid \ {p} : after'[q] = after[q],
             Forking(p)' => Forking(p)
      PROVE  ForkHasChild' /\ ChildDead'
  <2>1. \A q \in Pid : Forking(q)' => Forking(q)
    BY <1>m, <1>t DEF Forking
  <2>2. ForkHasChild'
    BY <2>1, <1>m DEF ForkHasChild
  <2>3. \A q \in Pid : pc[q] = "dead" => pc'[q] = "dead"
    BY <1>m, <1>t
  <2>4. ChildDead'
    BY <2>3, <1>m, <1>t DEF ChildDead
  <2> QED BY <2>2, <2>4
\* A fork that ends forgets its child.
<1>f. ASSUME NEW p \in Pid, NEW l \in Label \ InFork, l \notin InDma, pc[p] # "dead",
             child_proc' = [child_proc EXCEPT ![p] = NULL],
             UNCHANGED <<next_pid, after>>,
             \A q \in Pid \ {p} : pc'[q] = pc[q] \/ (q = child_proc[p] /\ q < next_pid /\ pc'[q] \in {"init", "user"}),
             pc'[p] = l
      PROVE  ForkHasChild' /\ ChildDead'
  <2>1. \A q \in Pid : Forking(q)' => q # p /\ Forking(q)
    BY <1>f, <1>t DEF Forking, InFork, InDma
  <2>2. ForkHasChild'
    BY <2>1, <1>f, <1>t DEF ForkHasChild
  <2>3. \A q \in Pid : child_proc'[q] \in Pid => q # p /\ child_proc'[q] = child_proc[q]
    BY <1>f, <1>0, <1>t
  <2>4. \A q \in Pid : child_proc'[q] \in Pid =>
           child_proc[q] # p /\ child_proc[q] # child_proc[p]
    BY <2>3, <1>f, <1>t DEF ChildDead
  <2>5. \A c \in Pid : c >= next_pid => c # p /\ pc'[c] = "dead"
    BY <1>f, <1>0, <1>t DEF ChildDead
  <2>6. \A q \in Pid : child_proc'[q] \in Pid => pc'[child_proc'[q]] = "dead"
    BY <2>3, <2>4, <1>f, <1>t DEF ChildDead
  <2> QED BY <2>2, <2>3, <2>5, <2>6, <1>f DEF ChildDead
<1>p. ASSUME NEW p \in Pid, Step(p) PROVE ForkHasChild' /\ ChildDead'
  <2> USE DEF On, Goto
  <2>l. Resume(p) \in {"idle", "init_wait", "user"}
    BY DEF Resume
  <2>h. Resume(p) \in Label \ InFork /\ Resume(p) \notin InDma
    BY <2>l DEF Label, Home, InFork, InDma
  <2>1. CASE ForkAlloc(p)
    BY <2>1, <1>m, <1>t DEF ForkAlloc, Forking, Label, InFork, InDma
  <2>2. CASE ForkNoMemory(p)
    BY <2>2, <2>l, <1>m, <1>t DEF ForkNoMemory, Forking, localVars, tableVars, Label, Home, InDma
  <2>3. CASE ForkLink(p)
    <3>1. /\ child_proc' = [child_proc EXCEPT ![p] = next_pid]
          /\ next_pid \in Pid /\ next_pid' = next_pid + 1
          /\ pc' = [pc EXCEPT ![p] = "fork_ppid"] /\ pc[p] = "fork_link"
          /\ after' = after
      BY <2>3 DEF ForkLink, NewPid
    <3>2. ForkHasChild'
      <4>1. \A q \in Pid : q # p /\ Forking(q)' => Forking(q)
        BY <3>1, <1>t DEF Forking
      <4> QED BY <3>1, <4>1, <1>t DEF ForkHasChild
    <3>3. pc[next_pid] = "dead" /\ next_pid # p
      BY <3>1, <1>0 DEF ChildDead
    <3>4. \A q \in Pid : child_proc[q] \in Pid => child_proc[q] < next_pid /\ child_proc[q] # p
      BY <3>1 DEF ChildDead
    <3>5. \A q \in Pid : child_proc'[q] \in Pid =>
            child_proc'[q] < next_pid' /\ pc'[child_proc'[q]] = "dead"
      <4>1. \A c \in Pid \ {p} : pc'[c] = pc[c]
        BY <3>1, <1>t
      <4>2. child_proc'[p] = next_pid /\ next_pid < next_pid'
        BY <3>1, <1>0, <1>t
      <4>3. \A q \in Pid \ {p} : child_proc'[q] = child_proc[q]
        BY <3>1, <1>t
      <4>4. \A q \in Pid \ {p} : child_proc[q] \in Pid =>
              child_proc[q] < next_pid' /\ pc[child_proc[q]] = "dead"
        <5>1. \A m \in Pid : m < next_pid => m < next_pid'
          BY <3>1, <1>0
        <5>2. \A q \in Pid : child_proc[q] \in Pid =>
                child_proc[q] < next_pid /\ pc[child_proc[q]] = "dead"
          BY DEF ChildDead
        <5> QED BY <5>1, <5>2
      <4> QED BY <3>3, <3>4, <4>1, <4>2, <4>3, <4>4, <3>1
    <3>6. \A q, r \in Pid :
            child_proc'[q] \in Pid /\ child_proc'[q] = child_proc'[r] => q = r
      <4>1. \A q \in Pid \ {p} : child_proc'[q] = child_proc[q] /\ child_proc[q] # next_pid
        BY <3>1, <3>4, <1>0, <1>t
      <4>2. child_proc'[p] = next_pid
        BY <3>1, <1>t
      <4>3. \A q, r \in Pid :
              child_proc[q] \in Pid /\ child_proc[q] = child_proc[r] => q = r
        BY DEF ChildDead
      <4> QED BY <4>1, <4>2, <4>3
    <3>7. \A c \in Pid : c >= next_pid' => pc'[c] = "dead"
      BY <3>1, <1>0, <1>t DEF ChildDead
    <3> QED BY <3>2, <3>5, <3>6, <3>7 DEF ChildDead
  <2>4. CASE ForkPpid(p)
    BY <2>4, <1>m, <1>t DEF ForkPpid, Forking, localVars, Label, InFork, InDma
  <2>5. CASE ForkClone(p)
    BY <2>5, <1>m, <1>t DEF ForkClone, Forking, localVars, tableVars, Label, InDma
  <2>6. CASE ForkCloneFails(p)
    <3>1. pc' = [pc EXCEPT ![p] = Resume(p)] /\ pc[p] = "fork_clone"
          /\ child_proc' = [child_proc EXCEPT ![p] = NULL] /\ UNCHANGED <<next_pid, after>>
      BY <2>6 DEF ForkCloneFails, process_destroy
    <3> QED BY <3>1, <2>h, <1>f, <1>t
  <2>7. CASE ForkReady(p)
    <3>1. child_proc[p] \in Pid /\ child_proc[p] < next_pid /\ child_proc[p] # p
      BY <2>7 DEF ForkReady, ForkHasChild, Forking, ChildDead
    <3>2. ChildStart(child_proc[p]) \in {"init", "user"}
      BY DEF ChildStart
    <3>3. /\ pc[p] = "fork_ready"
          /\ child_proc' = [child_proc EXCEPT ![p] = NULL] /\ UNCHANGED <<next_pid, after>>
          /\ pc' = [pc EXCEPT ![p] = Resume(p), ![child_proc[p]] = ChildStart(child_proc[p])]
      BY <2>7 DEF ForkReady, tableVars
    <3>4. pc'[p] = Resume(p)
      BY <3>1, <3>3, <1>t
    <3>5. \A q \in Pid \ {p} :
            pc'[q] = pc[q] \/ (q = child_proc[p] /\ q < next_pid /\ pc'[q] \in {"init", "user"})
      BY <3>1, <3>2, <3>3, <1>t
    <3> QED BY <3>3, <3>4, <3>5, <2>h, <1>f
  <2>8. CASE DmaLock(p)
    BY <2>8, <1>m, <1>t DEF DmaLock, Forking, localVars, tableVars, Label, InDma
  <2>9. CASE DmaBlock(p)
    BY <2>9, <1>m, <1>t DEF DmaBlock, Forking, localVars, tableVars, Label, InDma
  <2>10. CASE DmaUnlock(p)
    BY <2>10, <1>m, <1>t DEF DmaUnlock, Forking, localVars, tableVars, Label, Home, InFork, InWait, InDma
  <2>11. CASE SysIo(p)
    BY <2>11, <1>m, <1>t DEF SysIo, Forking, localVars, tableVars, Label, InDma
  <2>w. ASSUME NEW pid \in WaitPid, NEW nohang \in BOOLEAN, NEW wstatus \in BOOLEAN,
               Waits(p, pid, nohang, wstatus)
        PROVE  pc[p] \in {"idle", "init_wait", "user"}
    BY <2>w DEF Waits
  <2>12. ASSUME NEW pid \in WaitPid, NEW nohang \in BOOLEAN, NEW wstatus \in BOOLEAN,
                WaitFound(p, pid, nohang, wstatus)
         PROVE ForkHasChild' /\ ChildDead'
    <3>1. /\ pc[p] \in {"idle", "init_wait", "user"}
          /\ UNCHANGED <<child_proc, next_pid>>
          /\ \/ pc' = [pc EXCEPT ![p] = "dma_lock"] /\ after' = [after EXCEPT ![p] = "reap"]
             \/ pc' = [pc EXCEPT ![p] = "reap"] /\ after' = after
      BY <2>12, <2>w DEF WaitFound, tableVars
    <3> QED BY <3>1, <1>m, <1>t DEF Forking, Label, InDma, InWait
  <2>13. ASSUME NEW pid \in WaitPid, NEW wstatus \in BOOLEAN, WaitHang(p, pid, wstatus)
         PROVE ForkHasChild' /\ ChildDead'
    BY <2>13, <2>w, <1>m, <1>t DEF WaitHang, Forking, tableVars, localVars, Label, InDma, InWait
  <2>14. ASSUME NEW pid \in WaitPid, NEW nohang \in BOOLEAN, WaitReturn(p, pid, nohang)
         PROVE ForkHasChild' /\ ChildDead'
    BY <2>14, <2>w, <1>m, <1>t DEF WaitReturn, Forking, tableVars, localVars, Label, Home, InDma
  <2>15. CASE WaitWoken(p)
    BY <2>15, <2>l, <1>m, <1>t DEF WaitWoken, Forking, tableVars, Label, Home, InDma, InWait
  <2>16. CASE Reap(p)
    BY <2>16, <2>l, <1>m, <1>t DEF Reap, process_destroy, Forking, Label, Home, InDma
  <2>17. CASE Exits(p)
    BY <2>17, <1>m, <1>t DEF Exits, Forking, localVars, Label, InDma
  <2> QED
    BY <1>p, <2>1, <2>2, <2>3, <2>4, <2>5, <2>6, <2>7, <2>8, <2>9, <2>10, <2>11, <2>12,
       <2>13, <2>14, <2>15, <2>16, <2>17 DEF Step, Critical, Exit, ExitHandOff, ExitZombie
<1>u. CASE UNCHANGED vars \/ Tick
  BY <1>u DEF vars, schedVars, tableVars, waitVars, localVars, ForkHasChild, ChildDead, Forking, Tick
<1> QED BY <1>p, <1>u DEF Next, Rest

-----------------------------------------------------------------------------
(* The DMA channel.                                                         *)

LEMMA DmaStep ==
    ASSUME TypeOK, ForkHasChild, ChildDead, DmaExclusive, [Next]_vars
    PROVE  DmaExclusive'
<1>t. /\ pc \in [Pid -> Label] /\ dma_0_mtx \in Mutex
      /\ after \in [Pid -> {"init", "user", "fork_ready", "reap"}]
  BY DEF TypeOK
\* Most steps neither begin nor end a transfer.
<1>m. ASSUME UNCHANGED dma_0_mtx,
             \A q \in Pid : pc'[q] = "dma_xfer" <=> pc[q] = "dma_xfer"
      PROVE  DmaExclusive'
  BY <1>m DEF DmaExclusive
<1>p. ASSUME NEW p \in Pid, Step(p) PROVE DmaExclusive'
  <2> USE DEF On, Goto
  <2>l. Resume(p) \in {"idle", "init_wait", "user"}
    BY DEF Resume
  <2>1. CASE DmaLock(p)
    <3>1. ~dma_0_mtx.locked /\ dma_0_mtx'.locked
      BY <2>1, <1>t, MutexType DEF DmaLock, DmaFree
    <3>2. \A q \in Pid : pc'[q] = "dma_xfer" <=> q = p
      BY <2>1, <3>1, <1>t DEF DmaLock, DmaExclusive
    <3> QED BY <3>1, <3>2 DEF DmaExclusive
  <2>2. CASE DmaUnlock(p)
    <3>1. ~dma_0_mtx'.locked
      BY <2>2, <1>t, MutexType DEF DmaUnlock
    <3>2. \A q \in Pid : pc[q] = "dma_xfer" => q = p
      BY <2>2 DEF DmaUnlock, DmaExclusive
    <3>3. pc'[p] # "dma_xfer" /\ \A q \in Pid \ {p} : pc'[q] = pc[q]
      BY <2>2, <1>t DEF DmaUnlock
    <3>4. \A q \in Pid : pc'[q] # "dma_xfer"
      BY <3>2, <3>3
    <3> QED BY <3>1, <3>4 DEF DmaExclusive
  <2>3. CASE DmaBlock(p)
    <3>1. dma_0_mtx'.locked = dma_0_mtx.locked
      BY <2>3, <1>t, MutexType DEF DmaBlock
    <3>2. \A q \in Pid : pc'[q] = "dma_xfer" <=> pc[q] = "dma_xfer"
      BY <2>3, <1>t DEF DmaBlock
    <3> QED BY <3>1, <3>2 DEF DmaExclusive
  <2>4. CASE ForkReady(p)
    <3>1. child_proc[p] \in Pid /\ pc[child_proc[p]] = "dead"
      BY <2>4 DEF ForkReady, ForkHasChild, Forking, ChildDead
    <3>2. ChildStart(child_proc[p]) \in {"init", "user"}
      BY DEF ChildStart
    <3>3. \A q \in Pid : pc'[q] = "dma_xfer" <=> pc[q] = "dma_xfer"
      BY <2>4, <2>l, <3>1, <3>2, <1>t DEF ForkReady
    <3> QED BY <2>4, <3>3, <1>m DEF ForkReady
  <2>5. CASE ForkAlloc(p) \/ ForkNoMemory(p) \/ ForkLink(p) \/ ForkPpid(p) \/ ForkClone(p)
             \/ ForkCloneFails(p) \/ SysIo(p) \/ WaitWoken(p) \/ Reap(p) \/ Exits(p)
    BY <2>5, <2>l, <1>t, <1>m
       DEF ForkAlloc, ForkNoMemory, ForkLink, ForkPpid, ForkClone, ForkCloneFails, SysIo,
           WaitWoken, Reap, Exits
  <2>w. ASSUME NEW pid \in WaitPid, NEW nohang \in BOOLEAN, NEW wstatus \in BOOLEAN,
               Waits(p, pid, nohang, wstatus)
        PROVE  pc[p] \in {"idle", "init_wait", "user"}
    BY <2>w DEF Waits
  <2>6. ASSUME NEW pid \in WaitPid, NEW nohang \in BOOLEAN, NEW wstatus \in BOOLEAN,
               \/ WaitFound(p, pid, nohang, wstatus)
               \/ WaitHang(p, pid, wstatus)
               \/ WaitReturn(p, pid, nohang)
        PROVE  DmaExclusive'
    BY <2>6, <2>w, <1>t, <1>m DEF WaitFound, WaitHang, WaitReturn
  <2> QED
    BY <1>p, <2>1, <2>2, <2>3, <2>4, <2>5, <2>6
       DEF Step, Critical, Exit, ExitHandOff, ExitZombie
<1>u. CASE UNCHANGED vars \/ Tick
  BY <1>u DEF vars, DmaExclusive, Tick
<1> QED BY <1>p, <1>u DEF Next, Rest

-----------------------------------------------------------------------------
(* What a step does to the states of the processes.  Seen from the lists of  *)
(* waiters, a process that is awake may become the current one or cease to   *)
(* be it at any step that calls the scheduler.                               *)

Same(q) == state'[q] = state[q] \/ (state[q] \in Awake /\ state'[q] \in Awake)

Moves(p, s) == state'[p] = s /\ \A q \in Pid \ {p} : Same(q)

\* What the other lemmas need of the invariant when process p executes.
LEMMA CurrentFacts ==
    ASSUME IInv, NEW p \in Pid, NEW labels, On(p, labels)
    PROVE  /\ p = current_proc /\ pc[p] \in labels
           /\ state[p] = "RUNNING" /\ pc[p] # "dead"
           /\ p \in process_list /\ p < next_pid
           /\ p \notin Waiters /\ p \notin Sleepers /\ p \notin Zombies
<1>1. p = current_proc /\ pc[p] \in labels
  BY DEF On
<1>2. state[p] = "RUNNING"
  BY <1>1 DEF IInv, SchedInv
<1>3. pc[p] # "dead" /\ p \in process_list /\ p < next_pid
  BY <1>2 DEF IInv, LifeInv
<1>4. p \notin Waiters /\ p \notin Sleepers /\ p \notin Zombies
  BY <1>2 DEF IInv, SleepInv, ZombieInv
<1> QED BY <1>1, <1>2, <1>3, <1>4

\* The idle process is always awake: process_schedule finds a process to run.
LEMMA IdleAwake ==
    ASSUME IInv
    PROVE  /\ IDLE \in Pid /\ state[IDLE] \in Awake /\ pc[IDLE] # "dead"
           /\ (pc[IDLE] # "dma_xfer" /\ ~DmaFree(IDLE)) => ~Booting
<1>1. IDLE \in Pid
  BY MaxPidAssumption DEF IDLE, Pid
<1>2. pc[IDLE] \notin IntOff /\ pc[IDLE] # "dead"
  BY DEF IInv, IdleInv, IntOff, InFork
<1>3. state[IDLE] \in Awake
  BY <1>1, <1>2 DEF IInv, LifeInv, SleepInv, TypeOK, SchedTypeOK, ProcState, Awake
<1>4. ASSUME pc[IDLE] # "dma_xfer", dma_0_mtx.locked, Booting PROVE FALSE
  <2>1. PICK q \in Pid : pc[q] = "dma_xfer"
    BY <1>4 DEF IInv, DmaExclusive
  <2>2. q # IDLE /\ state[q] = "EMPTY"
    BY <1>4, <2>1 DEF IInv, IdleInv
  <2> QED BY <2>1, <2>2 DEF IInv, LifeInv
<1> QED BY <1>1, <1>2, <1>3, <1>4 DEF DmaFree

LEMMA BlockEffect ==
    ASSUME IInv, NEW p \in Pid, p = current_proc, p # IDLE, process_block
    PROVE  SchedInv' /\ Moves(p, "BLOCKED")
<1>1. "BLOCKED" \in ProcState \ Awake
  BY DEF ProcState, Awake
<1>2. SchedTypeOK /\ SchedInv
  BY DEF IInv, TypeOK
<1>3. process_schedule(process_ready_list, [state EXCEPT ![current_proc] = "BLOCKED"])
  BY DEF process_block
<1>4. current_proc # IDLE /\ state[IDLE] \in Awake
  BY IdleAwake
<1> QED BY <1>1, <1>2, <1>3, <1>4, LeaveEffect DEF Moves, Same

LEMMA DmaBlockEffect ==
    ASSUME IInv, NEW p \in Pid, DmaBlock(p)
    PROVE  SchedInv' /\ Moves(p, "BLOCKED") /\ p # IDLE
<1>1. p = current_proc /\ pc[p] \in {"dma_lock", "dma_retry"} /\ ~DmaFree(p)
  BY DEF DmaBlock, On
<1>2. p # IDLE
  BY <1>1, IdleAwake DEF Booting
<1> QED BY <1>1, <1>2, BlockEffect DEF DmaBlock

LEMMA WaitHangEffect ==
    ASSUME IInv, NEW p \in Pid, NEW pid \in WaitPid, NEW wstatus \in BOOLEAN,
           WaitHang(p, pid, wstatus)
    PROVE  /\ SchedInv' /\ Moves(p, "BLOCKED") /\ p # IDLE
           /\ On(p, {"init_wait", "user"})
<1>1. On(p, {"init_wait", "user"})
  BY DEF WaitHang, Waits, On
<1>2. p = current_proc /\ pc[p] \in {"init_wait", "user"}
  BY <1>1 DEF On
<1>3. p # IDLE
  BY <1>2 DEF IInv, IdleInv, InFork
<1> QED BY <1>1, <1>2, <1>3, BlockEffect DEF WaitHang

\* The process that is woken leaves the list of the mutex.
LEMMA DmaUnlockEffect ==
    ASSUME IInv, NEW p \in Pid, DmaUnlock(p)
    PROVE  /\ SchedInv'
           /\ dma_0_mtx'.blocked_list \in Seq(Pid) /\ IsInjective(dma_0_mtx'.blocked_list)
           /\ \/ state' = state /\ Sleepers = {} /\ Sleepers' = {}
              \/ \E h \in Sleepers : Moves(h, "READY") /\ Sleepers' = Sleepers \ {h}
<1> DEFINE list == dma_0_mtx.blocked_list
<1>1. /\ list \in Seq(Pid) /\ IsInjective(list)
      /\ dma_0_mtx'.blocked_list = p_list_pop_front(list)
      /\ process_wake_front(list)
  BY DEF IInv, TypeOK, Mutex, SleepInv, DmaUnlock, mutex_unlocked
<1>2. SchedTypeOK /\ SchedInv
  BY DEF IInv, TypeOK
<1>3. Sleepers = ToSet(list) /\ Sleepers' = ToSet(dma_0_mtx'.blocked_list)
  BY DEF Sleepers
<1> HIDE DEF list
<1>4. CASE list = <<>>
  <2>1. UNCHANGED schedVars /\ dma_0_mtx'.blocked_list = <<>>
    BY <1>1, <1>4 DEF process_wake_front, p_list_pop_front
  <2>2. ToSet(list) = {} /\ dma_0_mtx'.blocked_list = list
    BY <1>1, <1>4, <2>1, ToSetType
  <2> QED BY <1>1, <1>2, <1>3, <2>1, <2>2 DEF schedVars, SchedInv
<1>5. CASE list # <<>>
  <2>1. process_ready(Head(list)) /\ dma_0_mtx'.blocked_list = Tail(list)
    BY <1>1, <1>5 DEF process_wake_front, p_list_pop_front
  <2>2. /\ Head(list) \in Pid /\ Head(list) \in ToSet(list) /\ Tail(list) \in Seq(Pid)
        /\ ToSet(Tail(list)) = ToSet(list) \ {Head(list)} /\ IsInjective(Tail(list))
    BY <1>1, <1>5, TailList, HeadTailProperties
  <2>3. state[Head(list)] = "BLOCKED"
    BY <1>3, <2>2 DEF IInv, SleepInv
  <2>4. SchedInv' /\ state' = [state EXCEPT ![Head(list)] = "READY"]
    BY <1>2, <2>1, <2>2, <2>3, ReadyEffect DEF Awake
  <2>5. Moves(Head(list), "READY")
    BY <1>2, <2>2, <2>4 DEF Moves, Same, SchedTypeOK
  <2> QED BY <1>3, <2>1, <2>2, <2>4, <2>5
<1> QED BY <1>4, <1>5

LEMMA ForkReadyEffect ==
    ASSUME IInv, NEW p \in Pid, ForkReady(p)
    PROVE  /\ SchedInv' /\ child_proc[p] \in Pid
           /\ state[child_proc[p]] = "EMPTY" /\ pc[child_proc[p]] = "dead"
           /\ child_proc[p] # p
           /\ Moves(child_proc[p], "READY")
<1>1. /\ child_proc[p] \in Pid /\ state[child_proc[p]] = "EMPTY"
      /\ pc[child_proc[p]] = "dead"
  BY DEF ForkReady, On, IInv, ForkHasChild, Forking, ChildInv, ChildDead
<1>2. process_ready(child_proc[p]) /\ pc[p] = "fork_ready"
  BY DEF ForkReady, On
<1>3. SchedInv' /\ state' = [state EXCEPT ![child_proc[p]] = "READY"]
  BY <1>1, <1>2, ReadyEffect DEF IInv, TypeOK, Awake
<1> QED BY <1>1, <1>2, <1>3 DEF Moves, Same, IInv, TypeOK, SchedTypeOK

\* A process structure that is freed is one of a process that is not awake.
LEMMA DestroyEffect ==
    ASSUME IInv, NEW d \in Pid, pc[d] = "dead", process_destroy(d)
    PROVE  SchedInv' /\ Moves(d, "EMPTY")
<1>1. /\ state \in [Pid -> ProcState] /\ state[d] \in {"EMPTY", "ZOMBIE"}
      /\ state' = [state EXCEPT ![d] = "EMPTY"]
      /\ UNCHANGED <<current_proc, process_ready_list, panicked>>
  BY DEF IInv, TypeOK, SchedTypeOK, LifeInv, process_destroy
<1>2. \A q \in Pid : state'[q] = IF q = d THEN "EMPTY" ELSE state[q]
  BY <1>1
<1>3. SchedInv'
  BY <1>1, <1>2 DEF IInv, SchedInv
<1> QED BY <1>2, <1>3 DEF Moves, Same

LEMMA ForkCloneFailsEffect ==
    ASSUME IInv, NEW p \in Pid, ForkCloneFails(p)
    PROVE  /\ SchedInv' /\ state' = state /\ child_proc[p] \in Pid
           /\ state[child_proc[p]] = "EMPTY" /\ pc[child_proc[p]] = "dead"
<1>1. /\ child_proc[p] \in Pid /\ state[child_proc[p]] = "EMPTY"
      /\ pc[child_proc[p]] = "dead"
  BY DEF ForkCloneFails, On, IInv, ForkHasChild, Forking, ChildInv, ChildDead
<1>2. process_destroy(child_proc[p])
  BY DEF ForkCloneFails
<1>3. state' = state
  BY <1>1, <1>2 DEF process_destroy, IInv, TypeOK, SchedTypeOK
<1> QED BY <1>1, <1>2, <1>3, DestroyEffect

LEMMA ReapEffect ==
    ASSUME IInv, NEW p \in Pid, Reap(p)
    PROVE  /\ SchedInv' /\ found_process[p] \in Pid /\ found_process[p] # IDLE
           /\ found_process[p] # p
           /\ state[found_process[p]] = "ZOMBIE" /\ pc[found_process[p]] = "dead"
           /\ Moves(found_process[p], "EMPTY")
<1>1. pc[p] = "reap" /\ p = current_proc
  BY DEF Reap, On
<1>2. found_process[p] \in Pid /\ state[found_process[p]] = "ZOMBIE"
  BY <1>1 DEF IInv, ZombieInv, Reaping, Holds
<1>3. pc[found_process[p]] = "dead"
  BY <1>2 DEF IInv, LifeInv
<1>4. found_process[p] # IDLE /\ found_process[p] # p
  BY <1>1, <1>3, IdleAwake
<1> QED BY <1>2, <1>3, <1>4, DestroyEffect DEF Reap

\* The zombie that waitpid finds is one: the panic there is not reached.
LEMMA WaitFoundEffect ==
    ASSUME IInv, NEW p \in Pid, NEW pid \in WaitPid, NEW nohang \in BOOLEAN,
           NEW wstatus \in BOOLEAN, WaitFound(p, pid, nohang, wstatus)
    PROVE  /\ SchedInv' /\ state' = state
           /\ On(p, {"idle", "init_wait", "user"})
           /\ \E z \in Zombies :
                /\ z \in Pid /\ IsChild(z, p, pid)
                /\ found_process' = [found_process EXCEPT ![p] = z]
                /\ process_zombie_list' \in Seq(Pid) /\ IsInjective(process_zombie_list')
                /\ Zombies' = Zombies \ {z}
<1>1. On(p, {"idle", "init_wait", "user"})
  BY DEF WaitFound, Waits, On
<1>2. PICK i \in DOMAIN process_zombie_list :
         /\ IsChild(process_zombie_list[i], p, pid)
         /\ found_process' = [found_process EXCEPT ![p] = process_zombie_list[i]]
         /\ process_zombie_list' = RemoveAt(process_zombie_list, i)
         /\ panicked' = (state[process_zombie_list[i]] # "ZOMBIE")
  BY DEF WaitFound, ZombiesWithout
<1>3. process_zombie_list \in Seq(Pid) /\ IsInjective(process_zombie_list)
  BY DEF IInv, TypeOK, ZombieInv
<1>4. process_zombie_list[i] \in Zombies /\ Zombies \subseteq Pid
  BY <1>3, ToSetType DEF Zombies
<1>5. /\ process_zombie_list' \in Seq(Pid) /\ IsInjective(process_zombie_list')
      /\ Zombies' = Zombies \ {process_zombie_list[i]}
  BY <1>2, <1>3, RemoveAtList DEF Zombies
<1>6. ~panicked'
  BY <1>2, <1>4 DEF IInv, ZombieInv
<1>7. UNCHANGED <<current_proc, process_ready_list, state>>
  BY DEF WaitFound
<1>8. SchedInv'
  BY <1>6, <1>7 DEF IInv, SchedInv
<1> QED BY <1>1, <1>2, <1>4, <1>5, <1>7, <1>8

\* Exit: the process is not the idle one, and holds no zombie and no child
\* that is not born.
LEMMA ExitsFacts ==
    ASSUME IInv, NEW p \in Pid, Exits(p)
    PROVE  /\ p = current_proc /\ p # IDLE /\ pc[p] \in {"user", "init_exit"}
           /\ state[p] = "RUNNING" /\ p \in process_list
           /\ ~Forking(p) /\ ~Reaping(p)
           /\ pc' = [pc EXCEPT ![p] = "dead"]
           /\ pc'[p] = "dead" /\ \A q \in Pid \ {p} : pc'[q] = pc[q]
           /\ \A c \in Pid : ppid'[c] = IF c \in process_list /\ ppid[c] = p THEN INIT ELSE ppid[c]
           /\ UNCHANGED <<next_pid, process_list, cbr, page_usage_map, wait_pid,
                          localVars, dma_0_mtx, after, halted>>
<1>1. /\ On(p, {"user", "init_exit"})
      /\ pc' = [pc EXCEPT ![p] = "dead"]
      /\ ppid' = ChildrenReparented(p)
      /\ UNCHANGED <<next_pid, process_list, cbr, page_usage_map, wait_pid,
                     localVars, dma_0_mtx, after, halted>>
  BY DEF Exits, Goto
<1>2. p = current_proc /\ pc[p] \in {"user", "init_exit"} /\ state[p] = "RUNNING" /\ p \in process_list
  BY <1>1, CurrentFacts
<1>3. p # IDLE
  BY <1>2 DEF IInv, IdleInv, InFork
<1>4. ~Forking(p) /\ ~Reaping(p)
  BY <1>2 DEF Forking, Reaping, InDma
<1>5. pc'[p] = "dead" /\ \A q \in Pid \ {p} : pc'[q] = pc[q]
  BY <1>1 DEF IInv, TypeOK
<1>6. \A c \in Pid : ppid'[c] = IF c \in process_list /\ ppid[c] = p THEN INIT ELSE ppid[c]
  BY <1>1 DEF ChildrenReparented
<1> QED BY <1>1, <1>2, <1>3, <1>4, <1>5, <1>6

LEMMA ExitHandOffEffect ==
    ASSUME IInv, NEW p \in Pid, ExitHandOff(p)
    PROVE  /\ SchedInv' /\ Exits(p) /\ UNCHANGED process_zombie_list
           /\ \E w \in Waiters :
                /\ w \in Pid /\ w # p /\ w = ppid[p]
                /\ wait_pid[w] = ANY \/ wait_pid[w] = p
                /\ wait_process' = [wait_process EXCEPT ![w] = p]
                /\ process_wait_list' \in Seq(Pid) /\ IsInjective(process_wait_list')
                /\ Waiters' = Waiters \ {w}
                /\ state'[p] = "ZOMBIE" /\ state'[w] = "RUNNING"
                /\ \A q \in Pid \ {p, w} : state'[q] = state[q]
<1>1. Exits(p) /\ UNCHANGED process_zombie_list
  BY DEF ExitHandOff
<1>2. PICK i \in DOMAIN process_wait_list :
         /\ WaiterOf(p, i)
         /\ wait_process' = [wait_process EXCEPT ![process_wait_list[i]] = p]
         /\ process_wait_list' = RemoveAt(process_wait_list, i)
         /\ process_switch(process_wait_list[i], process_ready_list, Zombified(p))
  BY DEF ExitHandOff
<1> DEFINE w == process_wait_list[i]
<1>3. process_wait_list \in Seq(Pid) /\ IsInjective(process_wait_list)
  BY DEF IInv, TypeOK, SleepInv
<1>4. w \in Waiters /\ Waiters \subseteq Pid
  BY <1>3, ToSetType DEF Waiters
<1>5. /\ process_wait_list' \in Seq(Pid) /\ IsInjective(process_wait_list')
      /\ Waiters' = Waiters \ {w}
  BY <1>2, <1>3, RemoveAtList DEF Waiters
<1>6. w = ppid[p] /\ (wait_pid[w] = ANY \/ wait_pid[w] = p)
  BY <1>2 DEF WaiterOf
<1>7. process_switch(w, process_ready_list, [state EXCEPT ![current_proc] = "ZOMBIE"])
  BY <1>1, <1>2, ExitsFacts DEF Zombified
<1>8. wait_process' = [wait_process EXCEPT ![w] = p]
  BY <1>2
<1> HIDE DEF w
<1>9. state[w] = "BLOCKED" /\ state[p] = "RUNNING" /\ p = current_proc
  BY <1>1, <1>4, ExitsFacts DEF IInv, SleepInv
<1>10. /\ SchedInv' /\ state'[p] = "ZOMBIE" /\ state'[w] = "RUNNING"
       /\ \A q \in Pid \ {p, w} : state'[q] = state[q]
  <2>1. "ZOMBIE" \in ProcState \ Awake /\ state[w] \notin Awake /\ SchedTypeOK /\ SchedInv
    BY <1>9 DEF ProcState, Awake, IInv, TypeOK
  <2> QED BY <1>4, <1>7, <1>9, <2>1, SwitchEffect
<1> QED BY <1>1, <1>4, <1>5, <1>6, <1>8, <1>9, <1>10

LEMMA ExitZombieEffect ==
    ASSUME IInv, NEW p \in Pid, ExitZombie(p)
    PROVE  /\ SchedInv' /\ Exits(p) /\ UNCHANGED <<process_wait_list, wait_process>>
           /\ Moves(p, "ZOMBIE")
           /\ process_zombie_list' \in Seq(Pid) /\ IsInjective(process_zombie_list')
           /\ p \notin Zombies /\ Zombies' = Zombies \cup {p}
           /\ \A w \in Waiters : ~(w = ppid[p] /\ (wait_pid[w] = ANY \/ wait_pid[w] = p))
<1>1. Exits(p) /\ UNCHANGED <<process_wait_list, wait_process>>
  BY DEF ExitZombie
<1>2. /\ process_zombie_list' = Append(process_zombie_list, p)
      /\ process_schedule(process_ready_list, [state EXCEPT ![current_proc] = "ZOMBIE"])
  BY <1>1, ExitsFacts DEF ExitZombie, Zombified
<1>3. state[p] = "RUNNING" /\ p = current_proc /\ current_proc # IDLE /\ state[IDLE] \in Awake
  BY <1>1, ExitsFacts, IdleAwake
<1>4. /\ process_zombie_list \in Seq(Pid) /\ IsInjective(process_zombie_list)
      /\ p \notin Zombies
  BY <1>3 DEF IInv, TypeOK, ZombieInv
<1>5. /\ process_zombie_list' \in Seq(Pid) /\ IsInjective(process_zombie_list')
      /\ Zombies' = Zombies \cup {p}
  BY <1>2, <1>4, AppendList, AppendProperties DEF Zombies
<1>6. SchedInv' /\ Moves(p, "ZOMBIE")
  <2>1. "ZOMBIE" \in ProcState \ Awake /\ SchedTypeOK /\ SchedInv
    BY DEF ProcState, Awake, IInv, TypeOK
  <2> QED BY <1>2, <1>3, <2>1, LeaveEffect DEF Moves, Same
<1>7. \A w \in Waiters : ~(w = ppid[p] /\ (wait_pid[w] = ANY \/ wait_pid[w] = p))
  BY DEF ExitZombie, WaiterOf, Waiters, ToSet
<1> QED BY <1>1, <1>4, <1>5, <1>6, <1>7

\* The steps that leave the scheduler alone.
Quiet(p) ==
    \/ ForkAlloc(p) \/ ForkNoMemory(p) \/ ForkPpid(p) \/ ForkClone(p)
    \/ DmaLock(p) \/ SysIo(p) \/ WaitWoken(p)
    \/ \E pid \in WaitPid, nohang \in BOOLEAN : WaitReturn(p, pid, nohang)

LEMMA QuietEffect ==
    ASSUME IInv, NEW p \in Pid, Quiet(p) \/ ForkLink(p)
    PROVE  SchedInv' /\ state' = state
<1>1. CASE Quiet(p)
  <2>1. UNCHANGED schedVars
    BY <1>1 DEF Quiet, ForkAlloc, ForkNoMemory, ForkPpid, ForkClone, DmaLock, SysIo,
                WaitWoken, WaitReturn
  <2> QED BY <2>1 DEF schedVars, IInv, SchedInv
<1>2. CASE ForkLink(p)
  <2>1. /\ next_pid \in Pid /\ state' = [state EXCEPT ![next_pid] = "EMPTY"]
        /\ UNCHANGED <<current_proc, process_ready_list, panicked>>
    BY <1>2 DEF ForkLink, NewPid
  <2>2. state[next_pid] = "EMPTY"
    <3>1. next_pid \notin process_list
      BY <2>1, MaxPidAssumption DEF IInv, LifeInv, Pid
    <3> QED BY <2>1, <3>1 DEF IInv, LifeInv
  <2>3. state' = state
    BY <2>1, <2>2 DEF IInv, TypeOK, SchedTypeOK
  <2> QED BY <2>1, <2>3 DEF IInv, SchedInv
<1> QED BY <1>1, <1>2

LEMMA QuietFacts ==
    ASSUME IInv, NEW p \in Pid, Quiet(p)
    PROVE  /\ p = current_proc
           /\ pc'[p] \in Label /\ \A q \in Pid \ {p} : pc'[q] = pc[q]
           /\ UNCHANGED <<next_pid, process_list, cbr, child_proc, halted>>
           /\ UNCHANGED waitVars
           /\ dma_0_mtx'.blocked_list = dma_0_mtx.blocked_list
<1>t. pc \in [Pid -> Label] /\ dma_0_mtx \in Mutex
  BY DEF IInv, TypeOK
<1>l. Resume(p) \in Label
  BY DEF Resume, Label, Home
<1> USE DEF On, Goto, Label, Home, InFork, InDma, InWait
<1>1. CASE ForkAlloc(p) \/ ForkNoMemory(p) \/ ForkPpid(p) \/ ForkClone(p)
  BY <1>1, <1>t, <1>l DEF ForkAlloc, ForkNoMemory, ForkPpid, ForkClone, tableVars, localVars
<1>2. CASE DmaLock(p) \/ SysIo(p) \/ WaitWoken(p)
  BY <1>2, <1>t, <1>l DEF DmaLock, SysIo, WaitWoken, tableVars, localVars, mutex_taken, Mutex
<1>3. ASSUME NEW pid \in WaitPid, NEW nohang \in BOOLEAN, WaitReturn(p, pid, nohang)
      PROVE  /\ p = current_proc
             /\ pc'[p] \in Label /\ \A q \in Pid \ {p} : pc'[q] = pc[q]
             /\ UNCHANGED <<next_pid, process_list, cbr, child_proc, halted>>
             /\ UNCHANGED waitVars
             /\ dma_0_mtx'.blocked_list = dma_0_mtx.blocked_list
  BY <1>3, <1>t DEF WaitReturn, Waits, tableVars, localVars
<1> QED BY <1>1, <1>2, <1>3 DEF Quiet

\* Every step of a process is one of these.
LEMMA StepCases ==
    ASSUME NEW p \in Pid, Step(p)
    PROVE  \/ Quiet(p) \/ ForkLink(p) \/ ForkCloneFails(p) \/ ForkReady(p)
           \/ DmaBlock(p) \/ DmaUnlock(p)
           \/ \E pid \in WaitPid, nohang, wstatus \in BOOLEAN :
                 WaitFound(p, pid, nohang, wstatus)
           \/ \E pid \in WaitPid, wstatus \in BOOLEAN : WaitHang(p, pid, wstatus)
           \/ Reap(p) \/ ExitHandOff(p) \/ ExitZombie(p)
BY DEF Step, Quiet, Critical, Exit

\* Only ForkReady, Reap and Exit change whether a process is dead or a zombie.
LEMMA ClassStays ==
    ASSUME IInv, NEW p \in Pid, NEW q \in Pid,
           \/ Quiet(p) \/ ForkLink(p) \/ ForkCloneFails(p) \/ DmaBlock(p) \/ DmaUnlock(p)
           \/ \E pid \in WaitPid, nohang, wstatus \in BOOLEAN : WaitFound(p, pid, nohang, wstatus)
           \/ \E pid \in WaitPid, wstatus \in BOOLEAN : WaitHang(p, pid, wstatus)
    PROVE  /\ state'[q] = "EMPTY" <=> state[q] = "EMPTY"
           /\ state'[q] = "ZOMBIE" <=> state[q] = "ZOMBIE"
<1>1. CASE Quiet(p) \/ ForkLink(p) \/ ForkCloneFails(p)
  BY <1>1, QuietEffect, ForkCloneFailsEffect
<1>2. CASE DmaBlock(p)
  <2>1. state[p] = "RUNNING" /\ Moves(p, "BLOCKED")
    BY <1>2, DmaBlockEffect, CurrentFacts DEF DmaBlock
  <2> QED BY <2>1 DEF Moves, Same, Awake
<1>3. CASE DmaUnlock(p)
  <2>1. Sleepers \subseteq Pid
    BY ToSetType DEF IInv, TypeOK, Mutex, Sleepers
  <2>2. \A h \in Sleepers : h \in Pid /\ state[h] = "BLOCKED"
    BY <2>1 DEF IInv, SleepInv
  <2> QED BY <1>3, <2>2, DmaUnlockEffect DEF Moves, Same, Awake
<1>4. ASSUME NEW pid \in WaitPid, NEW nohang \in BOOLEAN, NEW wstatus \in BOOLEAN,
             WaitFound(p, pid, nohang, wstatus)
      PROVE  state'[q] = state[q]
  BY <1>4, WaitFoundEffect
<1>5. ASSUME NEW pid \in WaitPid, NEW wstatus \in BOOLEAN, WaitHang(p, pid, wstatus)
      PROVE  /\ state'[q] = "EMPTY" <=> state[q] = "EMPTY"
             /\ state'[q] = "ZOMBIE" <=> state[q] = "ZOMBIE"
  <2>1. state[p] = "RUNNING" /\ Moves(p, "BLOCKED")
    BY <1>5, WaitHangEffect, CurrentFacts
  <2> QED BY <2>1 DEF Moves, Same, Awake
<1> QED BY <1>1, <1>2, <1>3, <1>4, <1>5

LEMMA SchedStep ==
    ASSUME IInv, [Next]_vars
    PROVE  SchedInv'
<1>1. ASSUME NEW p \in Pid, Step(p) PROVE SchedInv'
  BY <1>1, StepCases, QuietEffect, ForkCloneFailsEffect, ForkReadyEffect, DmaBlockEffect,
     DmaUnlockEffect, WaitFoundEffect, WaitHangEffect, ReapEffect, ExitHandOffEffect,
     ExitZombieEffect
<1>2. CASE Tick
  BY <1>2, TickEffect DEF Tick, IInv, TypeOK
<1>3. CASE UNCHANGED vars
  BY <1>3 DEF vars, schedVars, IInv, SchedInv
<1> QED BY <1>1, <1>2, <1>3 DEF Next, Rest

-----------------------------------------------------------------------------
(* The processes that sleep.                                                *)

LEMMA SleepStep ==
    ASSUME IInv, [Next]_vars
    PROVE  SleepInv'
<1>t. /\ pc \in [Pid -> Label] /\ wait_process \in [Pid -> Pid \cup {NULL}]
      /\ process_wait_list \in Seq(Pid) /\ dma_0_mtx \in Mutex
      /\ dma_0_mtx.blocked_list \in Seq(Pid) /\ Waiters \subseteq Pid
  <2>1. pc \in [Pid -> Label] /\ wait_process \in [Pid -> Pid \cup {NULL}]
        /\ process_wait_list \in Seq(Pid) /\ dma_0_mtx \in Mutex
    BY DEF IInv, TypeOK
  <2>2. dma_0_mtx.blocked_list \in Seq(Pid)
    BY <2>1 DEF Mutex
  <2> QED BY <2>1, <2>2, ToSetType DEF Waiters
\* Steps that put nobody on a list or off it.
<1>m. ASSUME UNCHANGED <<process_wait_list, dma_0_mtx.blocked_list, wait_process>>,
             \A q \in Pid : state'[q] = "BLOCKED" <=> state[q] = "BLOCKED",
             \A q \in Pid : state[q] = "BLOCKED" => pc'[q] = pc[q]
      PROVE  SleepInv'
  <2>1. Waiters' = Waiters /\ Sleepers' = Sleepers
    BY <1>m DEF Waiters, Sleepers
  <2> QED BY <1>m, <1>t, <2>1 DEF IInv, SleepInv
<1>p. ASSUME NEW p \in Pid, Step(p) PROVE SleepInv'
  <2>1. CASE Quiet(p) \/ ForkLink(p)
    <3>1. /\ UNCHANGED <<process_wait_list, dma_0_mtx.blocked_list, wait_process>>
          /\ \A q \in Pid \ {p} : pc'[q] = pc[q]
          /\ p = current_proc
      BY <2>1, <1>t, QuietFacts DEF ForkLink, waitVars, On, Goto
    <3>2. state' = state /\ state[p] # "BLOCKED"
      BY <2>1, <3>1, QuietEffect DEF IInv, SchedInv
    <3> QED BY <3>1, <3>2, <1>m
  <2>2. CASE ForkCloneFails(p)
    <3>1. /\ UNCHANGED <<process_wait_list, dma_0_mtx.blocked_list, wait_process>>
          /\ \A q \in Pid \ {p} : pc'[q] = pc[q]
          /\ On(p, {"fork_clone"})
      BY <2>2, <1>t DEF ForkCloneFails, waitVars, Goto
    <3> QED BY <3>1, <2>2, ForkCloneFailsEffect, CurrentFacts, <1>m
  <2>3. CASE ForkReady(p)
    <3>1. /\ UNCHANGED <<process_wait_list, dma_0_mtx.blocked_list, wait_process>>
          /\ \A q \in Pid \ {p, child_proc[p]} : pc'[q] = pc[q]
          /\ On(p, {"fork_ready"})
      BY <2>3, <1>t DEF ForkReady, waitVars
    <3>2. \A q \in Pid : state'[q] = "BLOCKED" <=> state[q] = "BLOCKED"
      BY <2>3, ForkReadyEffect DEF Moves, Same, Awake
    <3>3. state[p] # "BLOCKED" /\ state[child_proc[p]] # "BLOCKED"
      BY <2>3, <3>1, CurrentFacts, ForkReadyEffect
    <3> QED BY <3>1, <3>2, <3>3, <1>m
  <2>4. CASE DmaBlock(p)
    <3>1. /\ UNCHANGED <<process_wait_list, wait_process>>
          /\ dma_0_mtx'.blocked_list = Append(dma_0_mtx.blocked_list, p)
          /\ pc'[p] = "dma_retry" /\ \A q \in Pid \ {p} : pc'[q] = pc[q]
          /\ On(p, {"dma_lock", "dma_retry"})
      BY <2>4, <1>t DEF DmaBlock, waitVars, Goto, mutex_queued, Mutex
    <3>2. p \notin Waiters /\ p \notin Sleepers
      BY <3>1, CurrentFacts
    <3>3. Waiters' = Waiters /\ Sleepers' = Sleepers \cup {p}
          /\ IsInjective(dma_0_mtx'.blocked_list)
      BY <3>1, <3>2, <1>t, AppendList DEF Waiters, Sleepers, IInv, SleepInv
    <3>4. /\ state'[p] = "BLOCKED"
          /\ \A q \in Pid \ {p} : state'[q] = "BLOCKED" <=> state[q] = "BLOCKED"
      BY <2>4, DmaBlockEffect DEF Moves, Same, Awake
    <3> QED BY <3>1, <3>2, <3>3, <3>4 DEF IInv, SleepInv, IntOff
  <2>5. CASE DmaUnlock(p)
    <3>1. /\ UNCHANGED <<process_wait_list, wait_process>>
          /\ \A q \in Pid \ {p} : pc'[q] = pc[q]
          /\ On(p, {"dma_xfer"})
      BY <2>5, <1>t DEF DmaUnlock, waitVars, Goto
    <3>2. state[p] = "RUNNING" /\ Waiters' = Waiters
      BY <3>1, CurrentFacts DEF Waiters
    <3>3. IsInjective(dma_0_mtx'.blocked_list)
      BY <2>5, DmaUnlockEffect
    <3>4. CASE state' = state /\ Sleepers = {} /\ Sleepers' = {}
      BY <3>1, <3>2, <3>3, <3>4 DEF IInv, SleepInv
    <3>5. ASSUME NEW h \in Sleepers, Moves(h, "READY"), Sleepers' = Sleepers \ {h}
          PROVE  SleepInv'
      <4>1. Sleepers \subseteq Pid
        BY <1>t, ToSetType DEF Sleepers
      <4>2. h \in Pid /\ state[h] = "BLOCKED" /\ pc[h] = "dma_retry"
        BY <4>1 DEF IInv, SleepInv
      <4>3. \A q \in Pid : state'[q] = "BLOCKED" <=> state[q] = "BLOCKED" /\ q # h
        BY <3>5, <4>2 DEF Moves, Same, Awake
      <4>4. \A q \in Pid : state[q] = "BLOCKED" => pc'[q] = pc[q]
        BY <3>1, <3>2
      <4> QED BY <3>1, <3>2, <3>3, <3>5, <4>2, <4>3, <4>4 DEF IInv, SleepInv
    <3> QED BY <2>5, <3>4, <3>5, DmaUnlockEffect
  <2>6. ASSUME NEW pid \in WaitPid, NEW nohang \in BOOLEAN, NEW wstatus \in BOOLEAN,
               WaitFound(p, pid, nohang, wstatus)
        PROVE  SleepInv'
    <3>1. /\ UNCHANGED <<process_wait_list, dma_0_mtx.blocked_list, wait_process>>
          /\ \A q \in Pid \ {p} : pc'[q] = pc[q]
      BY <2>6, <1>t DEF WaitFound, Goto
    <3> QED BY <3>1, <2>6, WaitFoundEffect, CurrentFacts, <1>m
  <2>7. ASSUME NEW pid \in WaitPid, NEW wstatus \in BOOLEAN, WaitHang(p, pid, wstatus)
        PROVE  SleepInv'
    <3>1. /\ dma_0_mtx' = dma_0_mtx
          /\ process_wait_list' = Append(process_wait_list, p)
          /\ wait_process' = [wait_process EXCEPT ![p] = NULL]
          /\ pc'[p] = "wait_woken" /\ \A q \in Pid \ {p} : pc'[q] = pc[q]
      BY <2>7, <1>t DEF WaitHang, Goto
    <3>2. p \notin Waiters /\ p \notin Sleepers
      BY <2>7, WaitHangEffect, CurrentFacts
    <3>3. Sleepers' = Sleepers /\ Waiters' = Waiters \cup {p}
          /\ IsInjective(process_wait_list')
      BY <3>1, <3>2, <1>t, AppendList DEF Waiters, Sleepers, IInv, SleepInv
    <3>4. /\ state'[p] = "BLOCKED"
          /\ \A q \in Pid \ {p} : state'[q] = "BLOCKED" <=> state[q] = "BLOCKED"
      BY <2>7, WaitHangEffect DEF Moves, Same, Awake
    <3>5. wait_process'[p] = NULL /\ \A q \in Pid \ {p} : wait_process'[q] = wait_process[q]
      BY <3>1, <1>t
    <3> QED BY <1>t, <3>1, <3>2, <3>3, <3>4, <3>5 DEF IInv, SleepInv, IntOff
  <2>8. CASE Reap(p)
    <3>1. /\ UNCHANGED <<process_wait_list, dma_0_mtx.blocked_list, wait_process>>
          /\ \A q \in Pid \ {p} : pc'[q] = pc[q]
          /\ On(p, {"reap"})
      BY <2>8, <1>t DEF Reap, waitVars, Goto
    <3>2. \A q \in Pid : state'[q] = "BLOCKED" <=> state[q] = "BLOCKED"
      BY <2>8, ReapEffect DEF Moves, Same, Awake
    <3> QED BY <3>1, <3>2, CurrentFacts, <1>m
  <2>9. CASE ExitHandOff(p)
    <3>1. PICK w \in Waiters :
            /\ w \in Pid /\ w # p
            /\ wait_process' = [wait_process EXCEPT ![w] = p]
            /\ IsInjective(process_wait_list')
            /\ Waiters' = Waiters \ {w}
            /\ state'[p] = "ZOMBIE" /\ state'[w] = "RUNNING"
            /\ \A q \in Pid \ {p, w} : state'[q] = state[q]
      BY <2>9, ExitHandOffEffect
    <3>2. /\ dma_0_mtx' = dma_0_mtx /\ \A q \in Pid \ {p} : pc'[q] = pc[q]
          /\ state[p] = "RUNNING"
      BY <2>9, ExitHandOffEffect, ExitsFacts
    <3>3. state[w] = "BLOCKED" /\ pc[w] = "wait_woken"
      BY <3>1 DEF IInv, SleepInv
    <3>4. Sleepers' = Sleepers /\ \A q \in Waiters' : wait_process'[q] = NULL
      BY <3>1, <3>2, <1>t DEF Sleepers, IInv, SleepInv
    <3> QED BY <3>1, <3>2, <3>3, <3>4 DEF IInv, SleepInv
  <2>10. CASE ExitZombie(p)
    <3>1. /\ UNCHANGED <<process_wait_list, wait_process>> /\ Moves(p, "ZOMBIE")
          /\ dma_0_mtx' = dma_0_mtx /\ \A q \in Pid \ {p} : pc'[q] = pc[q]
          /\ state[p] = "RUNNING"
      BY <2>10, ExitZombieEffect, ExitsFacts
    <3>2. \A q \in Pid : state'[q] = "BLOCKED" <=> state[q] = "BLOCKED"
      BY <3>1 DEF Moves, Same, Awake
    <3> QED BY <3>1, <3>2, <1>m
  <2> QED BY <1>p, <2>1, <2>2, <2>3, <2>4, <2>5, <2>6, <2>7, <2>8, <2>9, <2>10, StepCases
<1>k. CASE Tick
  <2>1. /\ UNCHANGED <<process_wait_list, dma_0_mtx.blocked_list, wait_process, pc>>
        /\ \A q \in Pid : state'[q] = "BLOCKED" <=> state[q] = "BLOCKED"
    BY <1>k, TickEffect DEF Tick, waitVars, IInv, TypeOK, Awake
  <2> QED BY <2>1, <1>m
<1>u. CASE UNCHANGED vars
  BY <1>u DEF vars, waitVars, schedVars, IInv, SleepInv, Waiters, Sleepers
<1> QED BY <1>p, <1>k, <1>u DEF Next, Rest

-----------------------------------------------------------------------------
(* The processes that exist.                                                *)

LEMMA LifeStep ==
    ASSUME IInv, [Next]_vars
    PROVE  LifeInv'
<1>t. /\ pc \in [Pid -> Label] /\ Pid \subseteq Nat /\ next_pid \in Nat
      /\ process_list \subseteq Pid
  BY MaxPidAssumption DEF IInv, TypeOK, Pid
<1>m. ASSUME UNCHANGED <<process_list, next_pid>>,
             \A q \in Pid : pc'[q] = "dead" <=> pc[q] = "dead",
             \A q \in Pid : state'[q] = state[q] \/ (state[q] \notin {"EMPTY", "ZOMBIE"}
                                                      /\ state'[q] \notin {"EMPTY", "ZOMBIE"})
      PROVE  LifeInv'
  BY <1>m DEF IInv, LifeInv
<1>p. ASSUME NEW p \in Pid, Step(p) PROVE LifeInv'
  <2>l. Resume(p) # "dead"
    BY DEF Resume
  <2>1. CASE Quiet(p)
    <3>1. /\ UNCHANGED <<process_list, next_pid>>
          /\ \A q \in Pid : pc'[q] = "dead" <=> pc[q] = "dead"
      BY <2>1, <2>l, <1>t DEF Quiet, ForkAlloc, ForkNoMemory, ForkPpid, ForkClone, DmaLock,
           SysIo, WaitWoken, WaitReturn, Waits, tableVars, On, Goto
    <3> QED BY <3>1, <2>1, QuietEffect, <1>m
  <2>2. CASE ForkLink(p)
    <3>1. /\ process_list' = process_list \cup {next_pid} /\ next_pid' = next_pid + 1
          /\ next_pid \in Pid
          /\ \A q \in Pid : pc'[q] = "dead" <=> pc[q] = "dead"
      BY <2>2, <1>t DEF ForkLink, NewPid, On, Goto
    <3>2. \A q \in process_list' : q < next_pid'
      BY <3>1, <1>t DEF IInv, LifeInv
    <3> QED BY <3>1, <3>2, <2>2, QuietEffect DEF IInv, LifeInv
  <2>3. CASE ForkCloneFails(p)
    <3>1. /\ process_list' = process_list \ {child_proc[p]} /\ next_pid' = next_pid
          /\ \A q \in Pid : pc'[q] = "dead" <=> pc[q] = "dead"
      BY <2>3, <2>l, <1>t DEF ForkCloneFails, process_destroy, On, Goto
    <3> QED BY <3>1, <2>3, ForkCloneFailsEffect, IdleAwake DEF IInv, LifeInv
  <2>4. CASE ForkReady(p)
    <3>1. UNCHANGED <<process_list, next_pid>> /\ pc[p] = "fork_ready"
          /\ pc' = [pc EXCEPT ![p] = Resume(p), ![child_proc[p]] = ChildStart(child_proc[p])]
      BY <2>4 DEF ForkReady, tableVars, On
    <3> DEFINE c == child_proc[p]
    <3>2. c \in Pid /\ c # p /\ Moves(c, "READY") /\ c \in process_list
      BY <2>4, ForkReadyEffect DEF IInv, ChildInv
    <3> HIDE DEF c
    <3>3. ChildStart(c) # "dead" /\ pc' = [pc EXCEPT ![p] = Resume(p), ![c] = ChildStart(c)]
      BY <3>1 DEF ChildStart, c
    <3>4. \A q \in Pid : pc'[q] = "dead" <=> pc[q] = "dead" /\ q # c
      BY <3>1, <3>2, <3>3, <2>l, <1>t
    <3>5. state'[c] = "READY" /\ \A q \in Pid \ {c} : Same(q)
      BY <3>2 DEF Moves
    <3> QED BY <3>1, <3>2, <3>4, <3>5 DEF IInv, LifeInv, Same, Awake
  <2>5. CASE DmaBlock(p) \/ DmaUnlock(p)
    <3>1. UNCHANGED <<process_list, next_pid>>
          /\ \A q \in Pid : pc'[q] = "dead" <=> pc[q] = "dead"
      <4>1. after[p] # "dead"
        BY DEF IInv, TypeOK
      <4> QED BY <2>5, <4>1, <1>t DEF DmaBlock, DmaUnlock, tableVars, On, Goto
    <3>2. CASE DmaBlock(p)
      <4>1. p = current_proc /\ state[p] = "RUNNING" /\ Moves(p, "BLOCKED")
        BY <3>2, DmaBlockEffect, CurrentFacts DEF DmaBlock
      <4> QED BY <3>1, <4>1, <1>m DEF Moves, Same, Awake
    <3>3. CASE DmaUnlock(p)
      <4>1. Sleepers \subseteq Pid
        BY ToSetType DEF IInv, TypeOK, Mutex, Sleepers
      <4>2. \A h \in Sleepers : h \in Pid /\ state[h] = "BLOCKED"
        BY <4>1 DEF IInv, SleepInv
      <4> QED BY <3>1, <3>3, <4>2, DmaUnlockEffect, <1>m DEF Moves, Same, Awake
    <3> QED BY <2>5, <3>2, <3>3
  <2>6. ASSUME NEW pid \in WaitPid, NEW nohang \in BOOLEAN, NEW wstatus \in BOOLEAN,
               WaitFound(p, pid, nohang, wstatus)
        PROVE  LifeInv'
    <3>1. /\ UNCHANGED <<process_list, next_pid>>
          /\ pc[p] # "dead" /\ pc'[p] # "dead" /\ \A q \in Pid \ {p} : pc'[q] = pc[q]
      BY <2>6, <1>t DEF WaitFound, Waits, On, Goto, tableVars
    <3> QED BY <3>1, <2>6, WaitFoundEffect, <1>m
  <2>7. ASSUME NEW pid \in WaitPid, NEW wstatus \in BOOLEAN, WaitHang(p, pid, wstatus)
        PROVE  LifeInv'
    <3>1. /\ UNCHANGED <<process_list, next_pid>>
          /\ pc'[p] # "dead" /\ \A q \in Pid \ {p} : pc'[q] = pc[q]
      BY <2>7, <1>t DEF WaitHang, Goto, tableVars
    <3>2. pc[p] # "dead" /\ state[p] = "RUNNING" /\ Moves(p, "BLOCKED")
      BY <2>7, WaitHangEffect, CurrentFacts
    <3> QED BY <3>1, <3>2, <1>m DEF Moves, Same, Awake
  <2>8. CASE Reap(p)
    <3>1. /\ process_list' = process_list \ {found_process[p]} /\ next_pid' = next_pid
          /\ \A q \in Pid : pc'[q] = "dead" <=> pc[q] = "dead"
      BY <2>8, <2>l, <1>t DEF Reap, process_destroy, On, Goto
    <3>2. /\ found_process[p] \in Pid \ {IDLE} /\ pc[found_process[p]] = "dead"
          /\ state'[found_process[p]] = "EMPTY" /\ \A q \in Pid \ {found_process[p]} : Same(q)
      BY <2>8, ReapEffect DEF Moves
    <3> QED BY <3>1, <3>2 DEF IInv, LifeInv, Same, Awake
  <2>9. CASE ExitHandOff(p)
    <3>1. PICK w \in Waiters :
            /\ w \in Pid /\ w # p
            /\ state'[p] = "ZOMBIE" /\ state'[w] = "RUNNING"
            /\ \A q \in Pid \ {p, w} : state'[q] = state[q]
      BY <2>9, ExitHandOffEffect
    <3>2. /\ UNCHANGED <<process_list, next_pid>> /\ p \in process_list
          /\ pc'[p] = "dead" /\ \A q \in Pid \ {p} : pc'[q] = pc[q]
      BY <2>9, ExitHandOffEffect, ExitsFacts
    <3>3. state[w] = "BLOCKED"
      BY <3>1 DEF IInv, SleepInv
    <3> QED BY <3>1, <3>2, <3>3 DEF IInv, LifeInv
  <2>10. CASE ExitZombie(p)
    <3>1. /\ UNCHANGED <<process_list, next_pid>> /\ p \in process_list
          /\ pc'[p] = "dead" /\ \A q \in Pid \ {p} : pc'[q] = pc[q]
          /\ Moves(p, "ZOMBIE")
      BY <2>10, ExitZombieEffect, ExitsFacts
    <3> QED BY <3>1 DEF IInv, LifeInv, Moves, Same, Awake
  <2> QED BY <1>p, <2>1, <2>2, <2>3, <2>4, <2>5, <2>6, <2>7, <2>8, <2>9, <2>10, StepCases
<1>k. CASE Tick
  <2>1. /\ UNCHANGED <<process_list, next_pid, pc>>
        /\ \A q \in Pid : \/ state'[q] = state[q]
                          \/ state[q] \in Awake /\ state'[q] \in Awake
    BY <1>k, TickEffect DEF Tick, tableVars, IInv, TypeOK
  <2> QED BY <2>1, <1>m DEF Awake
<1>u. CASE UNCHANGED vars
  BY <1>u DEF vars, tableVars, schedVars, IInv, LifeInv
<1> QED BY <1>p, <1>k, <1>u DEF Next, Rest

-----------------------------------------------------------------------------
(* The idle process.                                                        *)

\* A step moves the process that makes it, and the child it makes ready.
LEMMA OthersStay ==
    ASSUME IInv, NEW p \in Pid, Step(p), NEW q \in Pid \ {p}
    PROVE  pc'[q] = pc[q] \/ (pc[q] = "dead" /\ ForkReady(p) /\ q = child_proc[p])
<1>t. pc \in [Pid -> Label]
  BY DEF IInv, TypeOK
<1> USE DEF Goto
<1>1. CASE Quiet(p)
  BY <1>1, QuietFacts
<1>2. CASE ForkReady(p)
  BY <1>2, <1>t, ForkReadyEffect DEF ForkReady
<1>3. CASE ForkLink(p) \/ ForkCloneFails(p) \/ DmaBlock(p) \/ DmaUnlock(p) \/ Reap(p)
  BY <1>3, <1>t DEF ForkLink, ForkCloneFails, DmaBlock, DmaUnlock, Reap
<1>4. ASSUME NEW pid \in WaitPid, NEW nohang \in BOOLEAN, NEW wstatus \in BOOLEAN,
             WaitFound(p, pid, nohang, wstatus) \/ WaitHang(p, pid, wstatus)
      PROVE  pc'[q] = pc[q]
  BY <1>4, <1>t DEF WaitFound, WaitHang
<1>5. CASE ExitHandOff(p) \/ ExitZombie(p)
  BY <1>5, ExitsFacts DEF ExitHandOff, ExitZombie
<1> QED BY <1>1, <1>2, <1>3, <1>4, <1>5, StepCases

LEMMA IdleStep ==
    ASSUME IInv, [Next]_vars
    PROVE  IdleInv'
<1>t. /\ pc \in [Pid -> Label] /\ IDLE \in Pid /\ IDLE # INIT
      /\ after \in [Pid -> {"init", "user", "fork_ready", "reap"}]
  BY IdleAwake DEF IInv, TypeOK, IDLE, INIT
<1>i. /\ pc[IDLE] \in {"boot", "idle", "reap", "dma_lock", "dma_xfer"} \cup InFork
      /\ pc[IDLE] \in InDma => after[IDLE] = "fork_ready"
      /\ Booting => \A p \in Pid \ {IDLE} : state[p] = "EMPTY"
      /\ pc[IDLE] \in {"boot", "fork_link"} => next_pid = 1
  BY DEF IInv, IdleInv
\* Once it is idle it stays so.
<1>q. ASSUME pc'[IDLE] \in {"idle", "reap"} PROVE IdleInv'
  BY <1>q DEF IdleInv, Booting, InFork, InDma
<1>1. ASSUME NEW p \in Pid \ {IDLE}, Step(p) PROVE IdleInv'
  <2>1. state[p] = "RUNNING"
    <3>1. p = current_proc
      BY <1>1 DEF Step, Quiet, Critical, Exit, ForkAlloc, ForkNoMemory, ForkLink, ForkPpid,
         ForkClone, ForkCloneFails, ForkReady, DmaUnlock, SysIo, DmaLock, DmaBlock, WaitWoken,
         WaitFound, WaitHang, WaitReturn, Waits, Reap, ExitHandOff, ExitZombie, Exits, On
    <3> QED BY <3>1 DEF IInv, SchedInv
  <2>2. ~Booting
    BY <1>1, <1>i, <2>1
  <2>3. pc'[IDLE] = pc[IDLE]
    BY <1>1, <1>t, OthersStay, IdleAwake
  <2> QED BY <2>2, <2>3, <1>q DEF Booting
<1>2. CASE Step(IDLE)
  <2> USE DEF On, Goto
  <2>l. Resume(IDLE) = "idle"
    BY DEF Resume, IDLE, INIT
  <2>1. CASE ForkAlloc(IDLE) \/ ForkNoMemory(IDLE) \/ ForkPpid(IDLE) \/ ForkClone(IDLE) \/ DmaLock(IDLE)
    <3>1. state' = state /\ next_pid' = next_pid
      BY <2>1, <1>t, QuietEffect, QuietFacts DEF Quiet
    <3>2. \/ pc[IDLE] = "boot" /\ pc'[IDLE] \in {"fork_link", "idle"}
          \/ pc[IDLE] = "fork_ppid" /\ pc'[IDLE] = "fork_clone"
          \/ pc[IDLE] = "fork_clone" /\ pc'[IDLE] = "dma_lock" /\ after'[IDLE] = "fork_ready"
          \/ pc[IDLE] \in InDma /\ pc'[IDLE] = "dma_xfer" /\ after' = after
      BY <2>1, <2>l, <1>t, <1>i DEF ForkAlloc, ForkNoMemory, ForkPpid, ForkClone, DmaLock, InFork, InDma
    <3> QED BY <3>1, <3>2, <1>i DEF IdleInv, Booting, InFork, InDma
  <2>2. CASE ForkLink(IDLE)
    <3>1. state' = state /\ pc[IDLE] = "fork_link" /\ pc'[IDLE] = "fork_ppid"
      BY <2>2, <1>t, QuietEffect DEF ForkLink
    <3> QED BY <3>1, <1>i DEF IdleInv, Booting, InFork, InDma
  <2>3. CASE ForkCloneFails(IDLE) \/ ForkReady(IDLE) \/ Reap(IDLE)
    <3>1. pc'[IDLE] = "idle"
      BY <2>3, <2>l, <1>t, ForkReadyEffect DEF ForkCloneFails, ForkReady, Reap
    <3> QED BY <3>1, <1>q
  <2>4. CASE SysIo(IDLE) \/ WaitWoken(IDLE) \/ Exits(IDLE)
    BY <2>4, <1>i DEF SysIo, WaitWoken, Exits, InFork
  <2>5. CASE DmaUnlock(IDLE)
    <3>1. /\ pc[IDLE] = "dma_xfer" /\ pc'[IDLE] = "fork_ready" /\ UNCHANGED next_pid
          /\ IDLE = current_proc
      BY <2>5, <1>t, <1>i DEF DmaUnlock, InDma, tableVars
    <3>2. \A h \in Pid : state[h] # "BLOCKED"
      BY <3>1, <1>i, <1>t DEF Booting, IInv, SchedInv
    <3>3. Sleepers = {}
      <4>1. Sleepers \subseteq Pid
        BY ToSetType DEF IInv, TypeOK, Mutex, Sleepers
      <4> QED BY <4>1, <3>2 DEF IInv, SleepInv
    <3>4. state' = state
      BY <2>5, <3>3, <1>t, DmaUnlockEffect
    <3> QED BY <3>1, <3>4, <1>i DEF IdleInv, Booting, InFork, InDma
  <2>6. ASSUME NEW pid \in WaitPid, NEW nohang \in BOOLEAN, NEW wstatus \in BOOLEAN,
               \/ WaitFound(IDLE, pid, nohang, wstatus)
               \/ WaitReturn(IDLE, pid, nohang)
        PROVE  pc'[IDLE] \in {"idle", "reap"}
    <3>1. pc[IDLE] = "idle"
      BY <2>6, <1>i DEF WaitFound, WaitReturn, Waits, InFork
    <3>2. CASE WaitReturn(IDLE, pid, nohang)
      BY <3>1, <3>2, <1>t DEF WaitReturn
    <3>3. CASE WaitFound(IDLE, pid, nohang, wstatus)
      BY <3>1, <3>3, <1>t DEF WaitFound, Waits
    <3> QED BY <2>6, <3>2, <3>3
  <2> QED BY <1>2, <2>1, <2>2, <2>3, <2>4, <2>5, <2>6, <1>q, <1>t, DmaBlockEffect, WaitHangEffect
          DEF Step, Critical, Exit, ExitHandOff, ExitZombie
<1>k. CASE Tick
  <2>1. /\ UNCHANGED <<next_pid, pc, after>>
        /\ \A q \in Pid : \/ state'[q] = state[q]
                          \/ state[q] \in Awake /\ state'[q] \in Awake
    BY <1>k, TickEffect DEF Tick, tableVars, IInv, TypeOK
  <2> QED BY <2>1, <1>i DEF Awake, IdleInv, Booting
<1>u. CASE UNCHANGED vars
  BY <1>u, <1>i DEF vars, tableVars, schedVars, IdleInv, Booting
<1> QED BY <1>1, <1>2, <1>k, <1>u DEF Next, Rest

-----------------------------------------------------------------------------
(* The children that are not born.                                          *)

\* A step leaves the local variables of the other processes alone.
LEMMA OthersLocals ==
    ASSUME IInv, NEW p \in Pid, Step(p), NEW q \in Pid \ {p}
    PROVE  /\ after'[q] = after[q]
           /\ child_proc'[q] = child_proc[q] /\ found_process'[q] = found_process[q]
           /\ new_cbr'[q] = new_cbr[q]
           /\ Forking(q)' <=> Forking(q)
           /\ Reaping(q)' <=> Reaping(q)
           /\ pc'[q] = "fork_ppid" <=> pc[q] = "fork_ppid"
           /\ pc'[q] = "fork_link" <=> pc[q] = "fork_link"
<1>t. /\ after \in [Pid -> {"init", "user", "fork_ready", "reap"}]
      /\ new_cbr \in [Pid -> Block \cup {NULL}] /\ child_proc \in [Pid -> Pid \cup {NULL}]
      /\ found_process \in [Pid -> Pid \cup {NULL}]
  BY DEF IInv, TypeOK
<1> DEFINE Locals == /\ after'[q] = after[q]
                     /\ child_proc'[q] = child_proc[q]
                     /\ found_process'[q] = found_process[q]
                     /\ new_cbr'[q] = new_cbr[q]
<1>1. ASSUME \/ ForkAlloc(p) \/ ForkNoMemory(p) \/ ForkLink(p) \/ ForkPpid(p)
             \/ ForkClone(p) \/ ForkCloneFails(p) \/ ForkReady(p)
      PROVE  Locals
  BY <1>1, <1>t DEF ForkAlloc, ForkNoMemory, ForkLink, ForkPpid, ForkClone,
     ForkCloneFails, ForkReady, localVars
<1>2. ASSUME \/ DmaLock(p) \/ DmaBlock(p) \/ DmaUnlock(p) \/ SysIo(p)
             \/ WaitWoken(p) \/ Reap(p) \/ Exits(p)
      PROVE  Locals
  BY <1>2, <1>t DEF DmaLock, DmaBlock, DmaUnlock, SysIo, WaitWoken, Reap, Exits, localVars
<1>3. ASSUME NEW pid \in WaitPid, NEW nohang \in BOOLEAN, NEW wstatus \in BOOLEAN,
             \/ WaitFound(p, pid, nohang, wstatus)
             \/ WaitHang(p, pid, wstatus)
             \/ WaitReturn(p, pid, nohang)
      PROVE  Locals
  BY <1>3, <1>t DEF WaitFound, WaitHang, WaitReturn, localVars
<1>4. Locals
  BY <1>1, <1>2, <1>3 DEF Step, Critical, Exit, ExitHandOff, ExitZombie
<1>5. \/ pc'[q] = pc[q]
      \/ pc[q] = "dead" /\ pc'[q] \in {"init", "user"}
  <2>1. ForkReady(p) /\ q = child_proc[p] => pc'[q] \in {"init", "user"}
    BY DEF ForkReady, ChildStart, IInv, TypeOK
  <2> QED BY <2>1, OthersStay
<1> QED BY <1>4, <1>5 DEF Forking, Reaping, InDma

LEMMA ChildStep ==
    ASSUME IInv, [Next]_vars
    PROVE  ChildInv'
<1>t. /\ pc \in [Pid -> Label] /\ child_proc \in [Pid -> Pid \cup {NULL}]
      /\ after \in [Pid -> {"init", "user", "fork_ready", "reap"}]
      /\ ppid \in [Pid -> Pid] /\ process_list \subseteq Pid
      /\ NULL \notin Pid /\ Pid \subseteq Nat /\ next_pid \in Nat
      /\ IDLE \in Pid /\ IDLE = 0
  <2>1. Pid \subseteq Nat /\ next_pid \in Nat
    BY MaxPidAssumption DEF IInv, TypeOK, Pid
  <2> QED BY <2>1, NullAssumption, IdleAwake DEF IInv, TypeOK, IDLE
<1>c. /\ \A q \in Pid : child_proc[q] \in Pid =>
            /\ Forking(q)
            /\ child_proc[q] \in process_list
            /\ state[child_proc[q]] = "EMPTY"
            /\ ppid[child_proc[q]] = IF pc[q] = "fork_ppid" THEN 0 ELSE q
            /\ q < child_proc[q]
      /\ \A c \in process_list : state[c] = "EMPTY" => \E q \in Pid : child_proc[q] = c
  BY DEF IInv, ChildInv
\* Steps at which no child is made or lost.
<1>m. ASSUME UNCHANGED <<child_proc, process_list>>,
             \A c \in process_list : state'[c] = "EMPTY" <=> state[c] = "EMPTY",
             \A c \in process_list : state[c] = "EMPTY" => ppid'[c] = ppid[c],
             \A q \in Pid : child_proc[q] \in Pid =>
                Forking(q)' /\ (pc'[q] = "fork_ppid" <=> pc[q] = "fork_ppid")
      PROVE  ChildInv'
  BY <1>m DEF IInv, ChildInv
<1>p. ASSUME NEW p \in Pid, Step(p) PROVE ChildInv'
  <2>o. \A q \in Pid \ {p} :
           /\ child_proc'[q] = child_proc[q]
           /\ Forking(q)' <=> Forking(q)
           /\ pc'[q] = "fork_ppid" <=> pc[q] = "fork_ppid"
    BY <1>p, OthersLocals
  <2>c. \A q \in Pid : child_proc[q] \in Pid => Forking(q)
    BY DEF IInv, ChildInv
  \* The same, for a step of a process that has no child on the way.
  <2>n. ASSUME ~Forking(p),
               UNCHANGED <<child_proc, process_list>>,
               \A c \in process_list : state'[c] = "EMPTY" <=> state[c] = "EMPTY",
               \A c \in process_list : state[c] = "EMPTY" => ppid'[c] = ppid[c]
        PROVE  ChildInv'
    BY <2>n, <2>o, <2>c, <1>m
  <2> USE DEF On, Goto
  <2>1. CASE Quiet(p) /\ ~ForkPpid(p)
    <3>1. UNCHANGED <<child_proc, process_list>> /\ state' = state
      BY <2>1, QuietFacts, QuietEffect
    <3>2. ppid' = ppid
      BY <2>1 DEF Quiet, ForkAlloc, ForkNoMemory, ForkClone, DmaLock,
                  SysIo, WaitWoken, WaitReturn, tableVars
    <3>3. CASE ForkClone(p) \/ DmaLock(p)
      <4>1. Forking(p) => Forking(p)' /\ (pc'[p] = "fork_ppid" <=> pc[p] = "fork_ppid")
        BY <3>3, <1>t DEF ForkClone, DmaLock, Forking, InDma
      <4> QED BY <3>1, <3>2, <4>1, <2>o, <2>c, <1>m
    <3>4. CASE ~(ForkClone(p) \/ DmaLock(p))
      <4>1. ~Forking(p)
        BY <2>1, <3>4 DEF Quiet, ForkAlloc, ForkNoMemory, SysIo, WaitWoken, WaitReturn, Waits,
                          Forking, InDma
      <4> QED BY <3>1, <3>2, <4>1, <2>n
    <3> QED BY <3>3, <3>4
  <2>2. CASE ForkPpid(p)
    <3>1. /\ pc[p] = "fork_ppid" /\ pc'[p] = "fork_clone"
          /\ ppid' = [ppid EXCEPT ![child_proc[p]] = p]
          /\ UNCHANGED <<child_proc, process_list>>
          /\ state' = state
      BY <2>2, <1>t, QuietEffect DEF ForkPpid, localVars, Quiet
    <3>2. child_proc[p] \in Pid
      BY <3>1 DEF IInv, ForkHasChild, Forking
    <3>3. \A q \in Pid : child_proc[q] \in Pid /\ q # p => child_proc[q] # child_proc[p]
      BY DEF IInv, ChildDead
    <3>4. ppid'[child_proc[p]] = p /\ \A c \in Pid : c # child_proc[p] => ppid'[c] = ppid[c]
      BY <3>1, <3>2, <1>t
    <3>5. Forking(p)'
      BY <3>1 DEF Forking
    <3> QED BY <3>1, <3>3, <3>4, <3>5, <2>o DEF IInv, ChildInv
  <2>3. CASE ForkLink(p)
    <3>1. /\ pc[p] = "fork_link" /\ pc'[p] = "fork_ppid" /\ next_pid \in Pid
          /\ ppid' = [ppid EXCEPT ![next_pid] = 0]
          /\ child_proc'[p] = next_pid
          /\ process_list' = process_list \cup {next_pid}
          /\ state' = state
      BY <2>3, <1>t, QuietEffect DEF ForkLink, NewPid
    <3>2. state[next_pid] = "EMPTY" /\ p < next_pid
      BY <2>3, <3>1, <1>t, CurrentFacts DEF IInv, LifeInv, ForkLink
    <3>3. \A q \in Pid : child_proc[q] \in Pid => child_proc[q] # next_pid
      BY <1>t DEF IInv, ChildDead
    <3>4. ppid'[next_pid] = 0 /\ \A c \in Pid : c # next_pid => ppid'[c] = ppid[c]
      BY <3>1, <1>t
    <3>5. Forking(p)'
      BY <3>1 DEF Forking
    <3>6. ~Forking(p)
      BY <3>1 DEF Forking, InDma
    <3>7. child_proc[p] \notin Pid
      BY <3>6, <2>c
    <3>8. \A q \in Pid : child_proc'[q] \in Pid => Forking(q)'
      BY <3>5, <2>o, <2>c
    <3>9. \A q \in Pid : child_proc'[q] \in Pid =>
            /\ child_proc'[q] \in process_list'
            /\ state'[child_proc'[q]] = "EMPTY"
            /\ ppid'[child_proc'[q]] = IF pc'[q] = "fork_ppid" THEN 0 ELSE q
            /\ q < child_proc'[q]
      <4>1. ASSUME NEW q \in Pid \ {p}, child_proc'[q] \in Pid
            PROVE  /\ child_proc'[q] \in process_list'
                   /\ state'[child_proc'[q]] = "EMPTY"
                   /\ ppid'[child_proc'[q]] = IF pc'[q] = "fork_ppid" THEN 0 ELSE q
                   /\ q < child_proc'[q]
        BY <4>1, <3>1, <3>3, <3>4, <2>o, <1>c, <1>t
      <4> QED BY <4>1, <3>1, <3>2, <3>4
    <3>10. \A c \in process_list' : state'[c] = "EMPTY" => \E q \in Pid : child_proc'[q] = c
      BY <3>1, <3>7, <2>o, <1>t DEF IInv, ChildInv
    <3> QED BY <3>8, <3>9, <3>10 DEF ChildInv
  <2>4. CASE ForkCloneFails(p)
    <3>1. /\ pc[p] = "fork_clone"
          /\ ppid' = [ppid EXCEPT ![child_proc[p]] = 0]
          /\ child_proc'[p] = NULL
          /\ process_list' = process_list \ {child_proc[p]}
          /\ state' = state
      BY <2>4, <1>t, ForkCloneFailsEffect DEF ForkCloneFails, process_destroy
    <3>2. child_proc[p] \in Pid
      BY <2>4, ForkCloneFailsEffect
    <3>3. \A q \in Pid : child_proc[q] \in Pid /\ q # p => child_proc[q] # child_proc[p]
      BY DEF IInv, ChildDead
    <3>4. \A c \in Pid : c # child_proc[p] => ppid'[c] = ppid[c]
      BY <3>1, <3>2, <1>t
    <3>5. \A q \in Pid : child_proc'[q] \in Pid => q # p
      BY <3>1, <1>t
    <3>6. \A c \in process_list' : c \in process_list /\ c # child_proc[p]
      BY <3>1
    <3>7. \A c \in process_list' : state'[c] = "EMPTY" => \E q \in Pid : child_proc'[q] = c
      BY <3>1, <3>6, <2>o, <1>c, <1>t
    <3> QED BY <3>1, <3>3, <3>4, <3>5, <3>7, <2>o, <1>c, <1>t DEF ChildInv
  <2>5. CASE ForkReady(p)
    <3>1. /\ child_proc'[p] = NULL /\ ppid' = ppid /\ process_list' = process_list
      BY <2>5, <1>t DEF ForkReady, tableVars
    <3>2. child_proc[p] \in Pid /\ Moves(child_proc[p], "READY")
      BY <2>5, ForkReadyEffect
    <3>3. \A q \in Pid : child_proc[q] \in Pid /\ q # p => child_proc[q] # child_proc[p]
      BY DEF IInv, ChildDead
    <3>4. \A c \in Pid : state'[c] = "EMPTY" <=> state[c] = "EMPTY" /\ c # child_proc[p]
      BY <3>2 DEF Moves, Same, Awake
    <3>5. \A q \in Pid : child_proc'[q] \in Pid => q # p
      BY <3>1, <1>t
    <3>7. \A c \in process_list' : state'[c] = "EMPTY" => \E q \in Pid : child_proc'[q] = c
      BY <3>1, <3>4, <2>o, <1>c, <1>t
    <3>8. ASSUME NEW q \in Pid, child_proc'[q] \in Pid
          PROVE  /\ Forking(q)'
                 /\ child_proc'[q] \in process_list'
                 /\ state'[child_proc'[q]] = "EMPTY"
                 /\ ppid'[child_proc'[q]] = IF pc'[q] = "fork_ppid" THEN 0 ELSE q
                 /\ q < child_proc'[q]
      <4>1. q # p /\ child_proc'[q] = child_proc[q] /\ (Forking(q)' <=> Forking(q))
        BY <3>5, <3>8, <2>o
      <4>2. child_proc[q] # child_proc[p] /\ child_proc[q] \in Pid
        BY <3>3, <3>8, <4>1
      <4> QED BY <3>1, <3>4, <4>1, <4>2, <2>o, <1>c
    <3> QED BY <3>7, <3>8 DEF ChildInv
  <2>6. CASE DmaBlock(p) \/ DmaUnlock(p)
    <3>1. UNCHANGED <<child_proc, process_list, ppid>>
      BY <2>6 DEF DmaBlock, DmaUnlock, tableVars, localVars
    <3>2. Forking(p) => Forking(p)' /\ (pc'[p] = "fork_ppid" <=> pc[p] = "fork_ppid")
      BY <2>6, <1>t DEF DmaBlock, DmaUnlock, Forking, InDma
    <3>3. \A c \in Pid : state'[c] = "EMPTY" <=> state[c] = "EMPTY"
      BY <2>6, ClassStays
    <3> QED BY <3>1, <3>2, <3>3, <2>o, <2>c, <1>m, <1>t
  <2>7. ASSUME NEW pid \in WaitPid, NEW nohang \in BOOLEAN, NEW wstatus \in BOOLEAN,
               WaitFound(p, pid, nohang, wstatus)
        PROVE  ChildInv'
    <3>1. UNCHANGED <<child_proc, process_list, ppid>> /\ state' = state
      BY <2>7 DEF WaitFound, tableVars
    <3>2. ~Forking(p)
      BY <2>7, WaitFoundEffect DEF Forking, InDma
    <3> QED BY <3>1, <3>2, <2>n
  <2>8. ASSUME NEW pid \in WaitPid, NEW wstatus \in BOOLEAN, WaitHang(p, pid, wstatus)
        PROVE  ChildInv'
    <3>1. UNCHANGED <<child_proc, process_list, ppid>>
      BY <2>8 DEF WaitHang, tableVars, localVars
    <3>2. ~Forking(p)
      BY <2>8, WaitHangEffect DEF Forking, InDma
    <3>3. \A c \in Pid : state'[c] = "EMPTY" <=> state[c] = "EMPTY"
      BY <2>8, ClassStays
    <3> QED BY <3>1, <3>2, <3>3, <2>n, <1>t
  <2>9. CASE Reap(p)
    <3>1. /\ ppid' = [ppid EXCEPT ![found_process[p]] = 0]
          /\ child_proc' = child_proc
          /\ process_list' = process_list \ {found_process[p]}
      BY <2>9 DEF Reap, process_destroy
    <3>2. /\ found_process[p] \in Pid /\ state[found_process[p]] = "ZOMBIE"
          /\ Moves(found_process[p], "EMPTY")
      BY <2>9, ReapEffect
    <3>3. ~Forking(p)
      BY <2>9 DEF Reap, Forking, InDma
    <3>4. \A c \in Pid \ {found_process[p]} :
             ppid'[c] = ppid[c] /\ (state'[c] = "EMPTY" <=> state[c] = "EMPTY")
      BY <3>1, <3>2, <1>t DEF Moves, Same, Awake
    <3>5. \A q \in Pid : child_proc[q] \in Pid => q # p /\ child_proc[q] # found_process[p]
      BY <3>2, <3>3, <1>c
    <3>6. \A q \in Pid : child_proc'[q] \in Pid =>
            /\ Forking(q)'
            /\ child_proc'[q] \in process_list'
            /\ state'[child_proc'[q]] = "EMPTY"
            /\ ppid'[child_proc'[q]] = IF pc'[q] = "fork_ppid" THEN 0 ELSE q
            /\ q < child_proc'[q]
      BY <3>1, <3>4, <3>5, <2>o, <1>c
    <3>7. \A c \in process_list' : state'[c] = "EMPTY" => \E q \in Pid : child_proc'[q] = c
      BY <3>1, <3>4, <1>c, <1>t
    <3> QED BY <3>6, <3>7 DEF ChildInv
  <2>10. CASE ExitHandOff(p) \/ ExitZombie(p)
    <3>1. Exits(p)
      BY <2>10 DEF ExitHandOff, ExitZombie
    <3>2. /\ UNCHANGED <<child_proc, process_list>> /\ ~Forking(p) /\ p # IDLE
          /\ state[p] = "RUNNING"
          /\ \A c \in Pid : ppid'[c] = IF c \in process_list /\ ppid[c] = p THEN INIT ELSE ppid[c]
      BY <3>1, ExitsFacts DEF localVars
    <3>3. \A c \in Pid : state'[c] = "EMPTY" <=> state[c] = "EMPTY"
      <4>1. CASE ExitZombie(p)
        BY <4>1, <3>2, ExitZombieEffect DEF Moves, Same, Awake
      <4>2. CASE ExitHandOff(p)
        <5>1. PICK w \in Waiters :
                /\ w \in Pid
                /\ state'[p] = "ZOMBIE" /\ state'[w] = "RUNNING"
                /\ \A q \in Pid \ {p, w} : state'[q] = state[q]
          BY <4>2, ExitHandOffEffect
        <5>2. state[w] = "BLOCKED"
          BY <5>1 DEF IInv, SleepInv
        <5> QED BY <5>1, <5>2, <3>2
      <4> QED BY <2>10, <4>1, <4>2
    <3>4. ASSUME NEW c \in process_list, state[c] = "EMPTY" PROVE ppid'[c] = ppid[c]
      <4>1. PICK q \in Pid : child_proc[q] = c
        BY <3>4 DEF IInv, ChildInv
      <4>2. c \in Pid /\ Forking(q) /\ ppid[c] \in {0, q}
        BY <4>1, <1>t, <2>c DEF IInv, ChildInv
      <4> QED BY <4>2, <3>2, <1>t
    <3> QED BY <3>2, <3>3, <3>4, <2>n, <1>t
  <2> QED BY <1>p, <2>1, <2>2, <2>3, <2>4, <2>5, <2>6, <2>7, <2>8, <2>9, <2>10, StepCases
<1>k. CASE Tick
  <2>1. /\ UNCHANGED <<process_list, child_proc, ppid, pc, after>>
        /\ \A q \in Pid : \/ state'[q] = state[q]
                          \/ state[q] \in Awake /\ state'[q] \in Awake
    BY <1>k, TickEffect DEF Tick, tableVars, localVars, IInv, TypeOK
  <2>2. \A q \in Pid : Forking(q)' <=> Forking(q)
    BY <2>1 DEF Forking
  <2> QED BY <2>1, <2>2, <1>m, <1>t DEF Awake, IInv, ChildInv
<1>u. CASE UNCHANGED vars
  BY <1>u DEF vars, tableVars, localVars, schedVars, IInv, ChildInv, Forking
<1> QED BY <1>p, <1>k, <1>u DEF Next, Rest

-----------------------------------------------------------------------------
(* The zombies.                                                             *)

\* Only an exit that hands the CPU to a waiter gives a zombie to another.
LEMMA OthersHold ==
    ASSUME IInv, NEW p \in Pid, Step(p), ~ExitHandOff(p), NEW q \in Pid \ {p}, NEW z \in Pid
    PROVE  Holds(q, z)' <=> Holds(q, z)
<1>t. wait_process \in [Pid -> Pid \cup {NULL}]
  BY DEF IInv, TypeOK
<1>1. wait_process'[q] = wait_process[q]
  <2>1. CASE Quiet(p)
    BY <2>1, QuietFacts DEF waitVars
  <2>2. CASE ForkLink(p) \/ ForkCloneFails(p) \/ ForkReady(p) \/ DmaBlock(p) \/ DmaUnlock(p)
             \/ Reap(p) \/ ExitZombie(p)
    BY <2>2 DEF ForkLink, ForkCloneFails, ForkReady, DmaBlock, DmaUnlock, Reap, ExitZombie,
       waitVars
  <2>3. ASSUME NEW pid \in WaitPid, NEW nohang \in BOOLEAN, NEW wstatus \in BOOLEAN,
               WaitFound(p, pid, nohang, wstatus) \/ WaitHang(p, pid, wstatus)
        PROVE  wait_process'[q] = wait_process[q]
    BY <2>3, <1>t DEF WaitFound, WaitHang
  <2> QED BY <2>1, <2>2, <2>3, StepCases
<1>2. \/ pc'[q] = pc[q]
      \/ pc[q] = "dead" /\ pc'[q] \in {"init", "user"}
  <2>1. ForkReady(p) /\ q = child_proc[p] => pc'[q] \in {"init", "user"}
    BY DEF ForkReady, ChildStart, IInv, TypeOK
  <2> QED BY <2>1, OthersStay
<1>3. found_process'[q] = found_process[q]
  BY OthersLocals
<1> QED BY <1>1, <1>2, <1>3 DEF Holds

LEMMA ZombieStep ==
    ASSUME IInv, [Next]_vars
    PROVE  ZombieInv'
<1>t. /\ pc \in [Pid -> Label] /\ found_process \in [Pid -> Pid \cup {NULL}]
      /\ wait_process \in [Pid -> Pid \cup {NULL}]
      /\ after \in [Pid -> {"init", "user", "fork_ready", "reap"}]
      /\ ppid \in [Pid -> Pid] /\ NULL \notin Pid
      /\ Zombies \subseteq Pid
  <2>1. Zombies \subseteq Pid
    BY ToSetType DEF Zombies, IInv, TypeOK
  <2> QED BY <2>1, NullAssumption DEF IInv, TypeOK
<1>z. /\ IsInjective(process_zombie_list)
      /\ \A z \in Zombies : state[z] = "ZOMBIE"
      /\ \A q \in Pid : found_process[q] \in Pid <=> Reaping(q)
      /\ \A q, z \in Pid : Holds(q, z) =>
            state[z] = "ZOMBIE" /\ z \notin Zombies /\ ppid[z] = q
      /\ \A z \in Pid : state[z] = "ZOMBIE" =>
            z \in Zombies \/ \E q \in Pid : Holds(q, z)
  BY DEF IInv, ZombieInv
\* Steps at which no process dies and no zombie is found or reaped.
<1>m. ASSUME UNCHANGED process_zombie_list,
             \A q \in Pid : found_process'[q] \in Pid <=> Reaping(q)',
             \A q, z \in Pid : Holds(q, z)' <=> Holds(q, z),
             \A z \in Pid : state'[z] = "ZOMBIE" <=> state[z] = "ZOMBIE",
             \A z \in Pid : state[z] = "ZOMBIE" => ppid'[z] = ppid[z]
      PROVE  ZombieInv'
  <2>1. Zombies' = Zombies
    BY <1>m DEF Zombies
  <2> QED BY <1>m, <1>t, <1>z, <2>1 DEF ZombieInv
<1>p. ASSUME NEW p \in Pid, Step(p) PROVE ZombieInv'
  <2>o. \A q \in Pid \ {p} :
           /\ found_process'[q] = found_process[q]
           /\ Reaping(q)' <=> Reaping(q)
    BY <1>p, OthersLocals
  <2>h. ~ExitHandOff(p) => \A q \in Pid \ {p}, z \in Pid : Holds(q, z)' <=> Holds(q, z)
    BY <1>p, OthersHold
  \* The same, in terms of the process that makes the step.
  <2>n. ASSUME ~ExitHandOff(p), UNCHANGED process_zombie_list,
               found_process'[p] \in Pid <=> Reaping(p)',
               \A z \in Pid : Holds(p, z)' <=> Holds(p, z),
               \A z \in Pid : state'[z] = "ZOMBIE" <=> state[z] = "ZOMBIE",
               \A z \in Pid : state[z] = "ZOMBIE" => ppid'[z] = ppid[z]
        PROVE  ZombieInv'
    <3>1. \A q \in Pid : found_process'[q] \in Pid <=> Reaping(q)'
      BY <2>n, <2>o, <1>z
    <3>2. \A q, z \in Pid : Holds(q, z)' <=> Holds(q, z)
      BY <2>n, <2>h
    <3> QED BY <2>n, <3>1, <3>2, <1>m
  \* A process that is not in waitpid before the step or after it.
  <2>k. ASSUME found_process'[p] = found_process[p], Reaping(p)' <=> Reaping(p),
               pc[p] # "wait_woken", pc'[p] # "wait_woken"
        PROVE  /\ found_process'[p] \in Pid <=> Reaping(p)'
               /\ \A z \in Pid : Holds(p, z)' <=> Holds(p, z)
    BY <2>k, <1>z DEF Holds
  <2> USE DEF On, Goto
  <2>l. Resume(p) \in {"idle", "init_wait", "user"}
    BY DEF Resume
  <2>1. CASE Quiet(p) /\ ~WaitWoken(p)
    <3>1. UNCHANGED process_zombie_list /\ state' = state
      BY <2>1, QuietFacts, QuietEffect DEF waitVars
    <3>2. /\ found_process'[p] = found_process[p] /\ (Reaping(p)' <=> Reaping(p))
          /\ pc[p] # "wait_woken" /\ pc'[p] # "wait_woken"
      <4>1. CASE ForkAlloc(p) \/ ForkNoMemory(p) \/ ForkPpid(p) \/ ForkClone(p)
        BY <4>1, <2>l, <1>t DEF ForkAlloc, ForkNoMemory, ForkPpid, ForkClone, localVars, Reaping, InDma
      <4>2. CASE SysIo(p) \/ DmaLock(p)
        BY <4>2, <1>t DEF SysIo, DmaLock, localVars, Reaping, InDma
      <4>3. ASSUME NEW pid \in WaitPid, NEW nohang \in BOOLEAN, WaitReturn(p, pid, nohang)
            PROVE  /\ found_process'[p] = found_process[p] /\ (Reaping(p)' <=> Reaping(p))
                   /\ pc[p] # "wait_woken" /\ pc'[p] # "wait_woken"
        BY <4>3, <1>t DEF WaitReturn, Waits, localVars, Reaping, InDma
      <4> QED BY <2>1, <4>1, <4>2, <4>3 DEF Quiet
    <3>3. \A z \in Pid : state[z] = "ZOMBIE" => ppid'[z] = ppid[z]
      <4>1. CASE ForkPpid(p)
        <5>1. child_proc[p] \in Pid /\ state[child_proc[p]] = "EMPTY"
          BY <4>1 DEF ForkPpid, IInv, ForkHasChild, Forking, ChildInv
        <5>2. ppid' = [ppid EXCEPT ![child_proc[p]] = p]
          BY <4>1 DEF ForkPpid
        <5> QED BY <5>1, <5>2, <1>t
      <4>2. CASE ~ForkPpid(p)
        <5>1. ppid' = ppid
          BY <2>1, <4>2 DEF Quiet, ForkAlloc, ForkNoMemory, ForkClone, DmaLock, SysIo, WaitReturn,
                            tableVars
        <5> QED BY <5>1
      <4> QED BY <4>1, <4>2
    <3>4. ~ExitHandOff(p)
      BY <3>2, <2>1, QuietEffect, ExitHandOffEffect, ExitsFacts
    <3> QED BY <3>1, <3>2, <3>3, <3>4, <2>k, <2>n
  <2>2. CASE WaitWoken(p)
    <3>1. UNCHANGED <<process_zombie_list, ppid>> /\ state' = state
      BY <2>2 DEF WaitWoken, waitVars, tableVars, schedVars
    <3>2. /\ pc[p] = "wait_woken" /\ pc'[p] # "wait_woken"
          /\ found_process'[p] = wait_process[p]
          /\ wait_process[p] = NULL => ~Reaping(p)'
          /\ wait_process[p] # NULL => Reaping(p)'
      BY <2>2, <2>l, <1>t DEF WaitWoken, Reaping, InDma
    <3>3. found_process[p] \notin Pid
      BY <3>2, <1>z DEF Reaping, InDma
    <3>4. \A z \in Pid : Holds(p, z)' <=> Holds(p, z)
      BY <3>2, <3>3 DEF Holds
    <3>5. ~ExitHandOff(p)
      BY <3>2, ExitHandOffEffect, ExitsFacts
    <3> QED BY <3>1, <3>2, <3>4, <3>5, <2>n, <1>t
  <2>3. CASE ForkLink(p) \/ ForkCloneFails(p)
    <3>1. /\ UNCHANGED process_zombie_list /\ state' = state
          /\ found_process'[p] = found_process[p] /\ (Reaping(p)' <=> Reaping(p))
          /\ pc[p] \in {"fork_link", "fork_clone"} /\ pc'[p] # "wait_woken"
      BY <2>3, <2>l, <1>t, QuietEffect, ForkCloneFailsEffect
         DEF ForkLink, ForkCloneFails, waitVars, Reaping, InDma
    <3>2. \A z \in Pid : state[z] = "ZOMBIE" => ppid'[z] = ppid[z]
      <4>1. CASE ForkLink(p)
        <5>1. /\ next_pid \in Pid /\ ppid' = [ppid EXCEPT ![next_pid] = 0]
              /\ state' = [state EXCEPT ![next_pid] = "EMPTY"]
          BY <4>1 DEF ForkLink, NewPid
        <5>2. state[next_pid] = "EMPTY"
          BY <5>1, <3>1 DEF IInv, TypeOK, SchedTypeOK
        <5> QED BY <5>1, <5>2, <1>t
      <4>2. CASE ForkCloneFails(p)
        <5>1. child_proc[p] \in Pid /\ state[child_proc[p]] = "EMPTY"
          BY <4>2, ForkCloneFailsEffect
        <5>2. ppid' = [ppid EXCEPT ![child_proc[p]] = 0]
          BY <4>2 DEF ForkCloneFails, process_destroy
        <5> QED BY <5>1, <5>2, <1>t
      <4> QED BY <2>3, <4>1, <4>2
    <3>3. ~ExitHandOff(p)
      BY <3>1, ExitHandOffEffect, ExitsFacts
    <3> QED BY <3>1, <3>2, <3>3, <2>k, <2>n
  <2>4. CASE ForkReady(p)
    <3>1. /\ UNCHANGED <<process_zombie_list, ppid>>
          /\ found_process'[p] = found_process[p]
          /\ pc[p] = "fork_ready"
      BY <2>4 DEF ForkReady, waitVars, tableVars
    <3>2. /\ child_proc[p] # p /\ Moves(child_proc[p], "READY")
          /\ child_proc[p] \in Pid /\ state[child_proc[p]] = "EMPTY"
      BY <2>4, ForkReadyEffect
    <3>3. pc'[p] = Resume(p)
      BY <2>4, <3>2, <1>t DEF ForkReady
    <3>4. (Reaping(p)' <=> Reaping(p)) /\ pc'[p] # "wait_woken"
      BY <3>1, <3>3, <2>l DEF Reaping, InDma
    <3>5. \A z \in Pid : state'[z] = "ZOMBIE" <=> state[z] = "ZOMBIE"
      BY <3>2 DEF Moves, Same, Awake
    <3>6. ~ExitHandOff(p)
      BY <3>1, ExitHandOffEffect, ExitsFacts
    <3> QED BY <3>1, <3>4, <3>5, <3>6, <2>k, <2>n
  <2>5. CASE DmaBlock(p) \/ DmaUnlock(p)
    <3>1. /\ UNCHANGED <<process_zombie_list, ppid>>
          /\ found_process'[p] = found_process[p] /\ (Reaping(p)' <=> Reaping(p))
          /\ pc[p] \in InDma /\ pc[p] # "wait_woken" /\ pc'[p] # "wait_woken"
          /\ p = current_proc
      BY <2>5, <1>t DEF DmaBlock, DmaUnlock, waitVars, tableVars, localVars, Reaping, InDma
    <3>2. \A z \in Pid : state'[z] = "ZOMBIE" <=> state[z] = "ZOMBIE"
      BY <2>5, ClassStays
    <3>3. ~ExitHandOff(p)
      BY <3>1, ExitHandOffEffect, ExitsFacts DEF InDma
    <3> QED BY <3>1, <3>2, <3>3, <2>k, <2>n
  <2>6. ASSUME NEW pid \in WaitPid, NEW nohang \in BOOLEAN, NEW wstatus \in BOOLEAN,
               WaitFound(p, pid, nohang, wstatus)
        PROVE  ZombieInv'
    <3>1. PICK z \in Zombies :
            /\ z \in Pid /\ IsChild(z, p, pid)
            /\ found_process' = [found_process EXCEPT ![p] = z]
            /\ IsInjective(process_zombie_list')
            /\ Zombies' = Zombies \ {z}
      BY <2>6, WaitFoundEffect
    <3>2. /\ UNCHANGED ppid /\ state' = state
          /\ pc[p] \in {"idle", "init_wait", "user"}
      BY <2>6, WaitFoundEffect DEF WaitFound, tableVars
    <3>3. Reaping(p)' /\ pc'[p] # "wait_woken"
      BY <2>6, <1>t DEF WaitFound, Reaping, InDma
    <3>4. ppid[z] = p /\ found_process'[p] = z /\ state[z] = "ZOMBIE"
      BY <3>1, <1>t, <1>z DEF IsChild
    <3>5. found_process[p] \notin Pid
      BY <3>2, <1>z DEF Reaping, InDma
    <3>6. \A y \in Pid : ~Holds(p, y)
      BY <3>2, <3>5 DEF Holds
    <3>7. \A y \in Pid : Holds(p, y)' <=> y = z
      BY <3>3, <3>4 DEF Holds
    <3>8. \A q \in Pid \ {p}, y \in Pid : Holds(q, y)' <=> Holds(q, y)
      BY <3>2, <2>h, ExitHandOffEffect, ExitsFacts DEF InDma
    <3>9. \A q \in Pid : ~Holds(q, z)
      BY <3>1, <1>z
    <3>10. \A q \in Pid : found_process'[q] \in Pid <=> Reaping(q)'
      BY <3>1, <3>3, <3>4, <2>o, <1>z
    <3>11. \A q, y \in Pid : Holds(q, y)' =>
              state'[y] = "ZOMBIE" /\ y \notin Zombies' /\ ppid'[y] = q
      BY <3>1, <3>2, <3>4, <3>7, <3>8, <1>z
    <3>12. \A y \in Pid : state'[y] = "ZOMBIE" => y \in Zombies' \/ \E q \in Pid : Holds(q, y)'
      <4>1. ASSUME NEW y \in Pid, state[y] = "ZOMBIE", y # z
            PROVE  y \in Zombies' \/ \E q \in Pid : Holds(q, y)'
        BY <4>1, <3>1, <3>6, <3>8, <1>z
      <4> QED BY <4>1, <3>2, <3>7
    <3> QED BY <3>1, <3>2, <3>10, <3>11, <3>12, <1>z DEF ZombieInv
  <2>7. ASSUME NEW pid \in WaitPid, NEW wstatus \in BOOLEAN, WaitHang(p, pid, wstatus)
        PROVE  ZombieInv'
    <3>1. /\ UNCHANGED <<process_zombie_list, ppid>>
          /\ pc[p] \in {"init_wait", "user"} /\ pc'[p] = "wait_woken"
          /\ wait_process'[p] = NULL /\ found_process' = found_process
      BY <2>7, <1>t, WaitHangEffect DEF WaitHang, tableVars, localVars
    <3>3. found_process[p] \notin Pid
      BY <3>1, <1>z DEF Reaping, InDma
    <3>4. \A z \in Pid : Holds(p, z)' <=> Holds(p, z)
      BY <3>1, <3>3, <1>t DEF Holds
    <3>5. \A z \in Pid : state'[z] = "ZOMBIE" <=> state[z] = "ZOMBIE"
      BY <2>7, ClassStays
    <3>6. ~Reaping(p)'
      BY <3>1 DEF Reaping, InDma
    <3>7. ~ExitHandOff(p)
      BY <3>1, ExitHandOffEffect, ExitsFacts
    <3> QED BY <3>1, <3>3, <3>4, <3>5, <3>6, <3>7, <2>n
  <2>8. CASE Reap(p)
    <3> DEFINE z == found_process[p]
    <3>1. /\ z \in Pid /\ state[z] = "ZOMBIE" /\ Moves(z, "EMPTY")
      BY <2>8, ReapEffect
    <3>2. /\ UNCHANGED process_zombie_list /\ pc[p] = "reap"
          /\ ppid' = [ppid EXCEPT ![z] = 0]
          /\ found_process'[p] = NULL /\ pc'[p] = Resume(p)
      BY <2>8, <1>t DEF Reap, process_destroy, waitVars
    <3>3. Holds(p, z)
      BY DEF Holds
    <3>4. \A y \in Pid : Holds(p, y) <=> y = z
      BY <3>2 DEF Holds
    <3> HIDE DEF z
    <3>5. ~Reaping(p)' /\ \A y \in Pid : ~Holds(p, y)'
      BY <3>2, <2>l, <1>t DEF Reaping, InDma, Holds
    <3>6. z \notin Zombies /\ ppid[z] = p /\ \A q \in Pid \ {p} : ~Holds(q, z)
      BY <3>1, <3>3, <1>z
    <3>7. Zombies' = Zombies
      BY <3>2 DEF Zombies
    <3>8. \A y \in Pid : state'[y] = "ZOMBIE" <=> state[y] = "ZOMBIE" /\ y # z
      BY <3>1 DEF Moves, Same, Awake
    <3>9. \A y \in Pid \ {z} : ppid'[y] = ppid[y]
      BY <3>1, <3>2, <1>t
    <3>10. \A q \in Pid \ {p}, y \in Pid : Holds(q, y)' <=> Holds(q, y)
      BY <3>2, <2>h, ExitHandOffEffect, ExitsFacts
    <3>11. \A q \in Pid : found_process'[q] \in Pid <=> Reaping(q)'
      BY <3>2, <3>5, <2>o, <1>z, <1>t
    <3>12. \A q, y \in Pid : Holds(q, y)' => q # p /\ Holds(q, y) /\ y # z
      <4>1. ASSUME NEW q \in Pid \ {p}, NEW y \in Pid, Holds(q, y)'
            PROVE  Holds(q, y) /\ y # z
        BY <4>1, <3>6, <3>10
      <4> QED BY <3>5, <4>1
    <3>13. \A y \in Pid : state'[y] = "ZOMBIE" => y \in Zombies' \/ \E q \in Pid : Holds(q, y)'
      BY <3>4, <3>7, <3>8, <3>10, <1>z
    <3>14. \A y \in Zombies' : state'[y] = "ZOMBIE"
      BY <3>6, <3>7, <3>8, <1>t, <1>z
    <3>15. \A q, y \in Pid : Holds(q, y)' =>
              state'[y] = "ZOMBIE" /\ y \notin Zombies' /\ ppid'[y] = q
      BY <3>7, <3>8, <3>9, <3>12, <1>z
    <3> QED BY <3>2, <3>11, <3>13, <3>14, <3>15, <1>z DEF ZombieInv
  <2>9. CASE ExitHandOff(p)
    <3>1. PICK w \in Waiters :
            /\ w \in Pid /\ w # p /\ w = ppid[p]
            /\ wait_process' = [wait_process EXCEPT ![w] = p]
            /\ state'[p] = "ZOMBIE" /\ state'[w] = "RUNNING"
            /\ \A q \in Pid \ {p, w} : state'[q] = state[q]
      BY <2>9, ExitHandOffEffect
    <3>2. /\ UNCHANGED <<process_zombie_list, found_process>>
          /\ pc[p] \in {"user", "init_exit"} /\ pc'[p] = "dead" /\ \A q \in Pid \ {p} : pc'[q] = pc[q]
          /\ state[p] = "RUNNING" /\ ~Reaping(p)
          /\ \A c \in Pid : ppid'[c] = IF c \in process_list /\ ppid[c] = p THEN INIT ELSE ppid[c]
      BY <2>9, ExitHandOffEffect, ExitsFacts DEF localVars
    <3>3. state[w] = "BLOCKED" /\ pc[w] = "wait_woken" /\ wait_process[w] = NULL
      BY <3>1 DEF IInv, SleepInv
    <3>4. found_process[w] \notin Pid /\ found_process[p] \notin Pid
      BY <3>1, <3>2, <3>3, <1>z DEF Reaping, InDma
    <3>5. ~Reaping(p)' /\ Zombies' = Zombies
      BY <3>2 DEF Reaping, InDma, Zombies
    <3>6. \A q \in Pid \ {w} : wait_process'[q] = wait_process[q]
      BY <3>1, <1>t
    <3>7. wait_process'[w] = p
      BY <3>1, <1>t
    <3>8. \A y \in Pid : ~Holds(p, y) /\ ~Holds(p, y)' /\ ~Holds(w, y)
      BY <3>2, <3>3, <3>4, <1>t DEF Holds
    <3>9. \A y \in Pid : Holds(w, y)' <=> y = p
      BY <3>1, <3>2, <3>3, <3>4, <3>7 DEF Holds
    <3>10. \A q \in Pid \ {p, w}, y \in Pid : Holds(q, y)' <=> Holds(q, y)
      BY <3>2, <3>6 DEF Holds
    <3>11. \A q \in Pid : found_process'[q] \in Pid <=> Reaping(q)'
      BY <3>2, <3>4, <3>5, <2>o, <1>z
    <3>12. \A y \in Pid : state'[y] = "ZOMBIE" <=> state[y] = "ZOMBIE" \/ y = p
      BY <3>1, <3>3
    <3>13. ppid'[p] = w /\ p \notin Zombies
      BY <3>1, <3>2, <1>z
    <3>14. \A q, y \in Pid : Holds(q, y)' =>
              state'[y] = "ZOMBIE" /\ y \notin Zombies' /\ ppid'[y] = q
      <4>1. ASSUME NEW q \in Pid \ {p, w}, NEW y \in Pid, Holds(q, y)
            PROVE  state[y] = "ZOMBIE" /\ y \notin Zombies /\ ppid[y] = q /\ ppid'[y] = q
        BY <4>1, <3>2, <1>z
      <4> QED BY <4>1, <3>1, <3>5, <3>8, <3>9, <3>10, <3>12, <3>13
    <3>15. \A y \in Pid : state'[y] = "ZOMBIE" => y \in Zombies' \/ \E q \in Pid : Holds(q, y)'
      BY <3>5, <3>8, <3>9, <3>10, <3>12, <3>1, <1>z
    <3>16. \A y \in Zombies' : state'[y] = "ZOMBIE"
      BY <3>5, <3>12, <1>t, <1>z
    <3> QED BY <3>2, <3>11, <3>14, <3>15, <3>16, <1>z DEF ZombieInv
  <2>10. CASE ExitZombie(p)
    <3>1. /\ Moves(p, "ZOMBIE") /\ IsInjective(process_zombie_list')
          /\ p \notin Zombies /\ Zombies' = Zombies \cup {p}
          /\ wait_process' = wait_process
      BY <2>10, ExitZombieEffect
    <3>2. /\ UNCHANGED found_process
          /\ pc[p] \in {"user", "init_exit"} /\ pc'[p] = "dead" /\ \A q \in Pid \ {p} : pc'[q] = pc[q]
          /\ state[p] = "RUNNING" /\ ~Reaping(p)
          /\ \A c \in Pid : ppid'[c] = IF c \in process_list /\ ppid[c] = p THEN INIT ELSE ppid[c]
      BY <2>10, ExitZombieEffect, ExitsFacts DEF localVars
    <3>3. found_process[p] \notin Pid /\ ~Reaping(p)'
      BY <3>2, <1>z DEF Reaping, InDma
    <3>4. \A y \in Pid : ~Holds(p, y) /\ ~Holds(p, y)'
      BY <3>2, <3>3 DEF Holds
    <3>5. \A q \in Pid \ {p}, y \in Pid : Holds(q, y)' <=> Holds(q, y)
      BY <3>1, <3>2 DEF Holds
    <3>6. \A y \in Pid : state'[y] = "ZOMBIE" <=> state[y] = "ZOMBIE" \/ y = p
      BY <3>1, <3>2 DEF Moves, Same, Awake
    <3>7. \A q \in Pid : found_process'[q] \in Pid <=> Reaping(q)'
      BY <3>2, <3>3, <2>o, <1>z
    <3>8. \A q, y \in Pid : Holds(q, y)' => q # p /\ Holds(q, y) /\ y # p
      BY <3>2, <3>4, <3>5, <1>z
    <3>9. \A q, y \in Pid : Holds(q, y)' =>
              state'[y] = "ZOMBIE" /\ y \notin Zombies' /\ ppid'[y] = q
      BY <3>1, <3>2, <3>6, <3>8, <1>z
    <3>10. \A y \in Pid : state'[y] = "ZOMBIE" => y \in Zombies' \/ \E q \in Pid : Holds(q, y)'
      BY <3>1, <3>4, <3>5, <3>6, <1>z
    <3>11. \A y \in Zombies' : state'[y] = "ZOMBIE"
      BY <3>1, <3>6, <1>t, <1>z
    <3> QED BY <3>1, <3>7, <3>9, <3>10, <3>11 DEF ZombieInv
  <2> QED BY <1>p, <2>1, <2>2, <2>3, <2>4, <2>5, <2>6, <2>7, <2>8, <2>9, <2>10, StepCases
<1>k. CASE Tick
  <2>1. /\ UNCHANGED <<process_zombie_list, found_process, wait_process, ppid, pc, after>>
        /\ \A q \in Pid : \/ state'[q] = state[q]
                          \/ state[q] \in Awake /\ state'[q] \in Awake
    BY <1>k, TickEffect DEF Tick, tableVars, waitVars, localVars, IInv, TypeOK
  <2>2. \A q, z \in Pid : Holds(q, z)' <=> Holds(q, z)
    BY <2>1 DEF Holds
  <2>3. \A q \in Pid : found_process'[q] \in Pid <=> Reaping(q)'
    BY <2>1, <1>z DEF Reaping
  <2>4. \A z \in Pid : state'[z] = "ZOMBIE" <=> state[z] = "ZOMBIE"
    BY <2>1 DEF Awake
  <2> QED BY <2>1, <2>2, <2>3, <2>4, <1>m
<1>u. CASE UNCHANGED vars
  BY <1>u, <1>z DEF vars, tableVars, waitVars, localVars, schedVars, ZombieInv, Zombies, Holds, Reaping
<1> QED BY <1>p, <1>k, <1>u DEF Next, Rest

\* Whoever is not EMPTY keeps its parent, unless it is reaped or the parent exits.
LEMMA ParentStays ==
    ASSUME IInv, NEW p \in Pid, Step(p), ~ExitHandOff(p), ~ExitZombie(p),
           NEW c \in Pid, state[c] # "EMPTY", Reap(p) => c # found_process[p]
    PROVE  ppid'[c] = ppid[c]
<1>t. ppid \in [Pid -> Pid]
  BY DEF IInv, TypeOK
<1>1. CASE ForkPpid(p)
  <2>1. child_proc[p] \in Pid /\ state[child_proc[p]] = "EMPTY"
    BY <1>1 DEF ForkPpid, On, IInv, ForkHasChild, Forking, ChildInv
  <2>2. ppid' = [ppid EXCEPT ![child_proc[p]] = p]
    BY <1>1 DEF ForkPpid
  <2> QED BY <2>1, <2>2, <1>t
<1>2. CASE ForkLink(p)
  <2>1. /\ next_pid \in Pid /\ ppid' = [ppid EXCEPT ![next_pid] = 0]
        /\ state' = [state EXCEPT ![next_pid] = "EMPTY"] /\ state' = state
    BY <1>2, QuietEffect DEF ForkLink, NewPid
  <2>2. state[next_pid] = "EMPTY"
    BY <2>1 DEF IInv, TypeOK, SchedTypeOK
  <2> QED BY <2>1, <2>2, <1>t
<1>3. CASE ForkCloneFails(p)
  <2>1. child_proc[p] \in Pid /\ state[child_proc[p]] = "EMPTY"
    BY <1>3, ForkCloneFailsEffect
  <2>2. ppid' = [ppid EXCEPT ![child_proc[p]] = 0]
    BY <1>3 DEF ForkCloneFails, process_destroy
  <2> QED BY <2>1, <2>2, <1>t
<1>4. CASE Reap(p)
  <2>1. ppid' = [ppid EXCEPT ![found_process[p]] = 0]
    BY <1>4 DEF Reap, process_destroy
  <2> QED BY <1>4, <2>1, <1>t
<1>5. ASSUME \/ ForkAlloc(p) \/ ForkNoMemory(p) \/ ForkClone(p) \/ DmaLock(p) \/ SysIo(p)
             \/ WaitWoken(p) \/ ForkReady(p) \/ DmaBlock(p) \/ DmaUnlock(p)
      PROVE  ppid' = ppid
  BY <1>5 DEF ForkAlloc, ForkNoMemory, ForkClone, DmaLock, SysIo, WaitWoken, ForkReady, DmaBlock,
     DmaUnlock, tableVars
<1>6. ASSUME NEW pid \in WaitPid, NEW nohang \in BOOLEAN, NEW wstatus \in BOOLEAN,
             \/ WaitFound(p, pid, nohang, wstatus)
             \/ WaitHang(p, pid, wstatus)
             \/ WaitReturn(p, pid, nohang)
      PROVE  ppid' = ppid
  BY <1>6 DEF WaitFound, WaitHang, WaitReturn, tableVars
<1> QED BY <1>1, <1>2, <1>3, <1>4, <1>5, <1>6 DEF Step, Critical, Exit

-----------------------------------------------------------------------------
(* Waiting for a child.                                                     *)

\* A process that calls waitpid with interrupts enabled, and that has a child
\* but no zombie on the list, has one that lives: a child whose fork is under
\* way is a child of the process that forks, and a zombie that is off the list
\* is in the hands of its parent, which is in waitpid already.
LEMMA ChildLives ==
    ASSUME IInv, NEW p \in Pid, p # IDLE, NEW pid \in WaitPid,
           On(p, {"init_wait", "user"}), NoZombie(p, pid),
           NEW c \in process_list, IsChild(c, p, pid)
    PROVE  Living(c)
<1>1. /\ c \in Pid /\ ppid[c] = p /\ state[c] \in ProcState
      /\ pc[p] \in {"init_wait", "user"}
  BY DEF IInv, TypeOK, SchedTypeOK, IsChild, On
<1>2. ~Forking(p) /\ ~Reaping(p) /\ pc[p] # "wait_woken"
  BY <1>1 DEF Forking, Reaping, InDma
<1>3. state[c] # "EMPTY"
  <2>1. SUFFICES ASSUME state[c] = "EMPTY" PROVE FALSE
    OBVIOUS
  <2>2. PICK q \in Pid : child_proc[q] = c
    BY <2>1 DEF IInv, ChildInv
  <2>3. Forking(q) /\ ppid[c] \in {0, q}
    BY <1>1, <2>2 DEF IInv, ChildInv
  <2> QED BY <1>1, <1>2, <2>3 DEF IDLE
<1>4. state[c] # "ZOMBIE"
  <2>1. SUFFICES ASSUME state[c] = "ZOMBIE" PROVE FALSE
    OBVIOUS
  <2>2. c \notin Zombies
    BY DEF NoZombie, Zombies, ToSet
  <2>3. PICK q \in Pid : Holds(q, c)
    BY <1>1, <2>1, <2>2 DEF IInv, ZombieInv
  <2>4. q = p
    BY <1>1, <2>3 DEF IInv, ZombieInv
  <2>5. found_process[p] \notin Pid
    BY <1>2 DEF IInv, ZombieInv
  <2> QED BY <1>1, <1>2, <2>3, <2>4, <2>5 DEF Holds
<1> QED BY <1>1, <1>3, <1>4 DEF Living, ProcState

LEMMA WaitStep ==
    ASSUME IInv, WaitersWillWake, [Next]_vars
    PROVE  WaitersWillWake'
<1>t. /\ Waiters \subseteq Pid /\ Zombies \subseteq Pid
      /\ wait_pid \in [Pid -> WaitPid] /\ state \in [Pid -> ProcState]
      /\ process_list \subseteq Pid /\ ppid \in [Pid -> Pid]
  <2>1. Waiters \subseteq Pid /\ Zombies \subseteq Pid
    BY ToSetType DEF Waiters, Zombies, IInv, TypeOK
  <2> QED BY <2>1 DEF IInv, TypeOK, SchedTypeOK
<1>l. LifeInv' /\ TypeOK' /\ SleepInv'
  BY LifeStep, SleepStep, TypeStep DEF IInv
<1>s. state' \in [Pid -> ProcState] /\ Waiters' \subseteq Pid
  <2>1. Waiters' \subseteq Pid
    BY <1>l, ToSetType DEF Waiters, TypeOK
  <2> QED BY <1>l, <2>1 DEF TypeOK, SchedTypeOK
\* To live is not to be EMPTY or a ZOMBIE: such a process is on process_list.
<1>v. /\ \A c \in Pid : Living(c) <=> state[c] \notin {"EMPTY", "ZOMBIE"}
      /\ \A c \in Pid : Living(c)' <=> state'[c] \notin {"EMPTY", "ZOMBIE"}
  BY <1>t, <1>s, <1>l DEF Living, IInv, LifeInv, ProcState
<1>w. /\ \A w \in Waiters : \E c \in Pid : IsChild(c, w, wait_pid[w]) /\ Living(c)
      /\ \A w \in Waiters \ {INIT}, z \in Zombies : ~IsChild(z, w, wait_pid[w])
  BY <1>t DEF WaitersWillWake, WaiterHasChild, NoMissedZombie, Waiters, Zombies
<1>q. ASSUME \A w \in Waiters' : \E c \in Pid : IsChild(c, w, wait_pid[w])' /\ Living(c)',
             \A w \in Waiters' \ {INIT}, z \in Zombies' : ~IsChild(z, w, wait_pid[w])'
      PROVE  WaitersWillWake'
  <2>1. WaiterHasChild'
    <3>1. ASSUME NEW w \in Waiters'
          PROVE  \E c \in process_list' : IsChild(c, w, wait_pid[w])' /\ Living(c)'
      <4>1. PICK c \in Pid : IsChild(c, w, wait_pid[w])' /\ Living(c)'
        BY <1>q
      <4> QED BY <4>1 DEF Living
    <3> QED BY <3>1 DEF WaiterHasChild, Waiters
  <2>2. NoMissedZombie'
    BY <1>q DEF NoMissedZombie, Waiters, Zombies
  <2> QED BY <2>1, <2>2 DEF WaitersWillWake
\* Steps at which nobody begins to wait and no program exits.
<1>m. ASSUME Waiters' \subseteq Waiters, Zombies' \subseteq Zombies, wait_pid' = wait_pid,
             \A c \in Pid : Living(c) => Living(c)',
             \A c \in Pid : Living(c) \/ c \in Zombies => ppid'[c] = ppid[c]
      PROVE  WaitersWillWake'
  <2>1. \A w \in Waiters' : \E c \in Pid : IsChild(c, w, wait_pid[w])' /\ Living(c)'
    <3>1. ASSUME NEW w \in Waiters' PROVE \E c \in Pid : IsChild(c, w, wait_pid[w])' /\ Living(c)'
      <4>1. PICK c \in Pid : IsChild(c, w, wait_pid[w]) /\ Living(c)
        BY <1>m, <1>w
      <4> QED BY <1>m, <4>1 DEF IsChild
    <3> QED BY <3>1
  <2>2. \A w \in Waiters' \ {INIT}, z \in Zombies' : ~IsChild(z, w, wait_pid[w])'
    BY <1>m, <1>w, <1>t DEF IsChild
  <2> QED BY <2>1, <2>2, <1>q
<1>p. ASSUME NEW p \in Pid, Step(p) PROVE WaitersWillWake'
  <2>1. ASSUME ~ExitHandOff(p), ~ExitZombie(p),
               ~ \E pid \in WaitPid, wstatus \in BOOLEAN : WaitHang(p, pid, wstatus)
        PROVE  WaitersWillWake'
    <3>1. Waiters' = Waiters /\ wait_pid' = wait_pid /\ Zombies' \subseteq Zombies
      <4>1. CASE Quiet(p)
        BY <4>1, QuietFacts DEF waitVars, Waiters, Zombies
      <4>2. CASE ForkLink(p) \/ ForkCloneFails(p) \/ ForkReady(p) \/ DmaBlock(p) \/ DmaUnlock(p) \/ Reap(p)
        BY <4>2 DEF ForkLink, ForkCloneFails, ForkReady, DmaBlock, DmaUnlock, Reap, waitVars,
                    Waiters, Zombies
      <4>3. ASSUME NEW pid \in WaitPid, NEW nohang \in BOOLEAN, NEW wstatus \in BOOLEAN,
                   WaitFound(p, pid, nohang, wstatus)
            PROVE  Waiters' = Waiters /\ wait_pid' = wait_pid /\ Zombies' \subseteq Zombies
        <5>1. Zombies' \subseteq Zombies
          BY <4>3, WaitFoundEffect
        <5> QED BY <4>3, <5>1 DEF WaitFound, Waiters
      <4> QED BY <1>p, <2>1, <4>1, <4>2, <4>3, StepCases
    <3>2. ASSUME NEW c \in Pid, Living(c) PROVE Living(c)'
      <4>1. CASE ForkReady(p)
        BY <3>2, <4>1, <1>v, ForkReadyEffect DEF Moves, Same, Awake
      <4>2. CASE Reap(p)
        <5>1. state[c] \notin {"EMPTY", "ZOMBIE"}
          BY <3>2, <1>v
        <5>2. state'[c] \notin {"EMPTY", "ZOMBIE"}
          BY <5>1, <4>2, ReapEffect DEF Moves, Same, Awake
        <5> QED BY <5>2, <1>v
      <4>3. CASE ~ForkReady(p) /\ ~Reap(p)
        BY <3>2, <4>3, <2>1, <1>p, <1>v, ClassStays, StepCases
      <4> QED BY <4>1, <4>2, <4>3
    <3>3. ASSUME NEW c \in Pid, Living(c) \/ c \in Zombies PROVE ppid'[c] = ppid[c]
      <4>1. state[c] # "EMPTY"
        BY <3>3, <1>v DEF IInv, ZombieInv
      <4>2. Reap(p) => c # found_process[p]
        <5>1. SUFFICES ASSUME Reap(p), c = found_process[p] PROVE FALSE
          OBVIOUS
        <5>2. state[c] = "ZOMBIE" /\ Holds(p, c)
          BY <5>1, ReapEffect DEF Holds
        <5> QED BY <5>2, <3>3, <1>v DEF IInv, ZombieInv
      <4> QED BY <4>1, <4>2, <2>1, <1>p, ParentStays
    <3> QED BY <3>1, <3>2, <3>3, <1>m
  <2>2. ASSUME NEW pid \in WaitPid, NEW wstatus \in BOOLEAN, WaitHang(p, pid, wstatus)
        PROVE  WaitersWillWake'
    <3>1. /\ p # IDLE /\ On(p, {"init_wait", "user"}) /\ NoZombie(p, pid) /\ ChildExists(p, pid)
          /\ wait_pid' = [wait_pid EXCEPT ![p] = pid]
          /\ UNCHANGED <<process_zombie_list, ppid>>
          /\ process_wait_list' = Append(process_wait_list, p)
      BY <2>2, WaitHangEffect DEF WaitHang, tableVars
    <3>2. PICK c \in process_list : IsChild(c, p, pid) /\ Living(c)
      BY <3>1, ChildLives DEF ChildExists
    <3>3. \A d \in Pid : Living(d) => Living(d)'
      <4>1. state[p] = "RUNNING" /\ Moves(p, "BLOCKED")
        BY <2>2, <3>1, WaitHangEffect, CurrentFacts
      <4> QED BY <4>1, <1>v DEF Moves, Same, Awake
    <3>4. Waiters' = Waiters \cup {p} /\ Zombies' = Zombies
      BY <3>1, AppendList DEF Waiters, Zombies, IInv, TypeOK
    <3>5. wait_pid'[p] = pid /\ \A w \in Pid \ {p} : wait_pid'[w] = wait_pid[w]
      BY <3>1, <1>t
    <3>6. p \notin Waiters /\ c \in Pid
      BY <3>1, <1>t, CurrentFacts
    <3>7. \A z \in Zombies : ~IsChild(z, p, pid)
      BY <3>1 DEF NoZombie, Zombies, ToSet
    <3>8. \A w \in Waiters' : \E d \in Pid : IsChild(d, w, wait_pid[w])' /\ Living(d)'
      <4>1. IsChild(c, p, wait_pid[p])' /\ Living(c)'
        BY <3>1, <3>2, <3>3, <3>5, <3>6 DEF IsChild
      <4>2. ASSUME NEW w \in Waiters PROVE \E d \in Pid : IsChild(d, w, wait_pid[w])' /\ Living(d)'
        <5>1. PICK d \in Pid : IsChild(d, w, wait_pid[w]) /\ Living(d)
          BY <1>w
        <5> QED BY <5>1, <3>1, <3>3, <3>5, <3>6, <1>t DEF IsChild
      <4> QED BY <3>4, <3>6, <4>1, <4>2
    <3>9. \A w \in Waiters' \ {INIT}, z \in Zombies' : ~IsChild(z, w, wait_pid[w])'
      BY <3>1, <3>4, <3>5, <3>6, <3>7, <1>w, <1>t DEF IsChild
    <3> QED BY <3>8, <3>9, <1>q
  <2>3. CASE ExitHandOff(p)
    <3>1. PICK w \in Waiters :
            /\ w \in Pid /\ w # p /\ w = ppid[p]
            /\ Waiters' = Waiters \ {w}
            /\ state'[p] = "ZOMBIE" /\ state'[w] = "RUNNING"
            /\ \A q \in Pid \ {p, w} : state'[q] = state[q]
      BY <2>3, ExitHandOffEffect
    <3>2. /\ UNCHANGED <<process_zombie_list, wait_pid>> /\ state[p] = "RUNNING"
          /\ \A c \in Pid : ppid'[c] = IF c \in process_list /\ ppid[c] = p THEN INIT ELSE ppid[c]
      BY <2>3, ExitHandOffEffect, ExitsFacts
    <3>3. p \notin Waiters /\ Zombies' = Zombies
      BY <3>2 DEF IInv, SleepInv, Zombies
    <3>4. \A c \in Pid : Living(c) /\ c # p => Living(c)'
      BY <3>1, <1>v
    <3>5. ASSUME NEW v \in Waiters'
          PROVE  \E c \in Pid : IsChild(c, v, wait_pid[v])' /\ Living(c)'
      <4>1. PICK c \in Pid : IsChild(c, v, wait_pid[v]) /\ Living(c)
        BY <3>1, <3>5, <1>w
      <4>2. v # p /\ c # p /\ ppid'[c] = ppid[c]
        BY <3>1, <3>2, <3>3, <3>5, <4>1 DEF IsChild
      <4> QED BY <3>2, <3>4, <4>1, <4>2 DEF IsChild
    <3>6. \A v \in Waiters' \ {INIT}, z \in Zombies' : ~IsChild(z, v, wait_pid[v])'
      BY <3>1, <3>2, <3>3, <1>w, <1>t DEF IsChild
    <3> QED BY <3>5, <3>6, <1>q
  <2>4. CASE ExitZombie(p)
    <3>1. /\ process_wait_list' = process_wait_list /\ Moves(p, "ZOMBIE")
          /\ Zombies' = Zombies \cup {p}
          /\ \A w \in Waiters : ~(w = ppid[p] /\ (wait_pid[w] = ANY \/ wait_pid[w] = p))
      BY <2>4, ExitZombieEffect
    <3>2. /\ wait_pid' = wait_pid /\ state[p] = "RUNNING"
          /\ \A c \in Pid : ppid'[c] = IF c \in process_list /\ ppid[c] = p THEN INIT ELSE ppid[c]
      BY <2>4, ExitZombieEffect, ExitsFacts
    <3>3. p \notin Waiters /\ Waiters' = Waiters
      BY <3>1, <3>2 DEF IInv, SleepInv, Waiters
    <3>4. \A c \in Pid : Living(c) /\ c # p => Living(c)'
      BY <3>1, <1>v DEF Moves, Same, Awake
    <3>5. ASSUME NEW v \in Waiters
          PROVE  \E c \in Pid : IsChild(c, v, wait_pid[v])' /\ Living(c)'
      <4>1. PICK c \in Pid : IsChild(c, v, wait_pid[v]) /\ Living(c)
        BY <1>w
      <4>2. v # p /\ c # p /\ ppid'[c] = ppid[c]
        BY <3>1, <3>2, <3>3, <4>1 DEF IsChild
      <4> QED BY <3>2, <3>4, <4>1, <4>2 DEF IsChild
    <3>6. \A v \in Waiters' \ {INIT}, z \in Zombies' : ~IsChild(z, v, wait_pid[v])'
      <4>1. ASSUME NEW v \in Waiters \ {INIT}, NEW z \in Zombies \cup {p}
            PROVE  ~(ppid'[z] = v /\ (wait_pid[v] = ANY \/ z = wait_pid[v]))
        BY <3>1, <3>2, <3>3, <1>w, <1>t DEF IsChild
      <4> QED BY <3>1, <3>2, <3>3, <4>1 DEF IsChild
    <3> QED BY <3>3, <3>5, <3>6, <1>q
  <2> QED BY <2>1, <2>2, <2>3, <2>4
<1>k. CASE Tick
  <2>1. /\ UNCHANGED <<process_zombie_list, process_wait_list, wait_pid, ppid>>
        /\ \A q \in Pid : \/ state'[q] = state[q]
                          \/ state[q] \in Awake /\ state'[q] \in Awake
    BY <1>k, TickEffect DEF Tick, tableVars, waitVars, IInv, TypeOK
  <2>2. Waiters' = Waiters /\ Zombies' = Zombies
    BY <2>1 DEF Waiters, Zombies
  <2>3. \A c \in Pid : Living(c) => Living(c)'
    BY <2>1, <1>v DEF Awake
  <2> QED BY <2>1, <2>2, <2>3, <1>m
<1>u. CASE UNCHANGED vars
  <2>1. Waiters' = Waiters /\ Zombies' = Zombies /\ UNCHANGED <<wait_pid, ppid, state>>
    BY <1>u DEF vars, tableVars, waitVars, schedVars, Waiters, Zombies
  <2> QED BY <2>1, <1>v, <1>m
<1> QED BY <1>p, <1>k, <1>u DEF Next, Rest

-----------------------------------------------------------------------------
(* The mutex of the DMA channel.                                            *)

\* Nobody puts another process to sleep.
LEMMA AwakeStays ==
    ASSUME IInv, NEW p \in Pid, Step(p), NEW q \in Pid \ {p}, state[q] \in Awake
    PROVE  state'[q] \in Awake
<1>1. CASE Quiet(p) \/ ForkLink(p) \/ ForkCloneFails(p)
  BY <1>1, QuietEffect, ForkCloneFailsEffect
<1>2. CASE ForkReady(p)
  BY <1>2, ForkReadyEffect DEF Moves, Same, Awake
<1>3. CASE DmaBlock(p)
  BY <1>3, DmaBlockEffect DEF Moves, Same
<1>4. CASE DmaUnlock(p)
  BY <1>4, DmaUnlockEffect DEF Moves, Same, Awake
<1>5. ASSUME NEW pid \in WaitPid, NEW nohang \in BOOLEAN, NEW wstatus \in BOOLEAN,
             WaitFound(p, pid, nohang, wstatus) \/ WaitHang(p, pid, wstatus)
      PROVE  state'[q] \in Awake
  BY <1>5, WaitFoundEffect, WaitHangEffect DEF Moves, Same
<1>6. CASE Reap(p)
  BY <1>6, ReapEffect DEF Moves, Same, Awake
<1>7. CASE ExitHandOff(p)
  BY <1>7, ExitHandOffEffect DEF Awake
<1>8. CASE ExitZombie(p)
  BY <1>8, ExitZombieEffect DEF Moves, Same
<1> QED BY <1>1, <1>2, <1>3, <1>4, <1>5, <1>6, <1>7, <1>8, StepCases

LEMMA WakeupStep ==
    ASSUME IInv, NoLostWakeup, [Next]_vars
    PROVE  NoLostWakeup'
<1>t. /\ pc \in [Pid -> Label] /\ dma_0_mtx \in Mutex /\ dma_0_mtx.blocked_list \in Seq(Pid)
  BY DEF IInv, TypeOK, Mutex
\* A process that was woken is on its way until it tries again.
<1>m. ASSUME dma_0_mtx' = dma_0_mtx,
             \A q \in Pid : pc[q] = "dma_retry" /\ state[q] \in Awake =>
                            pc'[q] = "dma_retry" /\ state'[q] \in Awake
      PROVE  NoLostWakeup'
  BY <1>m DEF NoLostWakeup, Awake
<1>p. ASSUME NEW p \in Pid, Step(p) PROVE NoLostWakeup'
  <2> USE DEF On, Goto
  <2>1. CASE DmaLock(p)
    BY <2>1, <1>t, MutexType DEF DmaLock, NoLostWakeup
  <2>2. CASE DmaBlock(p)
    <3>1. dma_0_mtx'.locked = TRUE
      BY <2>2, <1>t, MutexType DEF DmaBlock, DmaFree, Mutex
    <3> QED BY <3>1 DEF NoLostWakeup
  <2>3. CASE DmaUnlock(p)
    <3>1. CASE Sleepers' = {}
      <4>1. dma_0_mtx'.blocked_list \in Seq(Pid)
        BY <2>3, DmaUnlockEffect
      <4>2. dma_0_mtx'.blocked_list = <<>>
        BY <3>1, <4>1, ToSetType DEF Sleepers
      <4> QED BY <4>2 DEF NoLostWakeup
    <3>2. CASE Sleepers' # {}
      <4>1. PICK h \in Sleepers : Moves(h, "READY")
        BY <2>3, <3>2, DmaUnlockEffect
      <4>2. h \in Pid /\ pc[h] = "dma_retry" /\ state'[h] = "READY"
        <5>1. Sleepers \subseteq Pid
          BY <1>t, ToSetType DEF Sleepers
        <5> QED BY <4>1, <5>1 DEF IInv, SleepInv, Moves
      <4>3. pc'[h] = "dma_retry"
        BY <2>3, <4>2, <1>t DEF DmaUnlock
      <4> QED BY <4>2, <4>3 DEF NoLostWakeup
    <3> QED BY <3>1, <3>2
  <2>4. ASSUME ~DmaLock(p), ~DmaBlock(p), ~DmaUnlock(p) PROVE NoLostWakeup'
    <3>1. dma_0_mtx' = dma_0_mtx /\ pc[p] # "dma_retry"
      <4>1. CASE ForkAlloc(p) \/ ForkNoMemory(p) \/ ForkLink(p) \/ ForkPpid(p) \/ ForkClone(p)
                 \/ ForkCloneFails(p) \/ ForkReady(p) \/ SysIo(p) \/ WaitWoken(p) \/ Reap(p) \/ Exits(p)
        BY <4>1 DEF ForkAlloc, ForkNoMemory, ForkLink, ForkPpid, ForkClone, ForkCloneFails,
                    ForkReady, SysIo, WaitWoken, Reap, Exits
      <4>2. ASSUME NEW pid \in WaitPid, NEW nohang \in BOOLEAN, NEW wstatus \in BOOLEAN,
                   \/ WaitFound(p, pid, nohang, wstatus)
                   \/ WaitHang(p, pid, wstatus)
                   \/ WaitReturn(p, pid, nohang)
            PROVE  dma_0_mtx' = dma_0_mtx /\ pc[p] # "dma_retry"
        BY <4>2 DEF WaitFound, WaitHang, WaitReturn, Waits
      <4> QED BY <1>p, <2>4, <4>1, <4>2 DEF Step, Critical, Exit, ExitHandOff, ExitZombie
    <3>2. ASSUME NEW q \in Pid, pc[q] = "dma_retry", state[q] \in Awake
          PROVE  pc'[q] = "dma_retry" /\ state'[q] \in Awake
      BY <3>1, <3>2, <1>p, OthersStay, AwakeStays
    <3> QED BY <3>1, <3>2, <1>m
  <2> QED BY <2>1, <2>2, <2>3, <2>4
<1>k. CASE Tick
  BY <1>k, <1>m, TickEffect DEF Tick, IInv, TypeOK
<1>u. CASE UNCHANGED vars
  BY <1>u, <1>m DEF vars, schedVars
<1> QED BY <1>p, <1>k, <1>u DEF Next, Rest

-----------------------------------------------------------------------------
LEMMA InitInv == Init => IInv
<1> SUFFICES ASSUME Init PROVE IInv
  OBVIOUS
<1>1. TypeOK
  BY InitType
<1>2. NULL \notin Pid /\ IDLE \in Pid /\ Pid \subseteq Nat
  BY NullAssumption, MaxPidAssumption DEF Pid, IDLE
<1>3. \A p \in Pid : /\ child_proc[p] = NULL /\ found_process[p] = NULL /\ wait_process[p] = NULL
                     /\ pc[p] = IF p = IDLE THEN "boot" ELSE "dead"
                     /\ state[p] = IF p = IDLE THEN "RUNNING" ELSE "EMPTY"
  BY DEF Init, SchedInit
<1>4. ForkHasChild
  BY <1>3 DEF ForkHasChild, Forking, InDma
<1>5. ChildDead
  BY <1>2, <1>3 DEF ChildDead, Init, IDLE
<1>6. DmaExclusive
  BY <1>3 DEF DmaExclusive, Init, mutex_init
<1>7. <<>> \in Seq(Pid) /\ ToSet(<<>>) = {} /\ IsInjective(<<>>)
  <2>1. <<>> \in Seq(Pid) /\ DOMAIN <<>> = {}
    BY EmptySeq, LenProperties
  <2> QED BY <2>1 DEF ToSet, IsInjective
<1>8. SchedInv
  BY <1>2, <1>3, <1>7 DEF SchedInv, Init, SchedInit
<1>9. Waiters = {} /\ Sleepers = {} /\ Zombies = {}
  BY <1>7 DEF Waiters, Sleepers, Zombies, Init, mutex_init
<1>10. SleepInv
  BY <1>3, <1>7, <1>9 DEF SleepInv, Init, mutex_init
<1>11. LifeInv
  BY <1>2, <1>3 DEF LifeInv, Init, IDLE
<1>12. IdleInv
  BY <1>2, <1>3 DEF IdleInv, Booting, Init, InFork, InDma
<1>13. ChildInv
  BY <1>2, <1>3 DEF ChildInv, Init
<1>14. ZombieInv
  BY <1>2, <1>3, <1>7, <1>9 DEF ZombieInv, Holds, Reaping, InDma, Init
<1> QED BY <1>1, <1>4, <1>5, <1>6, <1>8, <1>10, <1>11, <1>12, <1>13, <1>14 DEF IInv

LEMMA StepInv == IInv /\ [Next]_vars => IInv'
BY TypeStep, ForkStep, DmaStep, SchedStep, SleepStep, LifeStep, IdleStep, ChildStep, ZombieStep
   DEF IInv

LEMMA Invariance == Spec => []IInv
BY InitInv, StepInv, PTL DEF Spec

\* Type correctness: no list of the kernel, no field and no local variable of
\* a system call ever holds what is not of its type.
THEOREM TypeCorrect == Spec => []TypeOK
<1>1. IInv => TypeOK
  BY DEF IInv
<1> QED BY <1>1, Invariance, PTL

\* Mutual exclusion on DMA channel 0, for any number of processes: dma_memcpy
\* programs the channel in one process at a time, which holds the mutex, although
\* a woken process has to test the mutex again and new ones may overtake it.
THEOREM DmaMutualExclusion == Spec => []DmaExclusive
<1>1. IInv => DmaExclusive
  BY DEF IInv
<1> QED BY <1>1, Invariance, PTL

\* A child is out of reach until its fork makes it ready: no two forks share
\* one, and it executes nothing before p_list_append.
THEOREM ChildrenArePrivate == Spec => [](ForkHasChild /\ ChildDead)
<1>1. IInv => ForkHasChild /\ ChildDead
  BY DEF IInv
<1> QED BY <1>1, Invariance, PTL

\* The lists of processes are right for any number of processes: each process
\* is on the list its state says, once, the current one alone is RUNNING, and
\* no panic() of the scheduler or of sys_waitpid is reached.
THEOREM QueuesInOrder == Spec => []QueueDiscipline
<1>1. ASSUME IInv PROVE QueueDiscipline
  <2>1. process_wait_list \in Seq(Pid) /\ dma_0_mtx.blocked_list \in Seq(Pid)
    BY <1>1 DEF IInv, TypeOK, Mutex
  <2>2. Waiters \subseteq Pid /\ Sleepers \subseteq Pid
    BY <2>1, ToSetType DEF Waiters, Sleepers
  <2>3. Waiters \cap Sleepers = {}
    BY <1>1, <2>2 DEF IInv, SleepInv
  <2>4. /\ ToSet(process_wait_list \o dma_0_mtx.blocked_list) = Waiters \cup Sleepers
        /\ IsInjective(process_wait_list \o dma_0_mtx.blocked_list)
    BY <1>1, <2>1, <2>3, ConcatList DEF Waiters, Sleepers, IInv, SleepInv
  <2>5. \A p \in Pid : state[p] = "BLOCKED" <=> p \in Waiters \cup Sleepers
    BY <1>1 DEF IInv, SleepInv, IntOff
  <2>6. \A p \in Pid : /\ state[p] = "READY" <=> p \in ToSet(process_ready_list)
                       /\ state[p] = "RUNNING" <=> p = current_proc
    BY <1>1 DEF IInv, SchedInv
  <2>7. ~panicked /\ IsInjective(process_ready_list)
    BY <1>1 DEF IInv, SchedInv
  <2> QED BY <2>4, <2>5, <2>6, <2>7 DEF QueueDiscipline
<1> QED BY <1>1, Invariance, PTL

\* No zombie is lost and none is reaped twice, for any number of processes that
\* exit, wait and are re-parented in any order.
THEOREM ZombiesOwnedOnce == Spec => []ZombieOwnedOnce
<1>1. ASSUME IInv PROVE ZombieOwnedOnce
  <2>1. IsInjective(process_zombie_list)
    BY <1>1 DEF IInv, ZombieInv
  <2>2. ASSUME NEW z \in Pid
        PROVE  LET held == {p \in Pid : Holds(p, z)}
               IN  IF state[z] = "ZOMBIE"
                   THEN IF z \in Zombies THEN held = {} ELSE held = {ppid[z]}
                   ELSE held = {} /\ z \notin Zombies
    <3>1. \A p \in Pid : Holds(p, z) => state[z] = "ZOMBIE" /\ z \notin Zombies /\ ppid[z] = p
      BY <1>1 DEF IInv, ZombieInv
    <3>2. z \in Zombies => state[z] = "ZOMBIE"
      BY <1>1 DEF IInv, ZombieInv
    <3>3. state[z] = "ZOMBIE" => z \in Zombies \/ \E p \in Pid : Holds(p, z)
      BY <1>1 DEF IInv, ZombieInv
    <3> QED BY <3>1, <3>2, <3>3
  <2> QED BY <2>1, <2>2 DEF ZombieOwnedOnce, Holds, Zombies
<1> QED BY <1>1, Invariance, PTL

\* Whoever sleeps in waitpid has a living child whose exit wakes it, and, but
\* for init, no zombie to find: sys_exit and sys_waitpid never miss each other.
THEOREM WaitersAreWoken == Spec => []WaitersWillWake
<1>1. ASSUME Init PROVE WaitersWillWake
  <2>1. ToSet(<<>>) = {}
    BY EmptySeq, ToSetType
  <2>2. process_wait_list = <<>>
    BY <1>1 DEF Init
  <2> QED BY <2>1, <2>2 DEF WaitersWillWake, WaiterHasChild, NoMissedZombie
<1>2. IInv /\ WaitersWillWake /\ [Next]_vars => WaitersWillWake'
  BY WaitStep
<1> QED BY <1>1, <1>2, Invariance, PTL DEF Spec

\* mutex_unlock loses no wakeup: while processes sleep on the free mutex of the
\* DMA channel, one that was woken is awake and about to try again.
THEOREM WakeupsKept == Spec => []NoLostWakeup
<1>1. Init => NoLostWakeup
  BY DEF Init, mutex_init, NoLostWakeup
<1>2. IInv /\ NoLostWakeup /\ [Next]_vars => NoLostWakeup'
  BY WakeupStep
<1> QED BY <1>1, <1>2, Invariance, PTL DEF Spec

-----------------------------------------------------------------------------
(* Order on the ready list.                                                 *)

LEMMA PlaceOf ==
    ASSUME NEW s \in Seq(Pid), IsInjective(s), NEW i \in DOMAIN s
    PROVE  (CHOOSE j \in DOMAIN s : s[j] = s[i]) = i
<1>1. \E j \in DOMAIN s : s[j] = s[i]
  OBVIOUS
<1>2. \A j \in DOMAIN s : s[j] = s[i] => j = i
  BY DEF IsInjective
<1> QED BY <1>1, <1>2

LEMMA OrderStep ==
    ASSUME IInv, [Next]_vars
    PROVE  NotBack(process_ready_list, process_ready_list')
<1>t. /\ process_ready_list \in Seq(Pid) /\ IsInjective(process_ready_list)
      /\ current_proc \in Pid /\ child_proc \in [Pid -> Pid \cup {NULL}]
      /\ dma_0_mtx.blocked_list \in Seq(Pid)
      /\ current_proc \notin ToSet(process_ready_list)
  BY DEF IInv, TypeOK, SchedTypeOK, SchedInv, Mutex
<1>s. NotBack(process_ready_list, process_ready_list)
  BY <1>t, NotBackSame
<1>r. ASSUME NEW p \in Pid, process_ready(p)
      PROVE  NotBack(process_ready_list, process_ready_list')
  BY <1>r, <1>t, NotBackAppend DEF process_ready
<1>p. ASSUME NEW p \in Pid, Step(p)
      PROVE  NotBack(process_ready_list, process_ready_list')
  <2>1. CASE \/ ForkAlloc(p) \/ ForkNoMemory(p) \/ ForkLink(p) \/ ForkPpid(p) \/ ForkClone(p)
             \/ ForkCloneFails(p) \/ DmaLock(p) \/ SysIo(p) \/ WaitWoken(p) \/ Reap(p)
             \/ ExitHandOff(p)
    BY <2>1, <1>s
       DEF ForkAlloc, ForkNoMemory, ForkLink, ForkPpid, ForkClone, ForkCloneFails, DmaLock, SysIo,
           WaitWoken, Reap, ExitHandOff, process_switch, process_destroy, schedVars
  <2>2. CASE ForkReady(p)
    BY <2>2, <1>r, ForkReadyEffect DEF ForkReady
  <2>3. CASE DmaUnlock(p)
    <3>1. CASE dma_0_mtx.blocked_list = <<>>
      BY <2>3, <3>1, <1>s DEF DmaUnlock, process_wake_front, schedVars
    <3>2. CASE dma_0_mtx.blocked_list # <<>>
      <4>1. Head(dma_0_mtx.blocked_list) \in Pid
        BY <3>2, <1>t, HeadTailProperties
      <4> QED BY <2>3, <3>2, <4>1, <1>r DEF DmaUnlock, process_wake_front
    <3> QED BY <3>1, <3>2
  <2>4. CASE DmaBlock(p)
    BY <2>4, <1>t, <1>s, ScheduleOrder DEF DmaBlock, process_block
  <2>5. CASE ExitZombie(p)
    BY <2>5, <1>t, <1>s, ScheduleOrder DEF ExitZombie
  <2>6. ASSUME NEW pid \in WaitPid, NEW nohang \in BOOLEAN, NEW wstatus \in BOOLEAN,
               WaitFound(p, pid, nohang, wstatus) \/ WaitReturn(p, pid, nohang)
        PROVE  NotBack(process_ready_list, process_ready_list')
    BY <2>6, <1>s DEF WaitFound, WaitReturn, schedVars
  <2>7. ASSUME NEW pid \in WaitPid, NEW wstatus \in BOOLEAN, WaitHang(p, pid, wstatus)
        PROVE  NotBack(process_ready_list, process_ready_list')
    BY <2>7, <1>t, <1>s, ScheduleOrder DEF WaitHang, process_block
  <2> QED BY <1>p, <2>1, <2>2, <2>3, <2>4, <2>5, <2>6, <2>7 DEF Step, Critical, Exit
<1>k. CASE Tick
  <2>1. /\ Append(process_ready_list, current_proc) \in Seq(Pid)
        /\ IsInjective(Append(process_ready_list, current_proc))
        /\ NotBack(process_ready_list, Append(process_ready_list, current_proc))
    BY <1>t, AppendList, AppendProperties, NotBackAppend
  <2> QED BY <1>k, <1>t, <2>1, ScheduleOrder DEF Tick, process_tick
<1>u. CASE UNCHANGED vars
  BY <1>u, <1>s DEF vars, schedVars
<1> QED BY <1>p, <1>k, <1>u DEF Next, Rest

\* Round robin for any number of processes: whatever blocks, wakes up, forks or
\* exits, the place of a process on the ready list never gets worse while it
\* stays there, so that no newcomer runs before it.
THEOREM RoundRobin == Spec => NoOvertaking
<1>1. ASSUME IInv, IInv', [Next]_vars
      PROVE  \A p \in Pid \ {IDLE} :
                p \in ToSet(process_ready_list) /\ p \in ToSet(process_ready_list')
                => Place(p)' <= Place(p)
  <2> SUFFICES ASSUME NEW p \in Pid \ {IDLE},
                      p \in ToSet(process_ready_list), p \in ToSet(process_ready_list')
               PROVE  Place(p)' <= Place(p)
    OBVIOUS
  <2>1. /\ process_ready_list \in Seq(Pid) /\ IsInjective(process_ready_list)
        /\ process_ready_list' \in Seq(Pid) /\ IsInjective(process_ready_list')
    BY <1>1 DEF IInv, TypeOK, SchedTypeOK, SchedInv
  <2>2. PICK i \in DOMAIN process_ready_list : process_ready_list[i] = p
    BY DEF ToSet
  <2>3. PICK j \in DOMAIN process_ready_list' : process_ready_list'[j] = p /\ j <= i
    BY <1>1, <2>2, OrderStep DEF NotBack
  <2>4. Place(p) = i
    BY <2>1, <2>2, PlaceOf DEF Place
  <2>5. Place(p)' = j
    BY <2>1, <2>3, PlaceOf DEF Place
  <2> QED BY <2>3, <2>4, <2>5
<1> QED BY <1>1, Invariance, PTL DEF Spec, NoOvertaking

-----------------------------------------------------------------------------
(***************************************************************************)
(* The page blocks and the tree of processes: who owns which block, who is *)
(* whose parent, how the machine comes to rest, and that process.c         *)
(* implements ProcessTree.                                                 *)
(***************************************************************************)

\* Each block that is full has one owner, a process or a fork that is about to
\* give it to one.
BlockInv ==
    /\ \A p \in Pid : new_cbr[p] \in Block <=> pc[p] = "fork_link"
    /\ \A p \in Pid : cbr[p] \in Block <=> p \in process_list
    /\ \A p, q \in Pid : cbr[p] \in Block /\ cbr[p] = cbr[q] => p = q
    /\ \A p, q \in Pid : new_cbr[p] \in Block /\ new_cbr[p] = new_cbr[q] => p = q
    /\ \A p, q \in Pid : cbr[p] \in Block => cbr[p] # new_cbr[q]
    /\ \A b \in Block : page_usage_map[b] = "full" <=>
          \E p \in Pid : cbr[p] = b \/ new_cbr[p] = b
    /\ cbr[IDLE] = KernelBlock

\* The parent of whoever was born is alive and older, and the idle process's
\* only child is init, which is alive while any other process exists.
ParentInv ==
    /\ \A c \in Pid \ {IDLE, INIT} : state[c] # "EMPTY" =>
          ppid[c] # IDLE /\ ppid[c] < c /\ pc[ppid[c]] # "dead"
    /\ child_proc[IDLE] \in Pid => child_proc[IDLE] = INIT
    /\ state[INIT] # "EMPTY" => ppid[INIT] = IDLE
    /\ process_list \subseteq {IDLE, INIT} \/ pc[INIT] # "dead"

\* Init never runs another program, and exits when only main() is left.
ShutdownInv ==
    /\ pc[INIT] \notin {"user", "boot", "idle"}
    /\ pc[INIT] \in InDma => after[INIT] \in {"init", "fork_ready", "reap"}
    /\ pc[INIT] = "init_exit" \/ state[INIT] = "ZOMBIE" => process_list = {IDLE, INIT}
    /\ found_process[IDLE] \in Pid => found_process[IDLE] = INIT
    /\ halted => process_list = {IDLE} /\ pc[IDLE] = "idle"

TreeInv == IInv /\ BlockInv /\ ParentInv /\ ShutdownInv

LEMMA IdlePid == IDLE \in Pid /\ INIT \in Pid /\ IDLE # INIT /\ Pid \subseteq Nat
BY MaxPidAssumption DEF IDLE, INIT, Pid

-----------------------------------------------------------------------------
(* Page blocks.                                                             *)

LEMMA BlocksStay ==
    ASSUME NEW p \in Pid, IInv, Step(p),
           ~ForkAlloc(p), ~ForkLink(p), ~ForkCloneFails(p), ~Reap(p)
    PROVE  /\ UNCHANGED <<process_list, cbr, new_cbr, page_usage_map>>
           /\ pc[p] # "fork_link" /\ pc'[p] # "fork_link"
<1>t. pc \in [Pid -> Label] /\ after \in [Pid -> {"init", "user", "fork_ready", "reap"}]
  BY DEF IInv, TypeOK
<1>r. Resume(p) # "fork_link"
  BY DEF Resume
<1>1. CASE ForkNoMemory(p) \/ ForkPpid(p) \/ ForkClone(p) \/ DmaLock(p) \/ DmaBlock(p)
           \/ DmaUnlock(p) \/ SysIo(p) \/ WaitWoken(p)
  BY <1>1, <1>t, <1>r
     DEF ForkNoMemory, ForkPpid, ForkClone, DmaLock, DmaBlock, DmaUnlock, SysIo, WaitWoken,
         tableVars, localVars, On, Goto
<1>2. CASE ForkReady(p)
  <2>1. child_proc[p] \in Pid /\ child_proc[p] # p
    BY <1>2, ForkReadyEffect
  <2> QED BY <1>2, <1>t, <1>r, <2>1 DEF ForkReady, tableVars, On
<1>3. ASSUME NEW pid \in WaitPid, NEW nohang \in BOOLEAN, NEW wstatus \in BOOLEAN,
             \/ WaitFound(p, pid, nohang, wstatus)
             \/ WaitHang(p, pid, wstatus)
             \/ WaitReturn(p, pid, nohang)
      PROVE  /\ UNCHANGED <<process_list, cbr, new_cbr, page_usage_map>>
             /\ pc[p] # "fork_link" /\ pc'[p] # "fork_link"
  BY <1>3, <1>t DEF WaitFound, WaitHang, WaitReturn, Waits, tableVars, localVars, On, Goto
<1>4. CASE ExitHandOff(p) \/ ExitZombie(p)
  <2>1. Exits(p)
    BY <1>4 DEF ExitHandOff, ExitZombie
  <2> QED BY <2>1, <1>t DEF Exits, localVars, On, Goto
<1> QED BY <1>1, <1>2, <1>3, <1>4 DEF Step, Critical, Exit

\* process_destroy gives the one block of its process back.
LEMMA DestroyBlocks ==
    ASSUME IInv, BlockInv, NEW d \in process_list, d # IDLE, process_destroy(d),
           new_cbr' = new_cbr, \A q \in Pid : pc'[q] = "fork_link" <=> pc[q] = "fork_link"
    PROVE  BlockInv'
<1>t. /\ d \in Pid /\ IDLE \in Pid /\ process_list \subseteq Pid
      /\ cbr \in [Pid -> Block \cup {NULL}] /\ page_usage_map \in [Block -> {"empty", "full"}]
      /\ NULL \notin Block
  BY NullAssumption, IdlePid DEF IInv, TypeOK, Block
<1>1. /\ cbr' = [cbr EXCEPT ![d] = NULL] /\ process_list' = process_list \ {d}
      /\ page_usage_map' = [page_usage_map EXCEPT ![cbr[d]] = "empty"]
  BY DEF process_destroy, mem_free_page_block
<1>2. cbr[d] \in Block /\ cbr'[d] = NULL /\ \A q \in Pid \ {d} : cbr'[q] = cbr[q]
  BY <1>1, <1>t DEF BlockInv
<1>3. page_usage_map'[cbr[d]] = "empty" /\ \A b \in Block \ {cbr[d]} : page_usage_map'[b] = page_usage_map[b]
  BY <1>1, <1>2, <1>t
<1>4. \A q \in Pid \ {d} : cbr[q] # cbr[d]
  BY <1>2, <1>t DEF BlockInv
<1>5. \A q \in Pid : new_cbr[q] # cbr[d]
  BY <1>2, <1>t DEF BlockInv
<1>6. \A q \in Pid : cbr'[q] \in Block <=> q \in process_list'
  BY <1>1, <1>2, <1>t DEF BlockInv
<1>7. \A b \in Block : page_usage_map'[b] = "full" <=> \E q \in Pid : cbr'[q] = b \/ new_cbr'[q] = b
  BY <1>2, <1>3, <1>4, <1>5, <1>t DEF BlockInv
<1> QED BY <1>2, <1>6, <1>7, <1>t DEF BlockInv

LEMMA BlockStep ==
    ASSUME IInv, BlockInv, [Next]_vars
    PROVE  BlockInv'
<1>t. /\ process_list \subseteq Pid /\ IDLE \in Pid
      /\ pc \in [Pid -> Label] /\ child_proc \in [Pid -> Pid \cup {NULL}]
      /\ cbr \in [Pid -> Block \cup {NULL}] /\ new_cbr \in [Pid -> Block \cup {NULL}]
      /\ page_usage_map \in [Block -> {"empty", "full"}]
      /\ NULL \notin Block
  BY NullAssumption, IdlePid DEF IInv, TypeOK, Block
<1>p. ASSUME NEW p \in Pid, Step(p) PROVE BlockInv'
  <2>o. \A q \in Pid \ {p} : new_cbr'[q] = new_cbr[q] /\ (pc'[q] = "fork_link" <=> pc[q] = "fork_link")
    BY <1>p, OthersLocals
  <2>1. CASE ForkAlloc(p)
    <3>1. PICK b \in Block :
            /\ page_usage_map[b] = "empty" /\ page_usage_map' = [page_usage_map EXCEPT ![b] = "full"]
            /\ new_cbr' = [new_cbr EXCEPT ![p] = b]
      BY <2>1 DEF ForkAlloc, mem_alloc_page_block
    <3>2. pc'[p] = "fork_link" /\ pc[p] # "fork_link" /\ UNCHANGED <<process_list, cbr>>
      BY <2>1, <1>t DEF ForkAlloc, On, Goto
    <3>3. new_cbr'[p] = b /\ new_cbr[p] \notin Block
      BY <3>1, <3>2, <1>t DEF BlockInv
    <3>4. \A q \in Pid : cbr[q] # b /\ new_cbr[q] # b
      BY <3>1 DEF BlockInv
    <3>5. \A q \in Pid : new_cbr'[q] \in Block <=> pc'[q] = "fork_link"
      BY <3>2, <3>3, <2>o DEF BlockInv
    <3>6. \A a \in Block : page_usage_map'[a] = "full" <=> \E q \in Pid : cbr'[q] = a \/ new_cbr'[q] = a
      <4>1. ASSUME NEW a \in Block, a # b
            PROVE  page_usage_map'[a] = "full" <=> \E q \in Pid : cbr'[q] = a \/ new_cbr'[q] = a
        <5>1. page_usage_map'[a] = page_usage_map[a]
          BY <4>1, <3>1, <1>t
        <5>2. \A q \in Pid : new_cbr'[q] = a <=> new_cbr[q] = a
          BY <4>1, <3>3, <2>o
        <5> QED BY <5>1, <5>2, <3>2 DEF BlockInv
      <4>2. page_usage_map'[b] = "full"
        BY <3>1, <1>t
      <4> QED BY <4>1, <4>2, <3>3
    <3>7. /\ \A q, r \in Pid : new_cbr'[q] \in Block /\ new_cbr'[q] = new_cbr'[r] => q = r
          /\ \A q, r \in Pid : cbr'[q] \in Block => cbr'[q] # new_cbr'[r]
      BY <3>2, <3>3, <3>4, <2>o DEF BlockInv
    <3> QED BY <3>2, <3>5, <3>6, <3>7 DEF BlockInv
  <2>2. CASE ForkLink(p)
    <3>1. /\ next_pid \in Pid /\ process_list' = process_list \cup {next_pid}
          /\ cbr' = [cbr EXCEPT ![next_pid] = new_cbr[p]] /\ new_cbr' = [new_cbr EXCEPT ![p] = NULL]
          /\ pc[p] = "fork_link" /\ pc' = [pc EXCEPT ![p] = "fork_ppid"]
          /\ page_usage_map' = page_usage_map
      BY <2>2 DEF ForkLink, NewPid, On, Goto
    <3>n. next_pid \notin process_list /\ next_pid # IDLE
      <4>1. \A q \in process_list : q < next_pid
        BY DEF IInv, LifeInv
      <4>2. next_pid \in Nat
        BY <3>1, MaxPidAssumption DEF Pid
      <4>3. IDLE \in process_list
        BY DEF IInv, LifeInv
      <4> QED BY <4>1, <4>2, <4>3
    <3> DEFINE n == next_pid
               b == new_cbr[p]
    <3>2. b \in Block /\ cbr[n] \notin Block
      BY <3>1, <3>n DEF BlockInv
    <3>3. cbr'[n] = b /\ (\A q \in Pid \ {n} : cbr'[q] = cbr[q]) /\ new_cbr'[p] = NULL
      BY <3>1, <1>t
    <3>4. n \in Pid /\ n # IDLE /\ n \notin process_list
      BY <3>1, <3>n
    <3>5. process_list' = process_list \cup {n}
      BY <3>1
    <3>9. pc'[p] # "fork_link" /\ page_usage_map' = page_usage_map
      BY <3>1, <1>t
    <3> HIDE DEF n, b
    <3>6. \A q \in Pid : cbr[q] # b
      BY <3>2 DEF BlockInv, b
    <3>7. \A q \in Pid \ {p} : new_cbr[q] # b
      BY <3>2 DEF BlockInv, b
    <3>8. \A a \in Block : (\E q \in Pid : cbr'[q] = a \/ new_cbr'[q] = a)
                           <=> (\E q \in Pid : cbr[q] = a \/ new_cbr[q] = a)
      <4>1. ASSUME NEW a \in Block, a # b
            PROVE  \A q \in Pid : /\ cbr'[q] = a <=> cbr[q] = a
                                  /\ new_cbr'[q] = a <=> new_cbr[q] = a
        <5>1. cbr[n] # a /\ cbr'[n] # a
          BY <3>2, <3>3, <4>1
        <5>2. new_cbr[p] # a /\ new_cbr'[p] # a
          BY <3>3, <4>1, <1>t DEF b
        <5> QED BY <5>1, <5>2, <3>3, <2>o
      <4>2. (\E q \in Pid : cbr'[q] = b) /\ (\E q \in Pid : new_cbr[q] = b)
        BY <3>3, <3>4 DEF b
      <4> QED BY <4>1, <4>2
    <3>10. \A q \in Pid : new_cbr'[q] \in Block <=> pc'[q] = "fork_link"
      BY <3>3, <3>9, <2>o, <1>t DEF BlockInv
    <3>11. \A q \in Pid : cbr'[q] \in Block <=> q \in process_list'
      BY <3>2, <3>3, <3>5 DEF BlockInv
    <3>12. \A q, r \in Pid : cbr'[q] \in Block /\ cbr'[q] = cbr'[r] => q = r
      BY <3>3, <3>6 DEF BlockInv
    <3>13. \A q, r \in Pid : new_cbr'[q] \in Block /\ new_cbr'[q] = new_cbr'[r] => q = r
      BY <3>3, <2>o, <1>t DEF BlockInv
    <3>14. \A q, r \in Pid : cbr'[q] \in Block => cbr'[q] # new_cbr'[r]
      BY <3>2, <3>3, <3>6, <3>7, <2>o, <1>t DEF BlockInv
    <3>15. cbr'[IDLE] = KernelBlock
      BY <3>3, <3>4, <1>t DEF BlockInv
    <3> QED BY <3>8, <3>9, <3>10, <3>11, <3>12, <3>13, <3>14, <3>15 DEF BlockInv
  <2>3. CASE ForkCloneFails(p)
    <3>1. child_proc[p] \in process_list /\ child_proc[p] # IDLE
      <4>1. child_proc[p] \in Pid
        BY <2>3, ForkCloneFailsEffect
      <4>2. child_proc[p] \in process_list /\ p < child_proc[p]
        BY <4>1 DEF IInv, ChildInv
      <4> QED BY <4>1, <4>2, MaxPidAssumption DEF Pid, IDLE
    <3>2. pc'[p] # "fork_link" /\ pc[p] # "fork_link"
      BY <2>3, <1>t DEF ForkCloneFails, On, Goto, Resume
    <3> QED BY <2>3, <2>o, <3>1, <3>2, DestroyBlocks DEF ForkCloneFails
  <2>4. CASE Reap(p)
    <3>1. found_process[p] \in process_list /\ found_process[p] # IDLE
      BY <2>4, ReapEffect DEF IInv, LifeInv
    <3>2. pc'[p] # "fork_link" /\ pc[p] # "fork_link"
      BY <2>4, <1>t DEF Reap, On, Goto, Resume
    <3> QED BY <2>4, <2>o, <3>1, <3>2, DestroyBlocks DEF Reap
  <2>5. CASE ~ForkAlloc(p) /\ ~ForkLink(p) /\ ~ForkCloneFails(p) /\ ~Reap(p)
    <3>1. /\ UNCHANGED <<process_list, cbr, new_cbr, page_usage_map>>
          /\ pc[p] # "fork_link" /\ pc'[p] # "fork_link"
      BY <1>p, <2>5, BlocksStay
    <3> QED BY <3>1, <2>o DEF BlockInv
  <2> QED BY <2>1, <2>2, <2>3, <2>4, <2>5
<1>k. CASE Tick \/ UNCHANGED vars
  BY <1>k DEF Tick, vars, tableVars, localVars, BlockInv
<1> QED BY <1>p, <1>k DEF Next, Rest

-----------------------------------------------------------------------------
(* Parents, and the end.                                                    *)

\* What a step does to who is EMPTY: a fork's child is born, a reaped zombie
\* and nobody else goes.
LEMMA BornStep ==
    ASSUME IInv, NEW p \in Pid, Step(p), NEW c \in Pid
    PROVE  state'[c] # "EMPTY" <=>
              \/ state[c] # "EMPTY" /\ ~(Reap(p) /\ c = found_process[p])
              \/ ForkReady(p) /\ c = child_proc[p]
<1>1. CASE ForkReady(p)
  <2>1. Moves(child_proc[p], "READY") /\ child_proc[p] \in Pid
    BY <1>1, ForkReadyEffect
  <2>2. ~Reap(p)
    BY <1>1 DEF ForkReady, Reap, On
  <2> QED BY <1>1, <2>1, <2>2 DEF Moves, Same, Awake
<1>2. CASE Reap(p)
  <2>1. Moves(found_process[p], "EMPTY") /\ found_process[p] \in Pid
    BY <1>2, ReapEffect
  <2>2. ~ForkReady(p)
    BY <1>2 DEF ForkReady, Reap, On
  <2> QED BY <1>2, <2>1, <2>2 DEF Moves, Same, Awake
<1>3. CASE ExitHandOff(p)
  <2>1. state[p] # "EMPTY" /\ pc[p] \in {"user", "init_exit"}
    BY <1>3, ExitHandOffEffect, ExitsFacts
  <2>2. ~ForkReady(p) /\ ~Reap(p)
    BY <2>1 DEF ForkReady, Reap, On
  <2>3. PICK w \in Waiters :
          /\ w \in Pid /\ state'[p] = "ZOMBIE" /\ state'[w] = "RUNNING"
          /\ \A q \in Pid \ {p, w} : state'[q] = state[q]
    BY <1>3, ExitHandOffEffect
  <2>4. state[w] = "BLOCKED"
    BY <2>3 DEF IInv, SleepInv
  <2> QED BY <2>1, <2>2, <2>3, <2>4
<1>4. CASE ExitZombie(p)
  <2>1. state[p] # "EMPTY" /\ pc[p] \in {"user", "init_exit"}
    BY <1>4, ExitZombieEffect, ExitsFacts
  <2>2. ~ForkReady(p) /\ ~Reap(p)
    BY <2>1 DEF ForkReady, Reap, On
  <2>3. Moves(p, "ZOMBIE")
    BY <1>4, ExitZombieEffect
  <2> QED BY <2>1, <2>2, <2>3 DEF Moves, Same, Awake
<1>5. CASE ~ForkReady(p) /\ ~Reap(p) /\ ~ExitHandOff(p) /\ ~ExitZombie(p)
  <2>1. state'[c] = "EMPTY" <=> state[c] = "EMPTY"
    BY <1>5, StepCases, ClassStays
  <2> QED BY <1>5, <2>1
<1> QED BY <1>1, <1>2, <1>3, <1>4, <1>5

\* Nobody dies but by sys_exit.
LEMMA DeathStep ==
    ASSUME IInv, NEW p \in Pid, Step(p), NEW q \in Pid, pc[q] # "dead"
    PROVE  pc'[q] # "dead" \/ (q = p /\ Exits(p))
<1>t. pc \in [Pid -> Label] /\ after \in [Pid -> {"init", "user", "fork_ready", "reap"}]
  BY DEF IInv, TypeOK
<1>1. CASE q # p
  BY <1>1, OthersStay
<1>2. CASE q = p /\ ~Exits(p)
  <2>1. CASE Quiet(p)
    BY <1>2, <2>1, <1>t DEF Quiet, ForkAlloc, ForkNoMemory, ForkPpid, ForkClone, DmaLock, SysIo,
         WaitWoken, WaitReturn, Waits, Resume, On, Goto
  <2>2. CASE ForkLink(p) \/ ForkCloneFails(p) \/ DmaBlock(p) \/ DmaUnlock(p) \/ Reap(p)
    BY <1>2, <2>2, <1>t DEF ForkLink, ForkCloneFails, DmaBlock, DmaUnlock, Reap, Resume, Goto
  <2>3. CASE ForkReady(p)
    <3>1. child_proc[p] \in Pid /\ child_proc[p] # p
      BY <2>3, ForkReadyEffect
    <3> QED BY <1>2, <2>3, <3>1, <1>t DEF ForkReady, Resume
  <2>4. ASSUME NEW pid \in WaitPid, NEW nohang \in BOOLEAN, NEW wstatus \in BOOLEAN,
               WaitFound(p, pid, nohang, wstatus) \/ WaitHang(p, pid, wstatus)
        PROVE  pc'[p] # "dead"
    BY <2>4, <1>t DEF WaitFound, WaitHang, Goto
  <2> QED BY <1>2, <2>1, <2>2, <2>3, <2>4, StepCases DEF ExitHandOff, ExitZombie
<1> QED BY <1>1, <1>2

LEMMA ParentStep ==
    ASSUME IInv, ParentInv, ShutdownInv, [Next]_vars
    PROVE  ParentInv'
<1>t. /\ pc \in [Pid -> Label] /\ child_proc \in [Pid -> Pid \cup {NULL}]
      /\ ppid \in [Pid -> Pid] /\ state \in [Pid -> ProcState]
      /\ next_pid \in Nat /\ process_list \subseteq Pid /\ NULL \notin Pid
      /\ IDLE \in Pid /\ INIT \in Pid /\ IDLE # INIT /\ IDLE = 0 /\ INIT = 1 /\ Pid \subseteq Nat
  BY IdlePid, NullAssumption DEF IInv, TypeOK, SchedTypeOK, IDLE, INIT
<1>p. ASSUME NEW p \in Pid, Step(p) PROVE ParentInv'
  <2>c. p = current_proc /\ state[p] = "RUNNING" /\ pc[p] # "dead" /\ p \in process_list
    <3>1. p = current_proc
      BY <1>p DEF Step, ForkAlloc, ForkNoMemory, ForkLink, ForkPpid, ForkClone, ForkCloneFails,
         ForkReady, DmaUnlock, SysIo, Critical, DmaLock, DmaBlock, WaitWoken, WaitFound, WaitHang,
         WaitReturn, Waits, Reap, Exit, ExitHandOff, ExitZombie, Exits, On
    <3> QED BY <3>1 DEF IInv, SchedInv, LifeInv
  <2>1. ASSUME NEW c \in Pid \ {IDLE, INIT}, state'[c] # "EMPTY"
        PROVE  ppid'[c] # IDLE /\ ppid'[c] < c /\ pc'[ppid'[c]] # "dead"
    <3>1. CASE ForkReady(p) /\ c = child_proc[p]
      <4>1. ppid[c] = p /\ p < c /\ pc[p] # "fork_ppid"
        BY <3>1 DEF IInv, ChildInv, ForkReady, On
      <4>2. p # IDLE
        BY <3>1, <1>t DEF ParentInv
      <4>3. ppid' = ppid
        BY <3>1 DEF ForkReady, tableVars
      <4>4. pc'[p] # "dead"
        <5>1. ~Exits(p)
          BY <3>1 DEF ForkReady, Exits, On
        <5> QED BY <1>p, <2>c, <5>1, DeathStep
      <4> QED BY <4>1, <4>2, <4>3, <4>4
    <3>2. CASE ~(ForkReady(p) /\ c = child_proc[p])
      <4>1. state[c] # "EMPTY" /\ ~(Reap(p) /\ c = found_process[p])
        BY <1>p, <2>1, <3>2, BornStep
      <4>2. ppid[c] # IDLE /\ ppid[c] < c /\ pc[ppid[c]] # "dead" /\ ppid[c] \in Pid
        BY <4>1, <1>t DEF ParentInv
      <4>3. CASE ~Exits(p)
        <5>1. ppid'[c] = ppid[c]
          BY <1>p, <4>1, <4>3, ParentStays DEF ExitHandOff, ExitZombie
        <5>2. pc'[ppid[c]] # "dead"
          BY <1>p, <4>2, <4>3, DeathStep
        <5> QED BY <4>2, <5>1, <5>2
      <4>4. CASE Exits(p)
        <5>1. /\ ppid'[c] = IF c \in process_list /\ ppid[c] = p THEN INIT ELSE ppid[c]
              /\ \A q \in Pid \ {p} : pc'[q] = pc[q]
              /\ pc[p] \in {"user", "init_exit"}
          BY <4>4, ExitsFacts
        <5>2. c \in process_list
          BY <4>1 DEF IInv, LifeInv
        <5>3. p # INIT /\ pc[INIT] # "dead"
          <6>1. p # INIT
            BY <5>1, <5>2 DEF ShutdownInv
          <6> QED BY <5>2, <6>1 DEF ParentInv
        <5>4. CASE ppid[c] = p
          BY <5>1, <5>2, <5>3, <5>4, <1>t
        <5>5. CASE ppid[c] # p
          BY <4>2, <5>1, <5>5
        <5> QED BY <5>4, <5>5
      <4> QED BY <4>3, <4>4
    <3> QED BY <3>1, <3>2
  <2>2. child_proc'[IDLE] \in Pid => child_proc'[IDLE] = INIT
    <3>1. CASE p # IDLE
      BY <3>1, <1>p, <1>t, OthersLocals DEF ParentInv
    <3>2. CASE p = IDLE /\ ForkLink(p)
      <4>1. next_pid = 1 /\ child_proc'[IDLE] = next_pid
        BY <3>2, <1>t DEF ForkLink, NewPid, On, IInv, IdleInv
      <4> QED BY <4>1, <1>t
    <3>3. CASE p = IDLE /\ ~ForkLink(p)
      <4>1. child_proc'[IDLE] \in {child_proc[IDLE], NULL}
        BY <3>3, <1>p, <1>t
           DEF Step, ForkAlloc, ForkNoMemory, ForkLink, ForkPpid, ForkClone, ForkCloneFails,
               ForkReady, DmaUnlock, SysIo, Critical, DmaLock, DmaBlock, WaitWoken, WaitFound,
               WaitHang, WaitReturn, Reap, Exit, ExitHandOff, ExitZombie, Exits, localVars
      <4> QED BY <4>1, <1>t DEF ParentInv
    <3> QED BY <3>1, <3>2, <3>3
  <2>3. state'[INIT] # "EMPTY" => ppid'[INIT] = IDLE
    <3> SUFFICES ASSUME state'[INIT] # "EMPTY" PROVE ppid'[INIT] = IDLE
      OBVIOUS
    <3>1. CASE ForkReady(p) /\ INIT = child_proc[p]
      <4>1. ppid[INIT] = p /\ p < INIT
        BY <3>1, <1>t DEF IInv, ChildInv, ForkReady, On
      <4>2. p = IDLE
        BY <4>1, <1>t
      <4> QED BY <3>1, <4>1, <4>2 DEF ForkReady, tableVars
    <3>2. CASE ~(ForkReady(p) /\ INIT = child_proc[p])
      <4>1. state[INIT] # "EMPTY" /\ ~(Reap(p) /\ INIT = found_process[p])
        BY <1>p, <1>t, <3>2, BornStep
      <4>2. ppid[INIT] = IDLE
        BY <4>1 DEF ParentInv
      <4>3. CASE ~Exits(p)
        BY <1>p, <1>t, <4>1, <4>2, <4>3, ParentStays DEF ExitHandOff, ExitZombie
      <4>4. CASE Exits(p)
        BY <1>t, <4>2, <4>4, ExitsFacts
      <4> QED BY <4>3, <4>4
    <3> QED BY <3>1, <3>2
  <2>4. process_list' \subseteq {IDLE, INIT} \/ pc'[INIT] # "dead"
    <3>1. CASE ForkLink(p)
      <4>1. process_list' = process_list \cup {next_pid} /\ pc[p] = "fork_link"
        BY <3>1 DEF ForkLink, NewPid, On
      <4>2. CASE p = IDLE
        <5>1. next_pid = INIT
          BY <4>1, <4>2, <1>t DEF IInv, IdleInv
        <5>2. pc[INIT] # "dead" \/ process_list \subseteq {IDLE, INIT}
          BY DEF ParentInv
        <5>3. pc[INIT] # "dead" => pc'[INIT] # "dead"
          BY <3>1, <1>p, <1>t, DeathStep DEF ForkLink, Exits, On
        <5> QED BY <4>1, <5>1, <5>2, <5>3
      <4>3. CASE p # IDLE
        <5>1. pc[INIT] # "dead"
          BY <2>c, <4>3 DEF ParentInv
        <5> QED BY <3>1, <5>1, <1>p, <1>t, DeathStep DEF ForkLink, Exits, On
      <4> QED BY <4>2, <4>3
    <3>2. CASE ~ForkLink(p)
      <4>1. process_list' \subseteq process_list
        BY <3>2, <1>p
           DEF Step, ForkAlloc, ForkNoMemory, ForkLink, ForkPpid, ForkClone, ForkCloneFails,
               ForkReady, DmaUnlock, SysIo, Critical, DmaLock, DmaBlock, WaitWoken, WaitFound,
               WaitHang, WaitReturn, Reap, Exit, ExitHandOff, ExitZombie, Exits, tableVars,
               process_destroy
      <4>2. CASE pc'[INIT] = "dead" /\ pc[INIT] # "dead"
        <5>1. p = INIT /\ Exits(p)
          BY <4>2, <1>p, <1>t, DeathStep
        <5>2. pc[INIT] = "init_exit"
          BY <5>1, ExitsFacts DEF ShutdownInv
        <5> QED BY <4>1, <5>2 DEF ShutdownInv
      <4> QED BY <4>1, <4>2 DEF ParentInv
    <3> QED BY <3>1, <3>2
  <2> QED BY <2>1, <2>2, <2>3, <2>4 DEF ParentInv
<1>k. CASE Tick
  <2>1. /\ UNCHANGED <<process_list, ppid, pc, child_proc>>
        /\ \A q \in Pid : \/ state'[q] = state[q]
                          \/ state[q] \in Awake /\ state'[q] \in Awake
    BY <1>k, TickEffect DEF Tick, tableVars, localVars, IInv, TypeOK
  <2> QED BY <2>1, <1>t DEF ParentInv, Awake
<1>u. CASE UNCHANGED vars
  BY <1>u DEF vars, schedVars, tableVars, localVars, ParentInv
<1> QED BY <1>p, <1>k, <1>u DEF Next, Rest

\* A process that exists and is neither the idle process nor init descends from
\* init: follow the parents, each older than its child.
LEMMA InitHasChild ==
    ASSUME IInv, ParentInv, process_list \ {IDLE, INIT} # {},
           pc[INIT] # "dead", ~Forking(INIT)
    PROVE  \E c \in process_list : ppid[c] = INIT
<1>t. /\ IDLE \in Pid /\ INIT \in Pid /\ IDLE # INIT /\ Pid \subseteq Nat
      /\ process_list \subseteq Pid /\ pc[IDLE] # "dead"
  BY IdlePid, IdleAwake DEF IInv, TypeOK
<1> DEFINE Rest2 == process_list \ {IDLE, INIT}
<1>1. Rest2 \subseteq Nat /\ Rest2 # {}
  BY <1>t
<1>2. PICK c \in Rest2 : \A d \in Rest2 : ~ (<<d, c>> \in OpToRel(<, Nat))
  BY <1>1, NatLessThanWellFounded, WFMin
<1>3. c \in process_list /\ c \in Pid /\ c \in Nat /\ c # IDLE /\ c # INIT
  BY <1>2, <1>t
<1>4. \A d \in Rest2 : ~ (d < c)
  BY <1>1, <1>2, <1>3 DEF OpToRel
<1> HIDE DEF Rest2
<1>5. ASSUME NEW q \in Pid, pc[q] # "dead", q < c, q # IDLE PROVE q = INIT
  <2>1. q \in process_list
    BY <1>5 DEF IInv, LifeInv, TypeOK, SchedTypeOK, ProcState
  <2> QED BY <1>4, <1>5, <2>1 DEF Rest2
<1>6. CASE state[c] # "EMPTY"
  <2>1. ppid[c] \in Pid
    BY <1>3 DEF IInv, TypeOK
  <2>2. ppid[c] = INIT
    BY <1>3, <1>5, <1>6, <2>1 DEF ParentInv
  <2> QED BY <1>3, <2>2
<1>7. CASE state[c] = "EMPTY"
  <2>1. PICK q \in Pid : child_proc[q] = c
    BY <1>3, <1>7 DEF IInv, ChildInv
  <2>2. Forking(q) /\ q < c
    BY <1>3, <2>1 DEF IInv, ChildInv
  <2>3. q # IDLE
    BY <1>3, <2>1 DEF ParentInv
  <2>4. pc[q] # "dead"
    BY <2>2 DEF Forking, InDma
  <2>5. q = INIT
    BY <1>5, <2>2, <2>3, <2>4
  <2> QED BY <2>2, <2>5
<1> QED BY <1>6, <1>7

\* The places of init in its program.
LEMMA InitPlaces ==
    ASSUME IInv, ShutdownInv, NEW p \in Pid, Step(p)
    PROVE  /\ pc'[INIT] \notin {"user", "boot", "idle"}
           /\ pc'[INIT] \in InDma => after'[INIT] \in {"init", "fork_ready", "reap"}
<1>t. /\ pc \in [Pid -> Label] /\ after \in [Pid -> {"init", "user", "fork_ready", "reap"}]
      /\ child_proc \in [Pid -> Pid \cup {NULL}]
      /\ INIT \in Pid /\ IDLE # INIT /\ IDLE \in Pid
  BY IdlePid DEF IInv, TypeOK
<1>i. /\ pc[INIT] \notin {"user", "boot", "idle"}
      /\ pc[INIT] \in InDma => after[INIT] \in {"init", "fork_ready", "reap"}
  BY DEF ShutdownInv
<1>r. Resume(INIT) = "init_wait" /\ ChildStart(INIT) = "init"
  BY <1>t DEF Resume, ChildStart
<1>1. CASE p # INIT
  <2>1. after'[INIT] = after[INIT]
    BY <1>1, <1>t, OthersLocals
  <2>2. CASE pc'[INIT] = pc[INIT]
    BY <2>1, <2>2, <1>i
  <2>3. CASE ForkReady(p) /\ INIT = child_proc[p]
    BY <2>3, <1>1, <1>t, <1>r DEF ForkReady, InDma
  <2> QED BY <2>2, <2>3, <1>1, <1>t, OthersStay
<1>2. CASE p = INIT
  <2>1. CASE \/ ForkAlloc(p) \/ ForkNoMemory(p) \/ ForkLink(p) \/ ForkPpid(p)
             \/ ForkClone(p) \/ ForkCloneFails(p) \/ Reap(p)
    BY <1>2, <2>1, <1>t, <1>i, <1>r
       DEF ForkAlloc, ForkNoMemory, ForkLink, ForkPpid, ForkClone, ForkCloneFails, Reap,
           On, Goto, InDma
  <2>2. CASE ForkReady(p)
    <3>1. child_proc[p] \in Pid /\ child_proc[p] # p
      BY <2>2, ForkReadyEffect
    <3> QED BY <1>2, <2>2, <3>1, <1>t, <1>r DEF ForkReady, InDma
  <2>3. CASE DmaLock(p) \/ DmaBlock(p) \/ DmaUnlock(p) \/ SysIo(p)
    BY <1>2, <2>3, <1>t, <1>i DEF DmaLock, DmaBlock, DmaUnlock, SysIo, On, Goto, InDma
  <2>4. CASE WaitWoken(p)
    BY <1>2, <2>4, <1>t, <1>i, <1>r DEF WaitWoken, On, Goto, InDma
  <2>5. ASSUME NEW pid \in WaitPid, NEW nohang \in BOOLEAN, NEW wstatus \in BOOLEAN,
               \/ WaitFound(p, pid, nohang, wstatus)
               \/ WaitHang(p, pid, wstatus)
               \/ WaitReturn(p, pid, nohang)
        PROVE  /\ pc'[INIT] \notin {"user", "boot", "idle"}
               /\ pc'[INIT] \in InDma => after'[INIT] \in {"init", "fork_ready", "reap"}
    BY <1>2, <2>5, <1>t, <1>i DEF WaitFound, WaitHang, WaitReturn, Waits, On, Goto, InDma
  <2>6. CASE Exits(p)
    BY <1>2, <2>6, <1>t DEF Exits, Goto, InDma
  <2> QED BY <2>1, <2>2, <2>3, <2>4, <2>5, <2>6 DEF Step, Critical, Exit, ExitHandOff, ExitZombie
<1> QED BY <1>1, <1>2

\* While init exits, and after, nobody is left who could fork or be forked.
LEMMA LastStanding ==
    ASSUME IInv, process_list = {IDLE, INIT}, pc[INIT] = "init_exit" \/ state[INIT] = "ZOMBIE",
           NEW p \in Pid, Step(p)
    PROVE  \/ process_list' = process_list
           \/ Reap(p) /\ found_process[p] = INIT
<1>t. /\ INIT \in Pid /\ IDLE # INIT /\ IDLE \in Pid
  BY IdlePid
<1>1. state[INIT] # "EMPTY" /\ ~Booting
  <2>1. state[INIT] # "EMPTY"
    BY <1>t DEF IInv, LifeInv
  <2> QED BY <2>1, <1>t DEF IInv, IdleInv
<1>2. pc[INIT] \in {"init_exit", "dead"} /\ pc[IDLE] \in {"idle", "reap"}
  BY <1>1, <1>t DEF IInv, LifeInv, Booting
<1>3. pc[p] # "dead" => p \in {IDLE, INIT}
  BY DEF IInv, LifeInv, TypeOK, SchedTypeOK, ProcState
<1>4. ~ForkLink(p) /\ ~ForkCloneFails(p)
  BY <1>2, <1>3 DEF ForkLink, ForkCloneFails, On
<1>5. CASE Reap(p)
  <2>1. found_process[p] \in process_list /\ found_process[p] # IDLE
    BY <1>5, ReapEffect DEF IInv, LifeInv
  <2> QED BY <1>5, <2>1
<1>6. CASE ~Reap(p)
  BY <1>4, <1>6
     DEF Step, ForkAlloc, ForkNoMemory, ForkPpid, ForkClone, ForkReady, DmaUnlock, SysIo, Critical,
         DmaLock, DmaBlock, WaitWoken, WaitFound, WaitHang, WaitReturn, Exit, ExitHandOff,
         ExitZombie, Exits, tableVars
<1> QED BY <1>5, <1>6

LEMMA ZombieBorn ==
    ASSUME IInv, NEW p \in Pid, Step(p), NEW z \in Pid, state[z] # "ZOMBIE", state'[z] = "ZOMBIE"
    PROVE  z = p /\ Exits(p)
<1>1. CASE ForkReady(p)
  BY <1>1, ForkReadyEffect DEF Moves, Same, Awake
<1>2. CASE Reap(p)
  BY <1>2, ReapEffect DEF Moves, Same, Awake
<1>3. CASE ExitHandOff(p)
  BY <1>3, ExitHandOffEffect
<1>4. CASE ExitZombie(p)
  BY <1>4, ExitZombieEffect DEF Moves, Same, Awake
<1> QED BY <1>1, <1>2, <1>3, <1>4, StepCases, ClassStays

\* Init leaves its loop when waitpid tells it that it has no child.
LEMMA InitLeaves ==
    ASSUME IInv, ParentInv, ShutdownInv, NEW p \in Pid, Step(p),
           pc[INIT] # "init_exit", pc'[INIT] = "init_exit"
    PROVE  process_list = {IDLE, INIT} /\ process_list' = process_list
<1>t. /\ pc \in [Pid -> Label] /\ after \in [Pid -> {"init", "user", "fork_ready", "reap"}]
      /\ child_proc \in [Pid -> Pid \cup {NULL}]
      /\ INIT \in Pid /\ IDLE # INIT /\ IDLE \in Pid
  BY IdlePid DEF IInv, TypeOK
<1>r. Resume(INIT) = "init_wait" /\ ChildStart(INIT) = "init"
  BY <1>t DEF Resume, ChildStart
<1>1. p = INIT
  <2> SUFFICES ASSUME p # INIT PROVE FALSE
    OBVIOUS
  <2>1. ForkReady(p) /\ INIT = child_proc[p]
    BY <1>t, OthersStay
  <2> QED BY <2>1, <1>t, <1>r DEF ForkReady
<1>2. \E pid \in WaitPid, nohang \in BOOLEAN : WaitReturn(p, pid, nohang)
  <2>1. CASE \/ ForkAlloc(p) \/ ForkNoMemory(p) \/ ForkLink(p) \/ ForkPpid(p)
             \/ ForkClone(p) \/ ForkCloneFails(p) \/ Reap(p) \/ WaitWoken(p)
    BY <1>1, <2>1, <1>t, <1>r
       DEF ForkAlloc, ForkNoMemory, ForkLink, ForkPpid, ForkClone, ForkCloneFails, Reap, WaitWoken,
           Goto
  <2>2. CASE ForkReady(p)
    <3>1. child_proc[p] \in Pid /\ child_proc[p] # p
      BY <2>2, ForkReadyEffect
    <3> QED BY <1>1, <2>2, <3>1, <1>t, <1>r DEF ForkReady
  <2>3. CASE DmaLock(p) \/ DmaBlock(p) \/ DmaUnlock(p) \/ SysIo(p) \/ Exits(p)
    <3>1. after[INIT] # "init_exit"
      BY <1>t
    <3> QED BY <1>1, <2>3, <3>1, <1>t DEF DmaLock, DmaBlock, DmaUnlock, SysIo, Exits, Goto
  <2>4. ASSUME NEW pid \in WaitPid, NEW nohang \in BOOLEAN, NEW wstatus \in BOOLEAN,
               WaitFound(p, pid, nohang, wstatus) \/ WaitHang(p, pid, wstatus)
        PROVE  FALSE
    BY <1>1, <2>4, <1>t DEF WaitFound, WaitHang, Goto
  <2> QED BY <2>1, <2>2, <2>3, <2>4 DEF Step, Critical, Exit, ExitHandOff, ExitZombie
<1>3. PICK pid \in WaitPid, nohang \in BOOLEAN : WaitReturn(p, pid, nohang)
  BY <1>2
<1>4. pid = ANY /\ pc[INIT] = "init_wait" /\ ~ChildExists(INIT, ANY)
  <2>1. pc[INIT] # "idle" /\ pc[INIT] # "user"
    BY DEF ShutdownInv
  <2>2. pid = ANY /\ pc[INIT] = "init_wait"
    BY <1>1, <1>3, <2>1 DEF WaitReturn, Waits, On
  <2>3. ~ChildExists(INIT, pid)
    BY <1>1, <1>3, <1>t DEF WaitReturn, Goto
  <2> QED BY <2>2, <2>3
<1>5. \A c \in process_list : ppid[c] # INIT
  BY <1>4 DEF ChildExists, IsChild
<1>6. process_list \subseteq {IDLE, INIT}
  <2>1. ~Forking(INIT)
    BY <1>4 DEF Forking, InDma
  <2> QED BY <1>4, <1>5, <2>1, InitHasChild
<1>7. IDLE \in process_list /\ INIT \in process_list
  <2>1. pc[INIT] # "dead"
    BY <1>4
  <2> QED BY <2>1, <1>t DEF IInv, LifeInv, TypeOK, SchedTypeOK, ProcState
<1>8. process_list' = process_list
  BY <1>3 DEF WaitReturn, tableVars
<1> QED BY <1>6, <1>7, <1>8

LEMMA ShutdownStep ==
    ASSUME IInv, ParentInv, ShutdownInv, [Next]_vars
    PROVE  ShutdownInv'
<1>t. /\ INIT \in Pid /\ IDLE # INIT /\ IDLE \in Pid /\ NULL \notin Pid
      /\ found_process \in [Pid -> Pid \cup {NULL}] /\ process_list \subseteq Pid
  BY IdlePid, NullAssumption DEF IInv, TypeOK
<1>p. ASSUME NEW p \in Pid, Step(p) PROVE ShutdownInv'
  <2>1. pc'[INIT] = "init_exit" \/ state'[INIT] = "ZOMBIE" => process_list' = {IDLE, INIT}
    <3> SUFFICES ASSUME pc'[INIT] = "init_exit" \/ state'[INIT] = "ZOMBIE"
                 PROVE  process_list' = {IDLE, INIT}
      OBVIOUS
    <3>1. CASE pc[INIT] = "init_exit" \/ state[INIT] = "ZOMBIE"
      <4>1. process_list = {IDLE, INIT}
        BY <3>1 DEF ShutdownInv
      <4>2. ASSUME Reap(p), found_process[p] = INIT PROVE FALSE
        <5>1. /\ INIT # p /\ pc[INIT] = "dead" /\ Moves(INIT, "EMPTY")
          BY <4>2, ReapEffect
        <5>2. pc'[INIT] = "dead"
          BY <5>1, <4>2, <1>p, <1>t, OthersStay DEF ForkReady, Reap, On
        <5>3. state'[INIT] = "EMPTY"
          BY <5>1 DEF Moves
        <5> QED BY <5>2, <5>3
      <4> QED BY <3>1, <4>1, <4>2, <1>p, LastStanding
    <3>2. CASE pc[INIT] # "init_exit" /\ state[INIT] # "ZOMBIE"
      <4>1. state'[INIT] # "ZOMBIE"
        <5>1. SUFFICES ASSUME state'[INIT] = "ZOMBIE" PROVE FALSE
          OBVIOUS
        <5>2. INIT = p /\ Exits(p)
          BY <5>1, <3>2, <1>p, <1>t, ZombieBorn
        <5> QED BY <5>2, <3>2, ExitsFacts DEF ShutdownInv
      <4> QED BY <4>1, <3>2, <1>p, InitLeaves
    <3> QED BY <3>1, <3>2
  <2>2. found_process'[IDLE] \in Pid => found_process'[IDLE] = INIT
    <3>1. CASE p # IDLE
      BY <3>1, <1>p, <1>t, OthersLocals DEF ShutdownInv
    <3>2. ASSUME p = IDLE, NEW pid \in WaitPid, NEW nohang \in BOOLEAN, NEW wstatus \in BOOLEAN,
                 WaitFound(p, pid, nohang, wstatus)
          PROVE  found_process'[IDLE] = INIT
      <4>1. pc[IDLE] # "user" /\ pc[IDLE] # "init_wait"
        BY DEF IInv, IdleInv, InFork
      <4>2. pid = INIT /\ INIT # ANY
        BY <3>2, <4>1 DEF WaitFound, Waits, On, INIT, ANY
      <4>3. PICK z \in Zombies : /\ z \in Pid /\ IsChild(z, p, pid)
                                 /\ found_process' = [found_process EXCEPT ![p] = z]
        BY <3>2, WaitFoundEffect
      <4> QED BY <3>2, <4>2, <4>3, <1>t DEF IsChild
    <3>3. CASE p = IDLE /\ ~ \E pid \in WaitPid, nohang, wstatus \in BOOLEAN :
                                 WaitFound(p, pid, nohang, wstatus)
      <4>1. pc[IDLE] # "wait_woken"
        BY DEF IInv, IdleInv, InFork
      <4>2. found_process'[IDLE] \in {found_process[IDLE], NULL}
        BY <3>3, <4>1, <1>p, <1>t
           DEF Step, ForkAlloc, ForkNoMemory, ForkLink, ForkPpid, ForkClone, ForkCloneFails,
               ForkReady, DmaUnlock, SysIo, Critical, DmaLock, DmaBlock, WaitWoken,
               WaitHang, WaitReturn, Reap, Exit, ExitHandOff, ExitZombie, Exits, localVars, On
      <4> QED BY <4>2, <1>t DEF ShutdownInv
    <3> QED BY <3>1, <3>2, <3>3, <1>t
  <2>3. halted' => process_list' = {IDLE} /\ pc'[IDLE] = "idle"
    <3>1. ~halted
      BY <1>p DEF Step, ForkAlloc, ForkNoMemory, ForkLink, ForkPpid, ForkClone, ForkCloneFails,
         ForkReady, DmaUnlock, SysIo, Critical, DmaLock, DmaBlock, WaitWoken, WaitFound, WaitHang,
         WaitReturn, Waits, Reap, Exit, ExitHandOff, ExitZombie, Exits, On
    <3>2. CASE Reap(p)
      <4>1. SUFFICES ASSUME p = IDLE PROVE process_list' = {IDLE} /\ pc'[IDLE] = "idle"
        BY <3>2 DEF Reap
      <4>2. found_process[IDLE] = INIT /\ state[INIT] = "ZOMBIE"
        BY <3>2, <4>1, ReapEffect DEF ShutdownInv
      <4>3. process_list = {IDLE, INIT}
        BY <4>2 DEF ShutdownInv
      <4>4. pc'[IDLE] = "idle"
        BY <3>2, <4>1, <1>t DEF Reap, Goto, Resume, IInv, TypeOK
      <4> QED BY <3>2, <4>1, <4>2, <4>3, <4>4, <1>t DEF Reap, process_destroy
    <3>3. CASE ~Reap(p)
      <4>1. halted' = halted
        BY <3>3, <1>p
           DEF Step, ForkAlloc, ForkNoMemory, ForkLink, ForkPpid, ForkClone, ForkCloneFails,
               ForkReady, DmaUnlock, SysIo, Critical, DmaLock, DmaBlock, WaitWoken, WaitFound,
               WaitHang, WaitReturn, Exit, ExitHandOff, ExitZombie, Exits
      <4> QED BY <3>1, <4>1
    <3> QED BY <3>2, <3>3
  <2> QED BY <1>p, <2>1, <2>2, <2>3, InitPlaces DEF ShutdownInv
<1>k. CASE Tick
  <2>1. /\ UNCHANGED <<process_list, found_process, pc, after, halted>>
        /\ \A q \in Pid : \/ state'[q] = state[q]
                          \/ state[q] \in Awake /\ state'[q] \in Awake
    BY <1>k, TickEffect DEF Tick, tableVars, localVars, IInv, TypeOK
  <2> QED BY <2>1, <1>t DEF ShutdownInv, Awake
<1>u. CASE UNCHANGED vars
  BY <1>u DEF vars, schedVars, tableVars, localVars, ShutdownInv
<1> QED BY <1>p, <1>k, <1>u DEF Next, Rest

-----------------------------------------------------------------------------
LEMMA InitTree == Init => TreeInv
<1> SUFFICES ASSUME Init PROVE TreeInv
  OBVIOUS
<1>1. IInv
  BY InitInv
<1>2. /\ NULL \notin Pid /\ NULL \notin Block /\ KernelBlock \in Block
      /\ IDLE \in Pid /\ INIT \in Pid /\ IDLE # INIT
  BY NullAssumption, BlockAssumption, IdlePid DEF Block, KernelBlock
<1>3. \A p \in Pid : /\ child_proc[p] = NULL /\ found_process[p] = NULL /\ new_cbr[p] = NULL
                     /\ cbr[p] = IF p = IDLE THEN KernelBlock ELSE NULL
                     /\ pc[p] = IF p = IDLE THEN "boot" ELSE "dead"
                     /\ state[p] = IF p = IDLE THEN "RUNNING" ELSE "EMPTY"
  BY DEF Init, SchedInit
<1>4. process_list = {IDLE} /\ ~halted
  BY DEF Init
<1>5. \A b \in Block : page_usage_map[b] = "full" <=> b = KernelBlock
  BY DEF Init
<1>6. BlockInv
  BY <1>2, <1>3, <1>4, <1>5 DEF BlockInv
<1>7. ParentInv
  BY <1>2, <1>3, <1>4 DEF ParentInv
<1>8. ShutdownInv
  BY <1>2, <1>3, <1>4 DEF ShutdownInv, InDma
<1> QED BY <1>1, <1>6, <1>7, <1>8 DEF TreeInv

LEMMA StepTree == TreeInv /\ [Next]_vars => TreeInv'
BY StepInv, BlockStep, ParentStep, ShutdownStep DEF TreeInv

LEMMA TreeInvariance == Spec => []TreeInv
BY InitTree, StepTree, PTL DEF Spec

\* Page blocks, for any number of them and of processes: no block leaks when a
\* fork fails or a zombie is reaped, and no block is given to two processes by
\* forks that interleave.
THEOREM BlocksOwned == Spec => []BlockOwnedOnce
<1>1. ASSUME TreeInv PROVE BlockOwnedOnce
  <2>1. BlockInv /\ process_list \subseteq Pid /\ page_usage_map \in [Block -> {"empty", "full"}]
    BY <1>1 DEF TreeInv, IInv, TypeOK
  <2>2. ASSUME NEW b \in Block
        PROVE  Cardinality({p \in process_list : cbr[p] = b}) + Cardinality({p \in Pid : new_cbr[p] = b})
                 = (IF page_usage_map[b] = "full" THEN 1 ELSE 0)
    <3> DEFINE owners == {p \in process_list : cbr[p] = b}
               forks  == {p \in Pid : new_cbr[p] = b}
    <3>1. owners = {} \/ \E p \in Pid : owners = {p} /\ forks = {}
      BY <2>1 DEF BlockInv
    <3>2. forks = {} \/ \E p \in Pid : forks = {p} /\ owners = {}
      BY <2>1 DEF BlockInv
    <3>3. page_usage_map[b] = "full" <=> owners # {} \/ forks # {}
      BY <2>1 DEF BlockInv
    <3> HIDE DEF owners, forks
    <3>4. Cardinality(owners) + Cardinality(forks) = (IF page_usage_map[b] = "full" THEN 1 ELSE 0)
      <4>0. Cardinality({}) = 0 /\ \A p : Cardinality({p}) = 1
        BY FS_EmptySet, FS_Singleton
      <4>1. CASE owners # {}
        <5>1. Cardinality(owners) = 1 /\ Cardinality(forks) = 0
          BY <3>1, <4>0, <4>1
        <5> QED BY <3>3, <4>1, <5>1
      <4>2. CASE forks # {}
        <5>1. Cardinality(forks) = 1 /\ Cardinality(owners) = 0
          BY <3>2, <4>0, <4>2
        <5> QED BY <3>3, <4>2, <5>1
      <4>3. CASE owners = {} /\ forks = {}
        BY <3>3, <4>0, <4>3
      <4> QED BY <4>1, <4>2, <4>3
    <3> QED BY <3>4 DEF owners, forks
  <2> QED BY <2>2 DEF BlockOwnedOnce
<1> QED BY <1>1, TreeInvariance, PTL

\* Init outlives every program, however they fork, exit and are re-parented, and
\* when main() returns nothing is left but the idle process in its own block.
THEOREM ShutsDownClean == Spec => []CleanShutdown
<1>1. ASSUME TreeInv PROVE CleanShutdown
  <2>1. pc[INIT] = "init_exit" => process_list = {IDLE, INIT}
    BY <1>1 DEF TreeInv, ShutdownInv
  <2>2. ASSUME halted
        PROVE  process_list = {IDLE} /\ \A b \in Block \ {KernelBlock} : page_usage_map[b] = "empty"
    <3>1. process_list = {IDLE} /\ pc[IDLE] = "idle"
      BY <1>1, <2>2 DEF TreeInv, ShutdownInv
    <3>2. \A p \in Pid : pc[p] # "dead" => p = IDLE
      BY <1>1, <3>1 DEF TreeInv, IInv, LifeInv, TypeOK, SchedTypeOK, ProcState
    <3>3. \A p \in Pid : new_cbr[p] \notin Block
      BY <1>1, <3>1, <3>2 DEF TreeInv, BlockInv
    <3>4. \A p \in Pid : cbr[p] \in Block => cbr[p] = KernelBlock
      BY <1>1, <3>1 DEF TreeInv, BlockInv
    <3>5. \A b \in Block \ {KernelBlock} : page_usage_map[b] # "full"
      BY <1>1, <3>3, <3>4 DEF TreeInv, BlockInv
    <3> QED BY <1>1, <3>1, <3>5 DEF TreeInv, IInv, TypeOK
  <2> QED BY <2>1, <2>2 DEF CleanShutdown
<1> QED BY <1>1, TreeInvariance, PTL

-----------------------------------------------------------------------------
(* Refinement: every step of Process is a step of ProcessTree or a stutter. *)

\* A process is used up when it had a pid and is no longer on process_list.
Gone(p) == p < next_pid /\ p \notin process_list

\* Life and Parent, one process at a time.
LifeValues ==
    /\ DOMAIN Life = Pid /\ DOMAIN Parent = Pid
    /\ \A p \in Pid : Life[p] =
         IF state[p] = "EMPTY" THEN IF Gone(p) THEN "gone" ELSE "unborn"
         ELSE IF state[p] = "ZOMBIE" THEN "zombie" ELSE "alive"
    /\ \A p \in Pid : Parent[p] = IF state[p] = "EMPTY" THEN 0 ELSE ppid[p]

LEMMA LifeNow == IInv => LifeValues
<1> SUFFICES ASSUME IInv PROVE LifeValues
  OBVIOUS
<1>1. DOMAIN Life = Pid /\ DOMAIN Parent = Pid
  BY DEF Life, Parent
<1>2. ASSUME NEW p \in Pid
      PROVE  Life[p] = IF state[p] = "EMPTY" THEN IF Gone(p) THEN "gone" ELSE "unborn"
                       ELSE IF state[p] = "ZOMBIE" THEN "zombie" ELSE "alive"
  <2>1. p \in Nat /\ next_pid \in Nat
    BY IdlePid DEF IInv, TypeOK
  <2>2. state[p] # "EMPTY" => p \in process_list
    BY DEF IInv, LifeInv
  <2>3. p \in process_list => p < next_pid
    BY DEF IInv, LifeInv
  <2>4. Life[p] = IF p >= next_pid \/ (p \in process_list /\ state[p] = "EMPTY") THEN "unborn"
                  ELSE IF p \notin process_list THEN "gone"
                  ELSE IF state[p] = "ZOMBIE" THEN "zombie" ELSE "alive"
    BY DEF Life
  <2> QED BY <2>1, <2>2, <2>3, <2>4 DEF Gone
<1>3. ASSUME NEW p \in Pid
      PROVE  Parent[p] = IF state[p] = "EMPTY" THEN 0 ELSE ppid[p]
  BY <1>2 DEF Parent
<1> QED BY <1>1, <1>2, <1>3 DEF LifeValues

LEMMA LifeNext == IInv' => LifeValues'
BY LifeNow, PTL

LEMMA LifeStays ==
    ASSUME IInv, IInv',
           \A q \in Pid : /\ state'[q] = "EMPTY" <=> state[q] = "EMPTY"
                          /\ state'[q] = "ZOMBIE" <=> state[q] = "ZOMBIE",
           \A q \in Pid : (Gone(q)' <=> Gone(q)),
           \A q \in Pid : state[q] # "EMPTY" => ppid'[q] = ppid[q]
    PROVE  Life' = Life /\ Parent' = Parent
<1>1. \A q \in Pid : Life'[q] = Life[q] /\ Parent'[q] = Parent[q]
  BY LifeNow, LifeNext DEF LifeValues
<1>2. /\ Life = [q \in Pid |-> Life[q]] /\ Parent = [q \in Pid |-> Parent[q]]
      /\ Life' = [q \in Pid |-> Life'[q]] /\ Parent' = [q \in Pid |-> Parent'[q]]
  BY DEF Life, Parent
<1> QED BY <1>1, <1>2

LEMMA InitTreeSpec == Init => Tree!Init
<1> SUFFICES ASSUME Init PROVE Tree!Init
  OBVIOUS
<1>1. IInv
  BY InitInv
<1>2. \A p \in Pid : state[p] = IF p = IDLE THEN "RUNNING" ELSE "EMPTY"
  BY DEF Init, SchedInit
<1>3. \A p \in Pid : ~Gone(p) \/ p = IDLE
  BY IdlePid DEF Gone, Init, IDLE
<1>4. \A p \in Pid : ppid[p] = 0
  BY DEF Init
<1>5. \A p \in Pid : /\ Life[p] = IF p = IDLE THEN "alive" ELSE "unborn"
                     /\ Parent[p] = 0
  BY <1>1, <1>2, <1>3, <1>4, LifeNow DEF LifeValues
<1>6. /\ Life = [p \in Pid |-> IF p = IDLE THEN "alive" ELSE "unborn"]
      /\ Parent = [p \in Pid |-> 0]
  <2>1. Life = [q \in Pid |-> Life[q]] /\ Parent = [q \in Pid |-> Parent[q]]
    BY DEF Life, Parent
  <2> QED BY <1>5, <2>1
<1>7. current_proc = 0
  BY DEF Init, SchedInit, IDLE
<1> QED BY <1>6, <1>7 DEF Tree!Init, Tree!Pid, Tree!ROOT, Pid, IDLE

\* Whoever gets the CPU is alive.
LEMMA SwitchTree ==
    ASSUME IInv, IInv'
    PROVE  Tree!Scheduled
<1>1. current_proc' \in Pid /\ state'[current_proc'] = "RUNNING"
  BY DEF IInv, TypeOK, SchedTypeOK, SchedInv
<1>2. Life'[current_proc'] = "alive"
  BY <1>1, LifeNext DEF LifeValues
<1> QED BY <1>1, <1>2 DEF Tree!Scheduled, Tree!Pid, Pid

LEMMA ExitTree ==
    ASSUME TreeInv, TreeInv', NEW p \in Pid, ExitHandOff(p) \/ ExitZombie(p)
    PROVE  Tree!Exit
<1>i. /\ IInv /\ IInv' /\ IDLE \in Pid /\ INIT \in Pid /\ IDLE = 0 /\ INIT = 1
      /\ ppid \in [Pid -> Pid]
  BY IdlePid DEF TreeInv, IDLE, INIT, IInv, TypeOK
<1>l. LifeValues /\ LifeValues'
  BY <1>i, LifeNow, LifeNext
<1>1. Exits(p)
  BY DEF ExitHandOff, ExitZombie
<1>2. /\ p = current_proc /\ p # IDLE /\ pc[p] \in {"user", "init_exit"}
      /\ state[p] = "RUNNING" /\ p \in process_list
      /\ \A c \in Pid : ppid'[c] = IF c \in process_list /\ ppid[c] = p THEN INIT ELSE ppid[c]
      /\ next_pid' = next_pid /\ process_list' = process_list
  BY <1>i, <1>1, ExitsFacts
<1>3. /\ state'[p] = "ZOMBIE"
      /\ \A q \in Pid \ {p} : \/ state'[q] = state[q]
                              \/ /\ state[q] \notin {"EMPTY", "ZOMBIE"}
                                 /\ state'[q] \notin {"EMPTY", "ZOMBIE"}
  <2>1. CASE ExitHandOff(p)
    <3>1. PICK w \in Waiters :
            /\ w \in Pid /\ w # p /\ state'[p] = "ZOMBIE" /\ state'[w] = "RUNNING"
            /\ \A q \in Pid \ {p, w} : state'[q] = state[q]
      BY <1>i, <2>1, ExitHandOffEffect
    <3>2. state[w] = "BLOCKED"
      BY <1>i, <3>1 DEF IInv, SleepInv
    <3> QED BY <3>1, <3>2
  <2>2. CASE ExitZombie(p)
    BY <1>i, <2>2, ExitZombieEffect DEF Moves, Same, Awake
  <2> QED BY <2>1, <2>2
<1>4. \A q \in Pid : Gone(q)' <=> Gone(q)
  BY <1>2 DEF Gone
<1>5. \A q \in Pid : Life'[q] = IF q = p THEN "zombie" ELSE Life[q]
  BY <1>3, <1>4, <1>l DEF LifeValues
<1>6. Life' = [Life EXCEPT ![p] = "zombie"]
  <2>1. Life' = [q \in Pid |-> Life'[q]] /\ Life = [q \in Pid |-> Life[q]]
    BY DEF Life
  <2> QED BY <1>5, <2>1
<1>7. \A q \in Pid : Tree!Exists(q) <=> state[q] # "EMPTY"
  BY <1>l DEF LifeValues, Tree!Exists
<1>8. ASSUME NEW q \in Pid
      PROVE  Parent'[q] = IF Tree!Exists(q) /\ Parent[q] = p THEN INIT ELSE Parent[q]
  <2>1. CASE state[q] = "EMPTY"
    <3>1. state'[q] = "EMPTY"
      BY <1>2, <1>3, <2>1
    <3> QED BY <1>7, <2>1, <3>1, <1>l DEF LifeValues
  <2>2. CASE state[q] # "EMPTY"
    <3>1. state'[q] # "EMPTY" /\ q \in process_list
      BY <1>2, <1>3, <2>2, <1>i DEF IInv, LifeInv
    <3> QED BY <1>2, <1>7, <2>2, <3>1, <1>l DEF LifeValues
  <2> QED BY <2>1, <2>2
<1>9. Parent' = [q \in Pid |-> IF Tree!Exists(q) /\ Parent[q] = p THEN INIT ELSE Parent[q]]
  <2>1. Parent' = [q \in Pid |-> Parent'[q]]
    BY DEF Parent
  <2> QED BY <1>8, <2>1
<1>10. p = INIT => \A q \in Pid \ {IDLE, INIT} : ~Tree!Exists(q)
  <2>1. SUFFICES ASSUME p = INIT PROVE \A q \in Pid \ {IDLE, INIT} : ~Tree!Exists(q)
    OBVIOUS
  <2>2. process_list = {IDLE, INIT}
    BY <1>2, <2>1 DEF TreeInv, ShutdownInv
  <2> QED BY <1>7, <1>i, <2>2 DEF IInv, LifeInv
<1>11. Tree!Scheduled
  BY <1>i, SwitchTree
<1> QED BY <1>2, <1>6, <1>9, <1>10, <1>11, <1>i
        DEF Tree!Exit, Tree!ROOT, Tree!INIT, Tree!Pid, Pid

LEMMA ReapTree ==
    ASSUME TreeInv, TreeInv', NEW p \in Pid, Reap(p)
    PROVE  Tree!Reap(found_process[p]) /\ found_process[p] \in Pid
<1>i. /\ IInv /\ IInv' /\ ppid \in [Pid -> Pid]
  BY DEF TreeInv, IInv, TypeOK
<1>l. LifeValues /\ LifeValues'
  BY <1>i, LifeNow, LifeNext
<1>1. PICK z \in Pid : z = found_process[p] /\ state[z] = "ZOMBIE" /\ Moves(z, "EMPTY")
  BY <1>i, ReapEffect
<1>2. ppid[z] = p /\ z < next_pid /\ z \in process_list
  <2>1. Holds(p, z)
    BY <1>1 DEF Holds
  <2> QED BY <1>1, <1>i, <2>1 DEF IInv, ZombieInv, LifeInv
<1>3. /\ p = current_proc /\ next_pid' = next_pid /\ process_list' = process_list \ {z}
      /\ ppid' = [ppid EXCEPT ![z] = 0] /\ current_proc' = current_proc
  BY <1>1 DEF Reap, process_destroy, On
<1>4. Gone(z)' /\ \A q \in Pid \ {z} : (Gone(q)' <=> Gone(q))
  BY <1>2, <1>3 DEF Gone
<1>5. /\ state'[z] = "EMPTY"
      /\ \A q \in Pid \ {z} : /\ state'[q] = "EMPTY" <=> state[q] = "EMPTY"
                              /\ state'[q] = "ZOMBIE" <=> state[q] = "ZOMBIE"
  BY <1>1 DEF Moves, Same, Awake
<1>6. \A q \in Pid : Life'[q] = IF q = z THEN "gone" ELSE Life[q]
  BY <1>4, <1>5, <1>l DEF LifeValues
<1>7. \A q \in Pid \ {z} : ppid'[q] = ppid[q]
  BY <1>3, <1>i
<1>8. \A q \in Pid : Parent'[q] = IF q = z THEN 0 ELSE Parent[q]
  BY <1>5, <1>7, <1>l DEF LifeValues
<1>9. Life' = [Life EXCEPT ![z] = "gone"] /\ Parent' = [Parent EXCEPT ![z] = 0]
  <2>1. /\ Life' = [q \in Pid |-> Life'[q]] /\ Life = [q \in Pid |-> Life[q]]
        /\ Parent' = [q \in Pid |-> Parent'[q]] /\ Parent = [q \in Pid |-> Parent[q]]
    BY DEF Life, Parent
  <2> QED BY <1>6, <1>8, <2>1
<1>10. Life[z] = "zombie" /\ Parent[z] = current_proc
  BY <1>1, <1>2, <1>3, <1>l DEF LifeValues
<1> QED BY <1>1, <1>3, <1>9, <1>10 DEF Tree!Reap, Tree!ROOT

LEMMA ForkTree ==
    ASSUME TreeInv, TreeInv', NEW p \in Pid, ForkReady(p)
    PROVE  Tree!Fork(child_proc[p]) /\ child_proc[p] \in Pid
<1> DEFINE c == child_proc[p]
<1>i. /\ IInv /\ IInv' /\ Pid \subseteq Nat /\ IDLE = 0 /\ INIT = 1
  BY IdlePid DEF TreeInv, IDLE, INIT
<1>l. LifeValues /\ LifeValues'
  BY <1>i, LifeNow, LifeNext
<1>1. c \in Pid /\ state[c] = "EMPTY" /\ Moves(c, "READY")
  BY <1>i, ForkReadyEffect
<1>2. ppid[c] = p /\ c \in process_list /\ p < c
  <2>1. pc[p] = "fork_ready"
    BY DEF ForkReady, On
  <2> QED BY <1>1, <1>i, <2>1 DEF IInv, ChildInv
<1>3. /\ p = current_proc /\ UNCHANGED <<next_pid, process_list, ppid, current_proc>>
  BY DEF ForkReady, process_ready, tableVars, On
<1>4. p = IDLE <=> c = INIT
  BY <1>1, <1>2, <1>i DEF TreeInv, ParentInv
<1> HIDE DEF c
<1>5. \A q \in Pid : Gone(q)' <=> Gone(q)
  BY <1>3 DEF Gone
<1>6. /\ state'[c] = "READY"
      /\ \A q \in Pid \ {c} : /\ state'[q] = "EMPTY" <=> state[q] = "EMPTY"
                              /\ state'[q] = "ZOMBIE" <=> state[q] = "ZOMBIE"
  BY <1>1 DEF Moves, Same, Awake
<1>7. \A q \in Pid : Life'[q] = IF q = c THEN "alive" ELSE Life[q]
  BY <1>5, <1>6, <1>l DEF LifeValues
<1>8. \A q \in Pid : Parent'[q] = IF q = c THEN p ELSE Parent[q]
  BY <1>2, <1>3, <1>6, <1>l DEF LifeValues
<1>9. Life' = [Life EXCEPT ![c] = "alive"] /\ Parent' = [Parent EXCEPT ![c] = p]
  <2>1. /\ Life' = [q \in Pid |-> Life'[q]] /\ Life = [q \in Pid |-> Life[q]]
        /\ Parent' = [q \in Pid |-> Parent'[q]] /\ Parent = [q \in Pid |-> Parent[q]]
    BY DEF Life, Parent
  <2> QED BY <1>7, <1>8, <2>1
<1>10. Life[c] = "unborn"
  BY <1>1, <1>2, <1>l DEF LifeValues, Gone
<1> QED BY <1>1, <1>3, <1>4, <1>9, <1>10, <1>i DEF Tree!Fork, Tree!ROOT, Tree!INIT, c

LEMMA WasteTree ==
    ASSUME TreeInv, TreeInv', NEW p \in Pid, ForkCloneFails(p)
    PROVE  Tree!Waste(child_proc[p]) /\ child_proc[p] \in Pid
<1>i. IInv /\ IInv' /\ ppid \in [Pid -> Pid]
  BY DEF TreeInv, IInv, TypeOK
<1>l. LifeValues /\ LifeValues'
  BY <1>i, LifeNow, LifeNext
<1>1. PICK c \in Pid : c = child_proc[p] /\ state[c] = "EMPTY" /\ state' = state
  BY <1>i, ForkCloneFailsEffect
<1>2. c \in process_list /\ c < next_pid
  BY <1>1, <1>i DEF IInv, ChildInv, LifeInv
<1>3. /\ next_pid' = next_pid /\ process_list' = process_list \ {c}
      /\ ppid' = [ppid EXCEPT ![c] = 0] /\ current_proc' = current_proc
  BY <1>1 DEF ForkCloneFails, process_destroy, On
<1>4. Gone(c)' /\ \A q \in Pid \ {c} : (Gone(q)' <=> Gone(q))
  BY <1>2, <1>3 DEF Gone
<1>5. \A q \in Pid : Life'[q] = IF q = c THEN "gone" ELSE Life[q]
  BY <1>1, <1>4, <1>l DEF LifeValues
<1>6. \A q \in Pid : Parent'[q] = Parent[q]
  <2>1. \A q \in Pid \ {c} : ppid'[q] = ppid[q]
    BY <1>3, <1>i
  <2> QED BY <1>1, <2>1, <1>l DEF LifeValues
<1>7. Life' = [Life EXCEPT ![c] = "gone"] /\ Parent' = Parent
  <2>1. /\ Life' = [q \in Pid |-> Life'[q]] /\ Life = [q \in Pid |-> Life[q]]
        /\ Parent' = [q \in Pid |-> Parent'[q]] /\ Parent = [q \in Pid |-> Parent[q]]
    BY DEF Life, Parent
  <2> QED BY <1>5, <1>6, <2>1
<1>8. Life[c] = "unborn"
  BY <1>1, <1>2, <1>l DEF LifeValues, Gone
<1> QED BY <1>1, <1>3, <1>7, <1>8 DEF Tree!Waste

\* The other steps change neither who lives nor who is whose parent.
LEMMA StutterTree ==
    ASSUME TreeInv, TreeInv', NEW p \in Pid, Step(p),
           ~ForkReady(p), ~ForkCloneFails(p), ~Reap(p), ~ExitHandOff(p), ~ExitZombie(p)
    PROVE  Life' = Life /\ Parent' = Parent
<1>i. IInv /\ IInv'
  BY DEF TreeInv
<1>t. next_pid \in Nat /\ Pid \subseteq Nat
  BY <1>i, IdlePid DEF IInv, TypeOK
<1>1. \A q \in Pid : /\ state'[q] = "EMPTY" <=> state[q] = "EMPTY"
                     /\ state'[q] = "ZOMBIE" <=> state[q] = "ZOMBIE"
  BY <1>i, StepCases, ClassStays
<1>2. \A q \in Pid : state[q] # "EMPTY" => ppid'[q] = ppid[q]
  BY <1>i, ParentStays
<1>3. ASSUME NEW q \in Pid PROVE Gone(q)' <=> Gone(q)
  <2>1. CASE ForkLink(p)
    <3>1. next_pid' = next_pid + 1 /\ process_list' = process_list \cup {next_pid}
      BY <2>1 DEF ForkLink, NewPid
    <3> QED BY <1>t, <3>1 DEF Gone
  <2>2. CASE ~ForkLink(p)
    <3>1. UNCHANGED <<next_pid, process_list>>
      BY <2>2
         DEF Step, ForkAlloc, ForkNoMemory, ForkPpid, ForkClone, DmaUnlock, SysIo, Critical,
             DmaLock, DmaBlock, WaitWoken, WaitFound, WaitHang, WaitReturn, Exit, tableVars
    <3> QED BY <3>1 DEF Gone
  <2> QED BY <2>1, <2>2
<1> QED BY <1>i, <1>1, <1>2, <1>3, LifeStays

LEMMA StepTreeSpec ==
    ASSUME TreeInv, TreeInv', [Next]_vars
    PROVE  [Tree!Next]_(Tree!vars)
<1>i. IInv /\ IInv'
  BY DEF TreeInv
<1>d. \A q : q \in Tree!Pid <=> q \in Pid
  BY DEF Tree!Pid, Pid
<1>p. ASSUME NEW p \in Pid, Step(p) PROVE [Tree!Next]_(Tree!vars)
  <2>1. CASE ForkReady(p)
    BY <2>1, <1>d, ForkTree DEF Tree!Next
  <2>2. CASE ForkCloneFails(p)
    BY <2>2, <1>d, WasteTree DEF Tree!Next
  <2>3. CASE Reap(p)
    BY <2>3, <1>d, ReapTree DEF Tree!Next
  <2>4. CASE ExitHandOff(p) \/ ExitZombie(p)
    BY <2>4, ExitTree DEF Tree!Next
  <2>5. CASE ~ForkReady(p) /\ ~ForkCloneFails(p) /\ ~Reap(p) /\ ~ExitHandOff(p) /\ ~ExitZombie(p)
    BY <1>i, <1>p, <2>5, StutterTree, SwitchTree DEF Tree!Next, Tree!Switch
  <2> QED BY <2>1, <2>2, <2>3, <2>4, <2>5
<1>k. CASE Tick
  <2>1. /\ UNCHANGED <<next_pid, process_list, ppid>>
        /\ \A q \in Pid : \/ state'[q] = state[q]
                          \/ state[q] \in Awake /\ state'[q] \in Awake
    BY <1>k, TickEffect DEF Tick, tableVars, TreeInv, IInv, TypeOK
  <2>2. Life' = Life /\ Parent' = Parent
    BY <1>i, <2>1, LifeStays DEF Gone, Awake
  <2> QED BY <1>i, <2>2, SwitchTree DEF Tree!Next, Tree!Switch
<1>u. CASE UNCHANGED vars
  BY <1>u DEF vars, schedVars, tableVars, Life, Parent, Tree!vars
<1> QED BY <1>p, <1>k, <1>u DEF Next, Rest

\* process.c implements the tree of processes, for every number of them: forks,
\* exits and reaps take effect at once, orphans go to init, a zombie is reaped
\* once and by its parent, and a process that exited never has the CPU again.
THEOREM ImplementsTree == Spec => TreeSpec
<1>1. Init => Tree!Init
  BY InitTreeSpec
<1>2. TreeInv /\ TreeInv' /\ [Next]_vars => [Tree!Next]_(Tree!vars)
  BY StepTreeSpec
<1> QED BY <1>1, <1>2, TreeInvariance, PTL DEF Spec, TreeSpec, Tree!Spec
=============================================================================
