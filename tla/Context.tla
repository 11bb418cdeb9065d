------------------------------- MODULE Context -------------------------------
(***************************************************************************)
(* The processor under the kernel: interrupts (interrupt.s), the entry and *)
(* exit of system calls (syscall.s), process_switch and fork (process.c),  *)
(* at the grain of the instructions that change the stack pointer, the     *)
(* address map or the interrupt enable flag.                               *)
(*                                                                         *)
(* CBAR selects the map: USER shows the process's block from 0x1000 up,    *)
(* KERNEL the kernel's data, and either shows the top page of the block    *)
(* that CBR selects.  So the kernel's stack, the interrupt stack and the   *)
(* words syscall_sp, interrupt_sp and interrupt_cbar, which are there, are *)
(* each process's own.  A stack is a sequence of frames, each a return     *)
(* address and a word; the memory beyond the stack pointer is dead.        *)
(***************************************************************************)
EXTENDS Scheduler

CONSTANT Word   \* what a program computes with

ASSUME WordAssumption == Word \subseteq Nat /\ 0 \in Word

VARIABLES
    pc, a, sp,      \* the registers: a is any that a program may use
    cbar, cbr, iff, \* address map, block of the top page, interrupts enabled
    memory,         \* the page block of every process
    saved_sp,       \* field sp of struct process
    next_pid,
    trap_bit,       \* the bit TRAP of register ITC
    sources         \* the devices' own interrupt enable bits, the timer's among them

cpuVars == <<pc, a, sp, cbar, cbr, iff>>
trapVars == <<trap_bit, sources>>
kernelVars == <<next_pid, trapVars>>
vars == <<schedVars, cpuVars, memory, saved_sp, kernelVars>>

Value == Word \cup Pid
Area  == {"user", "kernel", "interrupt", "trap"}
SP    == Area \X Nat
Reset == <<"kernel", 0>>     \* kernel_stack_tail

\* Places where the interrupts are disabled: an interrupt about to return, a
\* system call that was switched out, a new process.
IntOff == {"interrupt_leave", "blocked", "reentry"}
InUser == {"user", "syscall", "entry", "map", "leave_sp", "leave_ret", "reset", "trap"}
InKernel == {"boot", "main", "kernel", "copied", "forked", "leave",
             "trap_clear", "trap_disable", "trap_exit"}
InStart == {"cold_start"}   \* the end of the model
Label == IntOff \cup InUser \cup InKernel \cup InStart

\* A frame returns to a place, or its word is no address.
Frame == [ret : Label \cup {"none", "lost", "child_pid", "panic"}, val : Value]

TypeOK ==
    /\ SchedTypeOK
    /\ pc \in Label /\ a \in Value /\ sp \in SP
    /\ cbar \in {"USER", "KERNEL"} /\ cbr \in Pid /\ iff \in BOOLEAN
    /\ \A p \in Pid :
          /\ \A s \in Area : memory[p][s] \in Seq(Frame)
          /\ memory[p].syscall_sp \in SP /\ memory[p].interrupt_sp \in SP
          /\ memory[p].interrupt_cbar \in {"USER", "KERNEL"}
    /\ saved_sp \in [Pid -> SP]
    /\ next_pid \in 1 .. MaxPid + 1
    /\ trap_bit \in BOOLEAN /\ sources \in BOOLEAN

NoBlock == [user |-> <<>>, kernel |-> <<>>, interrupt |-> <<>>, trap |-> <<>>,
            syscall_sp |-> Reset, interrupt_sp |-> Reset, interrupt_cbar |-> "KERNEL"]

\* The boot code calls sys_fork, on the kernel's stack of process IDLE.
Init ==
    /\ SchedInit
    /\ pc = "boot" /\ a = 0 /\ sp = Reset
    /\ cbar = "KERNEL" /\ cbr = IDLE /\ iff = TRUE
    /\ memory = [p \in Pid |-> NoBlock]
    /\ saved_sp = [p \in Pid |-> Reset]
    /\ next_pid = 1
    /\ trap_bit = FALSE /\ sources = TRUE

-----------------------------------------------------------------------------
(* Stacks.                                                                  *)

Here == memory[cbr]                 \* the block of which the CPU sees the top page
Store(m) == memory' = [memory EXCEPT ![cbr] = m]

Of(ret, val) == [ret |-> ret, val |-> val]
Down(s) == <<s[1], s[2] + 1>>
Up(s)   == <<s[1], s[2] - 1>>
Live(m, s) == SubSeq(m[s[1]], 1, s[2])
Push(m, s, frame) == [m EXCEPT ![s[1]] = Append(Live(m, s), frame)]
Pop(m, s) == [m EXCEPT ![s[1]] = Live(m, Up(s))]
Top(m, s) == IF s[2] \in DOMAIN m[s[1]] THEN m[s[1]][s[2]] ELSE Of("lost", 0)

At(label) == pc = label /\ ~panicked
Goto(label) == pc' = label

\* Return to the address on the top of the stack, which pops it.
Ret(m, s) ==
    /\ Goto(Top(m, s).ret)
    /\ sp' = Up(s)
    /\ Store(Pop(m, s))

-----------------------------------------------------------------------------
(* Interrupts.  interrupt_enter goes to the process's own interrupt stack   *)
(* and to the kernel's map; what a handler finds there is the frame it      *)
(* returns to interrupt_leave with.                                         *)

InterruptStack == <<"interrupt", 0>>

Interruptible == iff /\ ~panicked /\ pc # "cold_start"

\* Mutant: the address map is not saved.
interrupt_enter_no_cbar(m) ==
    [Push(m, sp, Of(pc, a)) EXCEPT !.interrupt_sp = Down(sp)]

\* The registers go on the stack the interrupt found, whichever it is.
interrupt_enter(m) ==
    [Push(m, sp, Of(pc, a)) EXCEPT !.interrupt_sp = Down(sp), !.interrupt_cbar = cbar]

(***************************************************************************)
(* process_switch with stack s of block m, once the scheduler has chosen   *)
(* current_proc': the process it leaves goes on at label, with the word    *)
(* val on its stack, when it is next switched to.  Interrupts are off.     *)
(***************************************************************************)
process_switch_from(m, s, label, val) ==
    /\ Store(Push(m, s, Of(label, val)))
    /\ saved_sp' = [saved_sp EXCEPT ![current_proc] = Down(s)]
    /\ cbr' = current_proc'
    /\ sp' = saved_sp'[current_proc']
    /\ pc' = Top(memory'[cbr'], sp').ret
    /\ a' = 0 /\ iff' = FALSE /\ cbar' = "KERNEL"

\* The timer's interrupt: process_tick switches, on the interrupt stack.
int_prt0 ==
    /\ Interruptible /\ sources
    /\ process_tick
    /\ process_switch_from(interrupt_enter(Here), InterruptStack, "interrupt_leave", 0)
    /\ UNCHANGED kernelVars

\* Any other interrupt: its handler returns.
int_device ==
    /\ Interruptible
    /\ Store(Push(interrupt_enter(Here), InterruptStack, Of("interrupt_leave", 0)))
    /\ sp' = Down(InterruptStack)
    /\ Goto("interrupt_leave")
    /\ a' = 0 /\ iff' = FALSE /\ cbar' = "KERNEL"
    /\ UNCHANGED <<schedVars, cbr, saved_sp, kernelVars>>

\* What the interrupt saved is dead once it is restored, and forgotten.
Restored(m) ==
    [m EXCEPT !.interrupt = <<>>, !.interrupt_sp = Reset, !.interrupt_cbar = "KERNEL"]

\* The map, the stack and the registers as the interrupt found them; ei, reti.
interrupt_leave ==
    /\ At("interrupt_leave")
    /\ a' = Top(Here, Here.interrupt_sp).val
    /\ Ret(Restored(Here), Here.interrupt_sp)
    /\ cbar' = Here.interrupt_cbar
    /\ iff' = TRUE
    /\ UNCHANGED <<schedVars, cbr, saved_sp, kernelVars>>

-----------------------------------------------------------------------------
(* A program, and the way into the kernel and out of it (syscall.s).        *)

\* Everything but the registers, the stack and the map stays.
Kept == UNCHANGED <<schedVars, cbr, iff, saved_sp, kernelVars>>

Compute ==
    /\ At("user")
    /\ \E w \in Word :
          \/ a' = w /\ UNCHANGED memory
          \/ Store([Here EXCEPT !.user[1].val = w]) /\ UNCHANGED a
    /\ UNCHANGED <<pc, sp, cbar>> /\ Kept

\* The argument and the return address are pushed.
Call ==
    /\ At("user")
    /\ Store(Push(Here, sp, Of("user", a)))
    /\ sp' = Down(sp) /\ Goto("syscall") /\ a' = 0
    /\ UNCHANGED cbar /\ Kept

\* ld (_syscall_sp), sp
syscall_save ==
    /\ At("syscall")
    /\ Store([Here EXCEPT !.syscall_sp = sp])
    /\ Goto("entry")
    /\ UNCHANGED <<a, sp, cbar>> /\ Kept

\* The argument is copied, with the user's map, and SP goes to the copy.
syscall_stack ==
    /\ At("entry")
    /\ Store(Push(Here, Reset, Of("leave", Top(Here, Here.syscall_sp).val)))
    /\ sp' = Down(Reset) /\ Goto("map")
    /\ UNCHANGED <<a, cbar>> /\ Kept

\* The kernel's map, and a jump to the system call.
syscall_map ==
    /\ At("map")
    /\ cbar' = "KERNEL" /\ Goto("kernel")
    /\ UNCHANGED <<a, sp, memory>> /\ Kept

\* The system call returns its argument, as far as a program can tell.
Return ==
    /\ At("kernel")
    /\ a' = Top(Here, sp).val
    /\ Ret(Here, sp)
    /\ UNCHANGED cbar /\ Kept

\* _syscall_leave, an instruction at a time: CBAR, SP, ret.
leave_map ==
    /\ At("leave")
    /\ cbar' = "USER" /\ Goto("leave_sp")
    /\ UNCHANGED <<a, sp, memory>> /\ Kept

leave_stack ==
    /\ At("leave_sp")
    /\ sp' = Here.syscall_sp /\ Goto("leave_ret")
    /\ UNCHANGED <<a, cbar, memory>> /\ Kept

leave_ret == At("leave_ret") /\ Ret(Here, sp) /\ UNCHANGED <<a, cbar>> /\ Kept

-----------------------------------------------------------------------------
(* System calls that switch, and those that make and replace processes.     *)

\* Mutant: cpu_get_int_state after di.
int_state_late == 0

\* cpu_get_int_state, before di.
int_state == IF iff THEN 1 ELSE 0

\* The critical section of a system call that has to wait.
Block ==
    /\ At("kernel")
    /\ process_block
    /\ process_switch_from(Here, sp, "blocked", int_state)
    /\ UNCHANGED kernelVars

\* Switched to again: cpu_set_int_state, with what was kept on the stack.
Resume ==
    /\ At("blocked")
    /\ iff' = (Top(Here, sp).val = 1)
    /\ Store(Pop(Here, sp)) /\ sp' = Up(sp) /\ Goto("kernel")
    /\ UNCHANGED <<schedVars, a, cbar, cbr, saved_sp, kernelVars>>

Wake(q) ==
    /\ At("kernel")
    /\ state[q] = "BLOCKED"
    /\ process_ready(q)
    /\ UNCHANGED <<cpuVars, memory, saved_sp, kernelVars>>

(***************************************************************************)
(* sys_fork up to the copy: child_pid and parent_pid are kept on the stack *)
(* with the return address, and the whole block is copied.  Interrupts are *)
(* enabled then, and until sys_fork_helper disables them.                  *)
(***************************************************************************)
sys_fork ==
    /\ pc \in {"kernel", "boot"} /\ ~panicked
    /\ next_pid <= MaxPid
    /\ next_pid' = next_pid + 1
    /\ LET base == IF pc = "boot" THEN Push(Here, sp, Of("main", 0)) ELSE Here
           from == IF pc = "boot" THEN Down(sp) ELSE sp
           m == Push(Push(base, from, Of("child_pid", next_pid)), Down(from),
                     Of("forked", current_proc))
       IN /\ memory' = [memory EXCEPT ![cbr] = m, ![next_pid] = m]
          /\ sp' = Down(Down(from))
    /\ Goto("copied")
    /\ UNCHANGED <<schedVars, a, cbar, cbr, iff, saved_sp, trapVars>>

\* A local of sys_fork, below the address it returns to.
child_pid == Top(Here, Up(sp)).val

(***************************************************************************)
(* sys_fork_helper, all of it with interrupts disabled: on the child's     *)
(* copy of the stack, seen through CBR, go the frames that process_switch  *)
(* returns to sys_fork_child_reentry with.                                 *)
(***************************************************************************)
sys_fork_helper ==
    /\ At("copied")
    /\ memory' = [memory EXCEPT ![child_pid] = Push(@, sp, Of("reentry", 0))]
    /\ Goto("forked")
    /\ UNCHANGED <<schedVars, a, sp, cbar, cbr, iff, saved_sp, kernelVars>>

\* Mutant: interrupts stay as the switch left them.
ei_forgotten == iff

\* Interrupts are enabled.
ei == TRUE

\* sys_fork_child_reentry, where a new process starts: ei, ret.
sys_fork_child_reentry ==
    /\ At("reentry")
    /\ iff' = ei
    /\ Store(Pop(Here, sp)) /\ sp' = Up(sp) /\ Goto("forked")
    /\ UNCHANGED <<schedVars, a, cbar, cbr, saved_sp, kernelVars>>

\* Both go on here, and know which they are by the pid that forked.  First both
\* store what the helper returned as the child's stack pointer; the child, to
\* which the helper returned nothing, does so while it runs and the field is dead.
fork_result ==
    /\ At("forked")
    /\ LET parent_pid == Top(Here, sp).val
           caller     == Up(Up(sp))
       IN /\ IF current_proc = parent_pid
             THEN /\ saved_sp' = [saved_sp EXCEPT ![child_pid] = Down(sp)]
                  /\ a' = child_pid /\ process_ready(child_pid)
             ELSE /\ saved_sp' = [saved_sp EXCEPT ![child_pid] = Reset]
                  /\ a' = 0 /\ UNCHANGED schedVars
          /\ Ret(Here, caller)
    /\ UNCHANGED <<cbar, cbr, iff, kernelVars>>

\* sys_execve: the new program's stack, with its argument and its start.
Loaded(m, w) ==
    [m EXCEPT !.user = <<Of("none", w), Of("user", 0)>>, !.syscall_sp = <<"user", 2>>]

sys_execve ==
    /\ At("kernel")
    /\ a' = 0
    /\ Ret(Loaded(Here, Top(Here, sp).val), sp)
    /\ UNCHANGED cbar /\ Kept

\* The child of the boot code runs the first program and leaves the kernel.
main_execve ==
    /\ At("main") /\ current_proc # IDLE
    /\ \E w \in Word : Store(Loaded(Here, w))
    /\ Goto("leave") /\ a' = 0
    /\ UNCHANGED <<sp, cbar>> /\ Kept

\* The process is left for ever, for one that waits for it or the next one.
sys_exit ==
    /\ At("kernel") \/ At("trap_exit")
    /\ LET ended == [state EXCEPT ![current_proc] = "ZOMBIE"] IN
       \/ process_schedule(process_ready_list, ended)
       \/ \E q \in Pid : state[q] = "BLOCKED" /\ process_switch(q, process_ready_list, ended)
    /\ process_switch_from(Here, sp, "panic", 0)
    /\ UNCHANGED kernelVars

-----------------------------------------------------------------------------
(***************************************************************************)
(* An opcode that is not defined, in a program.  The CPU sets TRAP, pushes *)
(* its address and goes to address 0, where a reset starts too: the start- *)
(* up code tells the two apart by the bit (start.s).  Interrupts are as    *)
(* they were.  The stack of trap() is in the process's own top page.       *)
(***************************************************************************)
undefined_opcode ==
    /\ At("user")
    /\ trap_bit' = TRUE
    /\ Store(Push(Here, sp, Of("user", 0))) /\ sp' = Down(sp)
    /\ Goto("reset") /\ a' = 0
    /\ UNCHANGED <<schedVars, cbar, cbr, iff, saved_sp, next_pid, sources>>

\* The trap of another process may have cleared the bit in between: this one
\* is then taken for a reset, and the system starts over.
reset ==
    /\ At("reset")
    /\ Goto(IF trap_bit THEN "trap" ELSE "cold_start")
    /\ UNCHANGED <<a, sp, cbar, memory>> /\ Kept

\* The address is popped, SP goes to the trap stack, CBAR to the kernel's map.
trap_enter ==
    /\ At("trap")
    /\ Store([Pop(Here, sp) EXCEPT !.trap = <<Of("lost", 0)>>]) /\ sp' = <<"trap", 1>>
    /\ cbar' = "KERNEL" /\ Goto("trap_clear")
    /\ UNCHANGED a /\ Kept

\* trap() of main.c: ITC, then disable_all_interrupts, then sys_exit.
trap_clear ==
    /\ At("trap_clear")
    /\ trap_bit' = FALSE /\ Goto("trap_disable")
    /\ UNCHANGED <<schedVars, a, sp, cbar, cbr, iff, memory, saved_sp, next_pid, sources>>

\* Nothing enables the timer again.
disable_all_interrupts ==
    /\ At("trap_disable")
    /\ sources' = FALSE /\ Goto("trap_exit")
    /\ UNCHANGED <<schedVars, a, sp, cbar, cbr, iff, memory, saved_sp, next_pid, trap_bit>>

Next ==
    \/ int_prt0 \/ int_device \/ interrupt_leave
    \/ Compute \/ Call \/ syscall_save \/ syscall_stack \/ syscall_map \/ Return
    \/ leave_map \/ leave_stack \/ leave_ret
    \/ Block \/ Resume \/ (\E q \in Pid : Wake(q))
    \/ sys_fork \/ sys_fork_helper \/ sys_fork_child_reentry \/ fork_result
    \/ sys_execve \/ main_execve \/ sys_exit
    \/ undefined_opcode \/ reset \/ trap_enter \/ trap_clear \/ disable_all_interrupts

Spec == Init /\ [][Next]_vars

(***************************************************************************)
(* The processor does not stop, and the timer's interrupts keep coming:    *)
(* one that finds interrupts disabled is taken when they are enabled.      *)
(***************************************************************************)
WithoutInterrupts == interrupt_leave \/ Resume \/ sys_fork_child_reentry

FairSpec == Spec /\ WF_vars(WithoutInterrupts) /\ SF_vars(int_prt0)

-----------------------------------------------------------------------------
(***************************************************************************)
(* The machine of a process that the kernel and the interrupts hide: the   *)
(* registers and the stack it will see when its program next runs.         *)
(***************************************************************************)

\* The CPU as it is for the current process and will be for another.
Cpu(p) ==
    IF p = current_proc
    THEN [pc |-> pc, a |-> a, sp |-> sp, cbar |-> cbar, m |-> Here]
    ELSE [pc |-> Top(memory[p], saved_sp[p]).ret, a |-> 0, sp |-> saved_sp[p],
          cbar |-> "KERNEL", m |-> memory[p]]

\* After the instructions that run with interrupts disabled.
Settled(c) ==
    CASE c.pc = "interrupt_leave" ->
           LET s == c.m.interrupt_sp IN
           [c EXCEPT !.pc = Top(c.m, s).ret, !.a = Top(c.m, s).val, !.sp = Up(s),
                     !.cbar = c.m.interrupt_cbar]
      [] c.pc = "blocked" -> [c EXCEPT !.pc = "kernel", !.sp = Up(@)]
      [] c.pc = "reentry" -> [c EXCEPT !.pc = "forked", !.sp = Up(@)]
      [] OTHER -> c

Machine(label, word, stack) == [at |-> label, a |-> word, stack |-> stack]

\* The system call a process is in was made by its program, or by main().
InBoot(c) == c.pc = "boot" \/ Top(c.m, Down(Reset)).ret = "main"
Faulted(stack) == Machine("fault", 0, stack)
Before(c) == IF InBoot(c) THEN Machine("boot", 0, <<>>)
                          ELSE Machine("call", 0, Live(c.m, c.m.syscall_sp))
After(c)  == Machine("user", c.a, Live(c.m, Up(c.m.syscall_sp)))

\* The machine of p when it is at c.
SeenAt(p, c) ==
    LET on(map, area, labels) == c.cbar = map /\ c.sp[1] = area /\ c.pc \in labels
    IN CASE on("USER", "user", {"user"}) -> Machine("user", c.a, Live(c.m, c.sp))
         [] on("USER", "user", {"syscall", "entry"}) -> Machine("call", 0, Live(c.m, c.sp))
         [] on("USER", "kernel", {"map"}) -> Before(c)
         [] on("KERNEL", "kernel", {"boot", "kernel", "copied"}) -> Before(c)
         [] on("KERNEL", "kernel", {"forked"}) ->
              IF Top(c.m, c.sp).val = p THEN Before(c)
              ELSE IF InBoot(c) THEN Machine("init", 0, <<>>) ELSE After(c)
         [] on("KERNEL", "kernel", {"main"}) ->
              Machine(IF p = IDLE THEN "main" ELSE "init", 0, <<>>)
         [] \/ on("KERNEL", "kernel", {"leave"})
            \/ on("USER", "kernel", {"leave_sp"})
            \/ on("USER", "user", {"leave_ret"}) -> After(c)
         [] on("USER", "user", {"reset", "trap", "cold_start"}) -> Faulted(Live(c.m, Up(c.sp)))
         [] on("KERNEL", "trap", {"trap_clear", "trap_disable", "trap_exit"}) ->
              Faulted(c.m.user)
         [] OTHER -> Machine("lost", 0, <<>>)

MachineOf(p) ==
    IF state[p] \in {"EMPTY", "ZOMBIE"} THEN Machine("none", 0, <<>>)
                                        ELSE SeenAt(p, Settled(Cpu(p)))

Own == INSTANCE OwnMachine
       WITH Process <- Pid, Idle <- IDLE, machine <- [p \in Pid |-> MachineOf(p)]

-----------------------------------------------------------------------------
(* Properties.                                                              *)

(***************************************************************************)
(* Interrupts, switches and the entry and exit of system calls are not     *)
(* seen by a program: each process is a machine of its own, and a fork     *)
(* makes a second one that differs in the result alone (process.c:302      *)
(* fears for the steps between the copy and the helper).                   *)
(***************************************************************************)
OwnMachineSpec == Own!Spec

(***************************************************************************)
(* The interrupt enable flag, which no switch saves, is right wherever the *)
(* CPU goes on: off in a critical section that was switched out, on in     *)
(* every program, new ones included.  The block that CBR selects is the    *)
(* current process's.  The stack of a program is in use when its map is.   *)
(***************************************************************************)
FlagFollowsPlace ==
    /\ TypeOK
    /\ iff <=> pc \notin IntOff
    /\ cbr = current_proc
    /\ sp[1] = "user" => cbar = "USER"

(***************************************************************************)
(* A process that is ready runs in the end: no way out of an interrupt, of *)
(* a switch or of a fork leaves the timer's interrupt disabled for good.   *)
(* The one exception is the trap of a program (disable_all_interrupts).    *)
(***************************************************************************)
ReadyRuns == \A p \in Pid \ {IDLE} :
    (state[p] = "READY") ~> (current_proc = p \/ ~sources \/ pc = "cold_start")
=============================================================================
