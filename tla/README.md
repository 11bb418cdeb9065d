# A TLA+ verification of ZOSys

ZOSys is a small Unix-like operating system in C for a Z180 (a Z80 with an MMU, two serial ports, two
timers and two DMA channels). There is one CPU. Each process owns a block of 16 pages (64 KiB) that holds
its program, its data and the stack its system calls run on; the kernel's variables exist once, for all.
This directory holds TLA+ modules that model the kernel's own logic, the configurations that check them with
TLC, and proofs checked by TLAPS. Paths below are relative to the root of the repository.

`PROJECT.json` beside this file names, for each definition, the lines of code it stands for, for each run its
configuration and properties, and for each property a *mutant*: an operator (its comment begins with
"Mutant:") that changes one definition the way a plausible bug would, and breaks that property.

    tlc -workers 2 -config MCProcess.cfg MCProcess      # a run
    tlapm ProcessProofs.tla                             # the proofs about a module

## 1. The system

### 1.1 Components, their state and their operations

| component | code | state it keeps | operations |
|---|---|---|---|
| process scheduler | `src/process.c:140-215`, `src/prt.c` | `current_proc`, `process_ready_list`, `state` of each process | `process_switch`, `process_schedule`, `process_tick` |
| process system calls | `src/process.c:97-129, 280-436` | `process_list`, `process_zombie_list`, `process_wait_list`, `next_pid`; `ppid`, `cbr`, `wait_pid`, `wait_process`, `status` | `process_new`, `process_destroy`, `sys_fork`, `sys_waitpid`, `sys_exit` |
| execve | `src/process.c:435-589`, `src/mem.c:220-268` | the program and stack of the caller, three buffers of the kernel during the call | `sys_execve`; `mem_user_strlen`, `mem_user_vector_len` |
| mutex | `src/mutex.c` | `locked`, `blocked_list` | init, lock, trylock, unlock |
| semaphore | `src/semaphore.c` | `count`, `blocked_list` | init, wait, trywait, signal |
| block buffers | `src/block_buf.c` | `available_512`, `free_512[]` | `block_512_alloc`, `_tryalloc`, `_free` |
| DMA channel | `src/dma.c` | `dma_0_mtx`, the registers of channel 0 | `dma_memcpy` |
| page blocks, copies | `src/mem.c` | `page_usage_map` | `mem_alloc_page_block`, `mem_free_page_block`, copies to and from users |
| files and descriptors | `src/file.c` | `open_files[]`, `cwd` of each process; `ref_count` of `struct open_file` and `struct file` | open, close, dup2, pipe, chdir, fchdir, ioctl, readdirent, read, write, lseek, clone, unref |
| circular buffer | `src/circular_buffer.c` | `head`, `tail`, `size`, `buffer` | put, get, is_full, space_left |
| serial ports | `src/dev_asci.c` | two circular buffers per port, the registers of the ASCI | getc, putc, read, write, `int_asci0`, `int_asci1` |
| SD card | `src/dev_sd.c` | the card, ready or not; a block buffer during a call | `dev_sd_init`; `sd_read`, `sd_write`, each a sequence of `sd_read_single_block`, `sd_write_single_block` |
| flash, serial memory | `src/dev_flash.c`, `dev_sermem.c` | the chip, the instance's mutex | `flash_read`, `flash_write`, `flash_ioctl`; `sermem_read`, `sermem_write` |
| devices, VFS, file systems | `src/device.c`, `vfs.c`, `fs_dev.c`, `fs_initrd.c` | tables filled at boot, with one reference to each file | lookups that hand out references |
| spinlock | `src/spinlock.c` | one byte | lock, unlock; nothing calls it |
| timer, SPI, latches, clock | `src/prt.c`, `spi.c`, `io_system.c`, `ds1302.c` | registers and their shadows | start, transfer, set, get |
| console, panic | `src/kio.c`, `src/panic.c` | none | polled output; `panic()` stops the machine |
| boot, idle loop, traps | `src/main.c` | none | initialises the modules, forks init, waits for it, returns; `trap` |
| entry code | `src/start.s`, `interrupt.s`, `syscall.s` | in the top page of each process: `syscall_sp`, `interrupt_sp`, `interrupt_cbar` and the stacks of the kernel and of interrupts; registers SP, CBAR, CBR, ITC | enters handlers with interrupts off, system calls with interrupts on, and leaves both; tells a trap from a reset |
| init, shell, utilities, C library | `init/`, `sh/`, `ls/`, `dd/`, `ioctl/`, `clib/` | program data | init: one fork, then waitpid until there is no child, then exit |

(All `src/...` of this table are below `src/` of the repository, so `src/process.c` is `src/src/process.c`
seen from here.)

### 1.2 How they interact

* A program's system call runs in the kernel **as the calling process, with interrupts enabled**. The timer
  interrupt calls `process_tick`, which switches to another process, so system calls of different processes
  interleave at any instruction that is not between `intrinsic_di` and `cpu_set_int_state` or in a
  `__critical` function.
* Processes meet in the lists of the scheduler (all of them linked through one field of `struct process`), in
  `page_usage_map`, in the DMA channel, which every copy between two processes uses, in the buffers of
  `block_buf.c`, and in `struct file`.
* `sys_fork` takes a page block, clones the descriptors and copies 64 KiB with the DMA channel: three places
  to fail or to be interrupted. `sys_waitpid` and `sys_exit` hand a dead child over: through
  `process_zombie_list` when nobody waits, and directly, by `wait_process` and a process switch, when the
  parent does.
* Interrupt handlers of the serial ports and the processes share circular buffers; the processes disable
  interrupts while they touch them.
* An interrupt and a system call save the stack pointer and the address map of what they interrupt in words of the top
  page of the process's block, where the kernel's stack is too; `process_switch` changes pages by changing CBR. Which
  stack and which words an instruction means therefore depends on two registers that change at different times.

### 1.3 What is hard, and what makes each component correct

* **Scheduler.** Every live process is on the one list its state says, or is the one that runs; the ready list
  is never empty when its head is taken; nobody waits for ever for the CPU.
* **fork/waitpid/exit.** No zombie is lost or reaped twice, no page block leaks or has two owners, no process is
  left with a dead parent, no waiter sleeps beside the zombie it waits for, and the machine halts only when
  everything is reaped, and does halt if the programs end.
* **Mutex, semaphore, block buffers.** Exclusion although a woken process competes with newcomers; no lost
  wakeup; a permit always finds a buffer although the scan is interrupted.
* **Entry code, process switch.** Wherever interrupts and switches fall, between the two instructions that change
  stack and map as well, each program finds its registers and its stack again, the child of a fork starts where its
  parent was, and interrupts are enabled again.
* **execve.** A failure gives back what was taken and leaves the caller as it was; a success finds its arguments, although
  they are laid over the strings they are copied from.
* **Files.** The two levels of reference counts are exact, across dup2, fork, exit and a fork that fails.
* **Read, write.** A call goes in pieces through a buffer; any piece may fail or come up short. The bytes arrive in
  order and inside the caller's memory, the position agrees with the count, and the call returns.
* **SD card, flash.** Two processes use one device. A small write to the card reads, changes and writes a block; a
  byte programmed into the flash is a command of four accesses. Neither may be undone or broken by another process. A card is used only after
  it has said that it is ready, and boot does not wait for ever for one that never is.
* **Circular buffer, serial ports.** A bounded queue; no byte lost, doubled or overtaken between process and
  handler; the transmitter does not stall; RTS stops the other side in time and lets it go on.

`PROJECT.json` lists under `hazards` each place of the code where one of these could go wrong.

## 2. The modules

| module | models | uses |
|---|---|---|
| `Scheduler` | lists, `process_switch`, `process_schedule`, `process_tick`, mutex values | |
| `Process` | fork, waitpid, exit, page blocks, DMA channel, idle loop, init, arbitrary programs | extends `Scheduler` |
| `ProcessTree` | abstract: what programs may expect of fork, waitpid and exit | `Process` implements it |
| `BlockBuf` | semaphore and pool of buffers | extends `Scheduler` |
| `CircularBuffer` | the functions of `circular_buffer.c` | |
| `RingBuffer`, `BoundedFifo` | one buffer in use; abstract: a bounded queue | `RingBuffer` implements `BoundedFifo` |
| `Asci` | both serial ports: processes, handlers, hardware | extends `CircularBuffer` |
| `Files` | descriptors, open files, files, working directories | |
| `ReadWrite` | read, write and lseek of one open file, piece by piece | |
| `Execve` | execve: vectors, point of no return, loading of the image | extends `ReadWrite`, whose `sys_read` loads the image |
| `Context` | registers, stacks and maps under interrupts, system calls, switches, fork and traps | extends `Scheduler` |
| `OwnMachine` | abstract: each process has a machine of its own | `Context` implements it |
| `SdCard` | initialisation of the SD card, then reads and writes by several processes | |
| `Flash` | reads, writes and erasures of the flash under two nested mutexes | extends `Scheduler` |
| `SchedulerProofs` | lemmas about lists of processes and the operators of `Scheduler` | extends `Scheduler` |
| `ProcessProofs` | theorems about `Process`: lists, states and waits first, then blocks, parents and `ProcessTree` | extends `Process`, `SchedulerProofs` |
| `BlockBufProofs`, `FlashProofs` | theorems about `BlockBuf` and `Flash` | extend them and `SchedulerProofs` |
| `FileProofs` | theorems about `ReadWrite`, `Execve` and `Files` | extends `Execve`, `Files` |
| `SdCardProofs` | theorems about `SdCard` | extends it |
| `BufferProofs` | theorems about the circular buffer, `RingBuffer` and `Asci` | extends `RingBuffer`, `Asci` |
| `ContextProofs` | theorems about `Context` and its refinement of `OwnMachine` | extends `Context`, `SchedulerProofs` |
| `MC...` | instances for TLC | |

### 2.1 Grain of atomicity

A section with interrupts disabled is one step: on one CPU nothing can be in between. Code with interrupts
enabled is divided wherever another process could tell: a separate step for each access to a shared list, map,
mutex or field, and for each byte between process and handler. What only one process sees (its stack, its
descriptor table, its `child_proc`) is folded into the neighbouring step.

`process_schedule()` in the middle of a critical section ends the step: the process goes to a label of the set
`IntOff` and, when it is switched to again, goes on there with interrupts still disabled. Therefore `Tick` is
not enabled at these labels (`Process!IntOff`, label `"wait"` in `BlockBuf`). A process has no more control
state than the label `pc` and the few locals that survive a step.

`Context` is the other grain: there the instructions that change SP, CBAR, CBR or the interrupt enable flag are steps,
and a whole critical section of `Process` is one. It shows that the switch which the other modules take for granted,
by which a process goes on exactly where it was, is what the code does.

### 2.2 Scheduler and Process

`process_schedule(ready, st)` takes the ready list and the states that its caller left; it moves process IDLE
behind the others as `process.c:188-191` does, panics on an empty list, and otherwise switches. `process_tick`,
`process_block` (mutex, semaphore, waitpid) and `process_wake_front` (unlock, signal) are its callers.

| code | actions |
|---|---|
| `sys_fork`, `process_new` | `ForkAlloc` / `ForkNoMemory` (malloc and page block), `ForkLink` (pid and list), `ForkPpid`, `ForkClone` / `ForkCloneFails`, the DMA copy, `ForkReady` |
| `dma_memcpy` with its mutex | `DmaLock`, `DmaBlock` (sleep; again after being woken), `DmaUnlock`; `after` is where the caller goes on |
| `sys_waitpid` | `WaitFound` (a zombie is taken off the list), `WaitHang` (sleep), `WaitWoken`, `WaitReturn` (0 or -1), the copy of the status, `Reap` |
| `sys_exit` | `ExitHandOff` (a waiter: switch to it), `ExitZombie` |
| other system calls | `SysIo`: what matters here is that they use the DMA channel |
| `int_prt0` | `Tick` |
| `main()` after boot, `init` | labels `boot`, `idle`; `init`, `init_wait`, `init_exit` |

Every other process runs an arbitrary program: any sequence of these calls with any arguments. The states of a
process structure that has been freed are put back to their initial values so that a stale reference shows.
The order in which the other processes are visited is the code's: the first zombie that matches is the one
found, the lowest page block that is free is the one taken. `ExitHandOff` takes any place of the wait list that
matches, which is the first one, because a process sleeps at most once there (`QueueDiscipline`).

The invariants and the questions behind them are commented in the module. `ProcessTree` is the promise to
programs: a tree that grows by fork, whose orphans go to init, from which a zombie disappears when its parent,
and nobody else, reaps it, and in which only living processes get the CPU. The refinement maps a process that is linked but not yet ready to "unborn"; a fork that fails after
`ForkLink` uses a pid up (`Waste`).

### 2.3 BlockBuf

The processes of `Sleepers` call `block_512_alloc`, the others `block_512_tryalloc`; all give their buffer back
with `block_512_free`. In the source `dev_sd.c` calls `block_512_alloc` and `BLOCK_512_COUNT` is 1; the scan over
several mutexes is modelled one mutex at a time. `Woken` is the `while` of `semaphore_wait` after
`process_schedule` returns.

`semaphore_wait` decrements once and then sleeps **while** the count is negative. The count also counts the
other sleepers, so with a buffer free and two processes asleep, the woken one sees -1 and sleeps again, and
nobody is left to signal. The module states exactly how far this goes: `StrandedOnlyTogether` (all asleep
with all buffers free takes more sleepers than buffers) and `SleeperGetsBlock` (who sleeps alone gets a buffer, unless
another process falls asleep beside it). No comment or document of the repository says otherwise, so it is not listed as a finding; a caller
with two processes on the SD card is exposed to it.

### 2.4 CircularBuffer, RingBuffer, BoundedFifo

The four functions as operators from a record to a record and a result. `contents(b)` is the abstraction
function: the cells from head to tail. `RingBuffer` is a buffer on which put and get are called in any order;
it implements `BoundedFifo` with capacity `Size - 1`.

### 2.5 Asci

`asci_putc` and `asci_getc` are a turn of the loop of `asci_write` and `asci_read` in which the buffer has room
(holds a byte): a turn that finds nothing to do changes nothing. `int_asci(p)` is one call of the handler, which
serves reception and transmission as the status register says at entry. `ShiftOut` and `ShiftIn` are the
hardware and the device at the other end, which sends up to `Slack` bytes more after RTS says stop. The two
handlers differ in one test, and the model keeps the difference: `NothingToSend`.

### 2.6 Files

| code | actions |
|---|---|
| `sys_open`, `sys_close`, `sys_pipe` | `sys_open`, `sys_close`, `sys_pipe` |
| `sys_dup2` | `Dup2` (free target), `Dup2Closes` |
| `sys_chdir`, `sys_fchdir` | `sys_chdir`, `sys_fchdir` |
| `file_ioctl`, `file_readdirent` | `IoctlOrReaddirent` |
| `sys_fork`, `process_clone_files`, `file_open_file_clone` | `ForkBegin`, `CloneFd` / `CloneFails`, `ForkEnd` |
| `sys_exit` | `ExitBegin`, `ExitFd` for each descriptor, `ExitEnd` |

One directory stands for the roots of the mounted file systems and one special file for the devices and for
plain files, which differ only in the data behind them. The reference counts of these start at 1, the table's
own reference.

### 2.7 ReadWrite

`sys_read` and `sys_write` (the checks), `ReadPiece` and `WritePiece` (a turn of the loop: `file_read` and the copy,
or the copy and `file_write`), `Return`; `Refused` is a buffer that a check rejects, `sys_lseek` moves the position.
One process and one open file: a call shares nothing with others but the file's `pos`, which only
descriptors of `dup2` share, and the data of the file. The driver behind the file is what it may return:
`fs_initrd_read`, `asci_read`, `pipe_read` and the others are the sets of results for a piece of `inc_count` bytes.

Bytes have no values: memory holds the position in the file of the byte stored there, and `taken` the addresses
whose bytes the file took. `DmaCount` is the byte count register of the DMA channel, for which zero is 65536. A
zero count comes up only when a read returns nothing and no error, which a pipe does and the other types do not.
What such a transfer copies behind the piece is `Junk`; it reaches into the memory behind the caller's page block,
so `Physical` has twice the addresses of a process. `result` is `done_count` as a `ssize_t` (`Signed`): calls that
move half of the address space or more return a negative count, which `FailureMovesNothing` excepts.

### 2.8 Execve

A cell of the user's memory is known by where its content comes from: `<<"old", a>>` is what the caller had at `a`,
`<<"char", a>>` a copy of it, `<<"pointer", a>>` and `<<"count", n>>` what execve stores, `<<"image", n>>` a byte of the
file. A pointer takes one cell like a character. The process of the module either makes the calls of `ReadWrite`, or one
call of execve (`exec = "none"` or not), so that the image is loaded by `ReadWrite`'s own `sys_read`, `ReadPiece` and
`Return`, short reads, errors and the error of 32 KiB and more included.

| code (`process.c`) | actions |
|---|---|
| 443-449, the lengths of both vectors | `BadVector`; `mem_user_vector_len`, `mem_user_strlen` |
| 451-511, copies of the vectors and their strings' lengths | `AllocArgv`, `BadArgvString`, `AllocEnvp`, `BadEnvpString`, `AllocVectors`: each may fail and gives back what was taken before |
| 513-570, tables and strings, the copy to the caller's stack | `CopyVectors`; `vectors_buffer`, `Table`, `Pushed` |
| 572-589, open, read, close, the new stack pointer | `Open` / `CannotOpen`, `Load`, the steps of `ReadWrite`, `Enter` |

`CannotOpen` goes to `"destroyed"`: the call returns -1 to a program whose stack is overwritten. `FailedExecveUndone` states
exactly that: every other failure is undone. `named` records whether the name of the file was still in memory when
`sys_open` read it; it lies in the caller's memory, over whose end the vectors have been copied by then. An instance gives the
calls (`Calls`), where the caller has NUL characters (`Nul`) and how much `malloc` can give (`HEAP`). Calls whose sizes
overflow 16 bits, which a TODO of the code names, are left out, and an image that reaches up to the new stack, which the code
does not check, is a precondition of `ArgumentsArrive`.

### 2.9 SdCard

`dev_sd_init` runs at boot, before there are processes; a command and its answer are one step of it: `GoIdle`, `IfCond`,
`App`, `OpCond`, `Check`, `Ocr`, `Register`. The card is external. Four kinds may be in the slot: none, which never answers; one of
version 1, which does not know CMD8; one of standard and one of high capacity. Any answer may be an error of the
transmission, and a card may need any number of attempts to get ready. What the driver ignores is modelled as ignored: the
result of the initialisation (`Register` makes the device exist in any case), and the answers to reads and writes. A card
of high capacity takes block numbers where the driver sends byte addresses (`Addressed`).

`Call` and `Return`; `SmallPiece` (a buffer of `block_512_alloc`) and `WholePiece` (the caller's memory); `BeginRead`
to `EndRead` is `sd_read_single_block` between assertion and deassertion of CS, and the like for a write; `Free` gives
the buffer back. The pool of buffers is what `BlockBuf` shows of it: at most `BLOCK_512_COUNT` holders.

Nothing locks the card. `spi_mtx` exists and `dev_sd_init` takes it, but `sd_read` and `sd_write` do not. What
keeps the small pieces of two processes apart is that the source has one buffer, which a process holds from before
the block is read until after it is written: `SmallAccessesExclude` and `DiskIsRight` rest on that, and would fail
with two. A piece that is a whole block takes no buffer. When an access overlaps another one (`mixed`), each of them
may do nothing and go on as if it had succeeded, since response and token are not looked at. The blocks on which a
whole-block access overlapped are `raced`, and the properties about data except them, and cards that are not ready or
take block numbers; that a command which mixes with another addresses a third block, or that data of both mix, is not
modelled.

### 2.10 Flash

`Lock`, `LockBlocks` and `Unlock` are the instance's mutex; `DmaLock`, `DmaBlocks` and `DmaUnlock` the channel's, taken
again for each byte. `Send` is a byte of a command, `Poll` a turn of `sst39sfxxxa_wait`, `Read` the transfer of
`flash_read`; `Copy` is any other use of the channel. The chip is external: `ChipSees` decodes commands, ignores what
it sees while busy, and `ChipDone` ends an operation after any time. A byte of the chip is the set of calls that
programmed it since it was erased (programming can only clear bits). The ioctl that erases a sector does not compare
the number with the chip's size; such a request sends its last byte elsewhere and leaves the chip in the middle of a
command. `FlashAssumption` keeps to sectors that exist.

### 2.11 Context, OwnMachine

The state is what the processor sees: `pc`, `sp`, one register `a` for all that a program may use, CBAR (`"USER"` or
`"KERNEL"`), CBR (the block whose top page is mapped), the interrupt enable flag `iff`; and the memory of each block: the stack
of its program, its kernel, interrupt and trap stacks, and the words `syscall_sp`, `interrupt_sp` and `interrupt_cbar`. A stack
is a sequence of frames (a return address and a word) below a stack pointer that counts them; what lies beyond the stack
pointer is dead, and is forgotten where it is known to be (`Restored`), to keep the states few.

| code | actions |
|---|---|
| `interrupt.s`: `int_prt0`, entry and exit of all handlers | `int_prt0` (the tick, always a switch), `int_device` (any handler that returns), `interrupt_leave` |
| `syscall.s`: `_syscall` | `Call` (the program), `syscall_save`, `syscall_stack`, `syscall_map` |
| `syscall.s`: `_syscall_leave` | `Return` (the kernel's function), `leave_map`, `leave_stack`, `leave_ret` |
| `process.c:139-215`, `mutex.c`: a critical section that sleeps | `Block`, `Resume`, `Wake`; `process_switch_from` |
| `process.c:232-316`: `sys_fork`, `sys_fork_helper`, `sys_fork_child_reentry` | `sys_fork` (to the end of the copy), `sys_fork_helper`, `fork_result`, `sys_fork_child_reentry` |
| the end of `sys_execve`; `main.c:75-90` | `sys_execve`, `main_execve` |
| `sys_exit` | `sys_exit` |
| `start.s:16-30`, `interrupt.s:108-124`, `trap` of `main.c` | `undefined_opcode`, `reset`, `trap_enter`, `trap_clear`, `disable_all_interrupts` |

An interrupt that comes before `sys_fork_helper` has run is what the comment at `process.c:302` fears; in the model it may come
at each label. `fork_result` keeps what the code does twice: the child goes through the same code and stores a stack pointer
of its own in the field that the parent stored, where it is dead until the next switch writes it.

`trap_bit` is the bit by which `start.s` tells the trap of an undefined opcode from a reset. Both run with interrupts as they
were, so a second process may trap before the first has been recognised, and have its bit cleared: it goes to `cold_start`,
where the model ends.

`OwnMachine` is what a program may expect: a machine (register and stack) that changes by its own instructions, and by the
results of its own calls. `MachineOf` maps a state of `Context` to it: `Cpu(p)` is the processor as it is for the current
process, or will be when process `p` is switched to; `Settled` runs what is left with interrupts disabled. A label that meets
a wrong map or a wrong stack maps to the machine `"lost"`, which `OwnMachine` does not have.

## 3. The runs

| run | states | what it shows |
|---|---|---|
| `MCProcess` | 45406 | safety of `Process`, `NoOvertaking`, refinement of `ProcessTree`; deadlock is checked |
| `MCProcessExit` | 5872 | `HaltsInTheEnd`: nobody is left asleep, also when forks fail for lack of memory |
| `MCBlockBuf` | 8059 | exclusion, panic not reached, accounting, stranding bounded, who sleeps alone gets a buffer; deadlock is checked: process IDLE can always run |
| `MCRingBuffer` | 2376 | `space_left` and `is_full`, refinement of `BoundedFifo` |
| `MCAsci` | 11256 | port 0: both directions and RTS, `AllSent` |
| `MCAsciPort1` | violation | port 1 loses zero bytes |
| `MCFiles` | 24193 | exact counts and no leak, but for the reference that a failed fork loses; `cwd` is a directory |
| `MCReadWrite` | 174886 | order, bounds, count and position of reads and writes, and that they return; execve: failures undone, arguments in place |
| `MCReadWritePipe` | violation | a read from an empty pipe overwrites memory behind the buffer |
| `MCSdCard` | 836265 | the initialisation succeeds only with a card that is ready, and ends; exclusion of small pieces, contents of the card and what readers get |
| `MCFlash` | 926234 | whole commands, finished operations, reads of finished writes only, and calls that return although two mutexes nest |
| `MCContext` | 68149 | refinement of `OwnMachine`; flag, map and stack agree wherever the processor goes on; a ready process runs, but for the trap |

`TypeOK` is checked on its own in `MCProcess`. In the other modules it is the first conjunct of the invariant that
rests on it most: `PermitFindsBlock`, `RxNothingLost`, `OpenFilesCounted`, `FailureMovesNothing`, `ReadIsRight`,
`CommandsWhole`, `FlagFollowsPlace`. That of `RingBuffer` is proved. Other invariants that belong together are checked as
one: `WaitersWillWake` (`WaiterHasChild`, `NoMissedZombie`), `PermitFindsBlock` (with `PermitAccounting`), `RxNothingLost`
(with `RtsTracksSpace`), `NoFileLeaks` (with `CwdIsDirectory`), `BytesInOrder` (`ReadInOrder`, `WriteInOrder`) and
`ReadIsRight` (with `PieceFits`).

### 3.1 Bounds

* `MaxPid = 4`, `MaxBlock = 4` (`MCProcess`): the idle process, init, and three more. That is enough for a
  parent that forks while its child forks, exits or waits, for orphans of orphans, for two waiters with
  zombies of both, for three processes asleep on the DMA mutex with one that overtakes, and for blocks that are
  taken again by another owner. Each mutant, which needs such a scenario, is found in this instance. `PidsLeft`
  keeps the bound: a fork starts only if there is a pid for it and for those under way. Pids are 16 bits with a sign in
  the code and wrap; see section 6.
* `MaxBlock = 3` in `MCProcessExit`: one block less than processes besides IDLE, so that a fork finds no block
  (`ForkNoMemory`) while init and two programs hold theirs. One of these two can orphan the other.
* `BLOCK_512_COUNT = 2` with three sleepers and one trier: fewer buffers than processes, more sleepers than
  buffers, and a scan that can be overtaken behind and before. The source has one buffer (`BLOCK_512_COUNT` is 1), for
  which the scan is trivial.
* `Size = 4`, three byte values: all positions of head and tail, and the buffer full. The proof covers the rest.
* `MCAsci`: arrays of 5 and 3 cells, watermark 3 and two late bytes keep the relations of the source (a
  watermark smaller than the buffer and larger than what a sender still sends). Four bytes written, six
  arriving: each buffer wraps around and fills up. `Byte = {0, 1}`: zero is the value that matters.
* `MCFiles`: two processes of two descriptors, one pipe, one directory, one device: a descriptor replaced by
  another of the same process, and the two ends of a pipe in two processes. Four open files are enough, since a
  process has at most two; they are interchangeable (symmetry; the runs with it check invariants only).
* `MCReadWrite`: a unit of the model is about 4 KiB, so that the user's part `0x1000 .. 0xF000` is `1 .. 13` of 14
  addresses; the user buffer has 3, so that a call takes up to four pieces and the last one may be short. Every buffer
  and count of the 14 is tried. `FileSize = 6` ends within a piece, and `MaxPos = 14` lets a second call start anywhere.
  For execve the caller has strings of one character and of none, a string without an end, and one at the end of its
  memory, where the new stack goes; vectors of none, one and two strings; a name that the vectors are copied over and one
  that they are not. `HEAP = 8` is too little for the largest of these. All combinations are tried.
* `MCSdCard`: two blocks of three bytes, so that a block has a first, a middle and a last byte; the requests are within
  a block, over the boundary, a whole block, and a part and a whole. One buffer, as in the source. `MaxCalls = 3`
  gives one process a second call while the other is in its first. All four kinds of slot; `INIT_ATTEMPTS = 2` (100 in
  the source) lets each attempt fail in each way, and the first fail and the second succeed.
* `MCFlash`: two sectors of one byte; a write over their boundary that would go on over the end of the chip, an
  erasure, a read of both, another use of the channel. Three processes and three calls: two may sleep on a mutex while
  the third is in it. The erasure of the whole chip, which differs in the last byte of its command, is in the module
  but not in this instance.
* `MCContext`: `MaxPid = 2` is the idle process, init and a child, which is enough for a fork from the boot code, whose
  stack has no program below it, and one from a program, with the third process running in between. `Word = {0, 1}`: two
  values of a register or a stack word, so that one that is lost or taken from another process shows.

`CHECK_DEADLOCK FALSE` is set where the system modelled really may stop: `SdCard` (boot waits for ever for an empty slot, and
after `MaxCalls` calls nothing more happens), `Asci` (the bytes written and arriving are bounded), `Files` (all processes may
have exited), `MCReadWrite` (the process makes one execve) and `Context` (after `cold_start`). In `Process` the halt of the
machine is the step `Rest`, and deadlock is checked.

### 3.2 Fairness

* `SF(Tick)`: the timer keeps its interrupt pending until it is taken; interrupts are enabled again and again.
  Strong, since a process that sleeps and wakes within critical sections disables it for a while.
* `WF(Critical(p))`: a section with interrupts disabled runs on; nothing else can run.
* `ProgramFairness` (`MCProcessExit` only) is a statement about programs: each one gets on with its call when it
  has the CPU, exits in the end, and init reaches its fork (`init/src/main.c`). The property is that then
  the kernel leaves nobody behind.
* `BlockBuf`: `SF(Tick)` as above and `SF(Step(p))`: a process that has the CPU again and again executes its
  instructions, also if each time slice is interrupted.
* `Asci`: `WF` of the handler (a request stays until it is served) and of the transmitter. No fairness of the
  programs or of the sender at the other end.
* `ReadWrite`, `Execve`: `WF` of the steps of a read or write, the one of execve included (`InCall`): `file_read` and
  `file_write` return what they have and do not wait.
* `SdCard`: `WF` of `dev_sd_init`: boot code runs alone and goes on when the card has answered.
* `Context`: `WF(WithoutInterrupts)`: instructions with interrupts disabled are executed; `SF(int_prt0)`: the timer's request
  stays until interrupts are enabled. Nothing is assumed of programs: they may compute for ever.
* `Flash`: `WF(Tick)`, `WF(ChipDone)` (the chip finishes by itself) and `SF` of the steps of all processes' calls taken
  together: time slices are long enough for somebody to get on, and which process that is, the scheduler decides.
  The number of calls is bounded: with new callers for ever, one that is woken might find the mutex taken each time.

## 4. Findings

1. **`src/src/dev_asci.c:219`**, run `MCAsciPort1`. `int_asci1` tests `send_byte < 1` where `int_asci0` tests
   `send_byte < 0`: a zero byte that a program writes to port 1 is dropped, and it stops the transmitter although
   bytes may follow.
2. **`src/src/file.c:382`**, run `MCReadWritePipe`. `sys_read` copies what `file_read` returned also when that is zero,
   which `pipe_read` returns for an empty pipe: `dma_memcpy` with a count of zero copies 65536 bytes, which
   `sys_fork` makes use of on purpose (`process.c:301`), over memory outside the buffer that was checked.

Other consequences of the code, met while modelling, which no run of their own shows:

* the trap of one program clears the bit by which another one's trap, taken a moment before, is told from a reset: the
  machine then starts over (`start.s:23`, section 2.11);
* the trap of a program disables the interrupts of all devices, and nothing enables them again (`main.c:107`,
  `panic.c:8`): the other processes go on without time slices, which `ReadyRuns` excepts;
* `sys_execve` can fail after the point from which the comment at `process.c:553` says that failure is not acceptable: the
  file cannot be opened (`process.c:574`), perhaps because the vectors were copied over its name. The model has the
  step `CannotOpen`, which `FailedExecveUndone` excepts. What `sys_read` returns is
  not looked at (`process.c:578`): a program may start without its image;
* an empty slot for the SD card hangs the boot (`dev_sd.c:94`), a card whose initialisation failed is registered all the
  same, and one of high capacity is addressed by bytes (section 2.9);
* `user_buffer` has half the bytes that `mem.h:9` says (`syscall.s:118-120`), and a copy that fills it, as in `file.c:327`,
  goes on behind it;
* `malloc` and `free` are called by system calls with interrupts enabled, and are not protected;
* `mem_alloc_page` numbers a page with the count of all pages where that of a block is meant (`mem.c:32, 44`); nothing
  calls it;
* a forked process's position in its files is not copied: the size copied is that of a pointer (`file.c:98`);
* sleepers for a block buffer can be stranded together (section 2.3);
* `file_ioctl` and `file_readdirent` have no case for `FILE_PIPE`, although read, write and close have one: `ioctl` or
  `readdirent` on a pipe's descriptor reaches the `panic()` of the default case (`file.c:292, 309`; action
  `IoctlOrReaddirent`);
* a failed fork keeps its reference to the working directory (`process.c:292-298`); the model counts these references
  in `lost`, and `NoFileLeaks` says that they are the only ones;
* whole blocks on the SD card are not protected (section 2.9);
* an erasure of a sector that the flash does not have (section 2.10).

## 5. The proofs

All theorems hold for every value of the constants that satisfies the modules' assumptions, which say what a constant is
and no more: `MaxPidAssumption` (there is at least one pid besides IDLE's), `BlockAssumption` and `NullAssumption` (a model
value distinct from pids and blocks) for `Process`; `BlockBufAssumption` (at least one buffer); `RingAssumption` (a buffer has
at least one cell, bytes are natural numbers), `AsciAssumption` (the same of both buffers, a watermark of RTS between 1 and the capacity
of the receive buffer, a sender that is less late than the watermark) and `WordAssumption` (words are natural numbers, 0 among them); `ReadWriteAssumption` (the user's part of the address
space lies within it, the user buffer is smaller than half of it, as a signed count needs) and `ExecveAssumption` (vectors
end at a null pointer, arguments and environment are two, and what `malloc` can give at most fits into the user's part with four words to spare); `FilesAssumption` (finitely many processes and open files, at least one
descriptor, a directory that is not the device) and `NullIsNoFile`; `FlashAssumption` (a chip of whole sectors, requests of the types of the
calls, erasures of sectors that exist); `SdAssumption` (finitely many processes, blocks of at least one byte, requests that
lie on the card) and `OneBuffer` (`BLOCK_512_COUNT = 1`, as `block_buf.c:7` has it). Each proof rests on an inductive invariant, which TLC checked on the run's instance
before it was proved. A proof has a lemma for each action, or for each part of the invariant with a case for each action.

| module | theorem | states, for all values of the constants |
|---|---|---|
| `ProcessProofs` | `TypeCorrect`, `DmaMutualExclusion`, `ChildrenArePrivate` | `TypeOK`, `DmaExclusive`; a child belongs to one fork until it is ready |
| | `QueuesInOrder`, `WakeupsKept` | `QueueDiscipline`, `NoLostWakeup` |
| | `ZombiesOwnedOnce`, `WaitersAreWoken` | `ZombieOwnedOnce`, `WaitersWillWake` |
| | `RoundRobin` | `NoOvertaking`, an action property |
| | `BlocksOwned`, `ShutsDownClean` | `BlockOwnedOnce`, `CleanShutdown` |
| | `ImplementsTree` | `Spec => TreeSpec`: `Process` refines `ProcessTree` |
| `BlockBufProofs` | `OneOwner`, `PermitsAreExact`, `StrandingTakesMany` | `BlockExclusive`, `PermitFindsBlock`, `StrandedOnlyTogether` |
| `FileProofs` | `ArriveInOrder`, `FailureIsHonest`, `ExecveUndoes`, `VectorsArrive` | `BytesInOrder`, `FailureMovesNothing`, `FailedExecveUndone`, `ArgumentsArrive` |
| | `StaysInBounds` | `ReadInBounds`, except while a pipe is read |
| | `OpenFilesAreCounted`, `NoFileIsLeaked` | `OpenFilesCounted`, `NoFileLeaks` |
| `FlashProofs` | `CommandsReachChip`, `CallsAreDone`, `ReadersWait` | `CommandsWhole`, `DoneWhenReturned`, `ReadsFinishedWrites` |
| `SdCardProofs` | `InitIsHonest`, `OneSmallAccess` | `SuccessMeansReady`, `SmallAccessesExclude` |
| | `WritesLast`, `ReadersGetTheirs` | `DiskIsRight`, `ReadIsRight` |
| `BufferProofs` | `SpaceLeftCorrect`, `RingImplementsFifo` | `SpaceLeftIsRight`; `RingBuffer` refines `BoundedFifo` |
| | `NothingLostOnTheWayOut` | `TxNothingLost`, unless a zero byte is written to port 1 |
| | `NothingLostOnTheWayIn` | `RxNothingLost` |
| `ContextProofs` | `FlagIsRight`, `ImplementsOwn` | `FlagFollowsPlace`; `Spec => OwnMachineSpec`: `Context` refines `OwnMachine` |

**`SchedulerProofs`.** What appending, removing and taking the front do to a list on which nothing is twice (`AppendList`,
`RemoveAtList`, `TailList`, `ConcatList`), and from these what each operator of `Scheduler` does: `TickEffect` (the timer),
`LeaveEffect` (the current process sleeps or dies), `ReadyEffect` (somebody is woken), `SwitchEffect` (a process leaves the CPU to
one that sleeps). All keep `SchedInv`: whoever is READY is on the ready list, once, and whoever is RUNNING is current. That
the ready list is not empty when its head is taken needs one more fact, that the idle process is awake and not current; each
component proves it of itself. `NotBack` says of two lists that nobody but the idle process moves back from one to the
other; it is transitive, which is how `RoundRobin` goes through the operations that change the list twice.

**`ProcessProofs`.** The invariant is

    IInv == /\ TypeOK /\ ForkHasChild /\ ChildDead /\ DmaExclusive
            /\ SchedInv /\ SleepInv /\ LifeInv /\ IdleInv /\ ChildInv /\ ZombieInv

`DmaExclusive` is not inductive alone: `ForkReady` sets the `pc` of the child as well as its own, and if the child could be in a
transfer, or be no process at all, this would end the transfer without unlocking. `ForkHasChild` says that a fork between
`process_new` and `p_list_append` has a child (also while it sleeps on the DMA mutex), and `ChildDead` that no two forks share
it and that it executes nothing yet. `QueueDiscipline` needs to know on which of two lists a sleeper is, which is what
`SleepInv` takes from the place in its system call. That the idle process is awake is `IdleInv`: it may sleep for the DMA
channel only in the fork of the boot code, and then there is nobody else who could have the channel. `LifeInv` ties the life of a
process to its place in the code, `ChildInv` to the fork that makes it, and `ZombieInv` says who holds each zombie: the
list, or a waitpid of its parent, which `found_process` or, asleep, `wait_process` names. No panic of `sys_waitpid` and of
the scheduler is reached because of `ZombieInv` and `IdleInv`. `WaitersWillWake` and `NoLostWakeup` are kept by every step from a state of
`IInv`, and are added to it at the end (`WaitStep`, `WakeupStep`).

**Blocks and the tree** (the second half of `ProcessProofs`). `TreeInv` adds three parts to `IInv`: `BlockInv` names the owner of each block, a process or a fork that is about to give it to one;
`ParentInv` says that a parent is alive and older than its child, `ShutdownInv` that init exits when it is alone with
the idle process. The step that needs an argument is `InitLeaves`: init exits when waitpid says that it has no child, and one has
to see that then there is no other process. If there were, take the least (`LastStanding`): its parent is less, alive, and neither the idle
process nor init, which contradicts the choice. `ImplementsTree` maps each step of `Process` to one of `ProcessTree` or to none:
forks take effect in `ForkReady`, exits in `ExitHandOff` and `ExitZombie`, reaping in `Reap`; `WasteTree` is a fork that
fails, `SwitchTree` every step that only moves the CPU.

**`BlockBufProofs`.** The invariant is

    BInv == TypeOK /\ SchedInv /\ PlaceInv /\ BlockExclusive /\ CountInv /\ StrandInv

`PermitFindsBlock` says that a scan which others overtake does not run off the end, and counting the permits is not enough
for that: it must be known where the permits' holders are. `AheadInv`, a part of `CountInv`, says that at most
`BLOCK_512_COUNT - k` holders are past the first `k` buffers. A process that goes on from buffer `k` does so because its
mutex is locked; its owner is another holder that is not past `k`, so there is one fewer beyond than before it. For
`k = BLOCK_512_COUNT` nobody is left to be there. `StrandInv` is the step to `StrandedOnlyTogether`: sleepers are left alone
only by a negative count, and the count is exact.

**Calls and their memory** (the first half of `FileProofs`). `RWInv` says of the loops of `sys_read` and `sys_write` that position, memory and stream agree with the
count of bytes done, at the head of the loop; `ExecInv` adds which buffers of the kernel exist at each place of `sys_execve`
(`HeapInv`), that the caller's memory is untouched up to the copying (`UserInv`), and that no read is under way outside of
loading (`FileInv`). The theorems are about `ExecveSpec`, which allows everything that `Spec` of `ReadWrite` does.
`ReadInBounds` is false of pipes, see finding 2, so `StaysInBounds` says it of every other kind of file.

`VectorsArrive` needs to know where every string of a vector ends up, which is a sum over the strings before it, and the prover
has no induction over data. What induction is needed is therefore done with sets: if a statement failed for some number, it would fail for a
least one (`LeastNumber`, from the well-foundedness of `<`), and the step from the number before contradicts that. `FlatExists`
and `FlatAgree` show in this way that the recursive function inside `FlattenSeq` exists and is unique, `FlattenStep` and
`FlattenGrows` what the first n strings contribute, and `StringPlace` reads off at which cell the k-th string starts and that
all of it is there. `Layout` is the same for the six parts of `vectors_buffer`, and `Laid` says that a memory which holds the
buffer with the three words pushed before it holds both vectors. The invariant of the steps is

    ArgInv == MeasuredInv /\ StoredInv /\ NamedInv /\ LoadedInv /\ ArgumentsArrive

together with `ExecInv`: every check that is behind the process has been passed (`MeasuredInv`); from the copying on memory is
the caller's up to the new stack pointer and the buffer from there on (`StoredInv`); the name was overwritten or it named the
file (`NamedInv`); and a byte of the file is loaded where the program expects it (`LoadedInv`, for which the file must be no pipe).

**Reference counts** (the second half of `FileProofs`). The invariant is

    FilesInv == /\ PlainTypes
                /\ CountedFds(open_files, file, open_refs) /\ CountedFiles(file, cwd, file_refs, lost)
                /\ ForkInv /\ PipesInv /\ LostInv

`CountMoves` says how many of a finite set point to something once one of them points elsewhere. On it rest the lemmas that say of any
tables and counts, not only of the variables, that they stay right when a descriptor is opened, closed or shared (`FdOpens`,
`FdCloses`, `FdShares`) and when a file or a working directory changes hands (`FileMoves`, `CwdMoves`). A call that does two of these in
one step applies two lemmas, with the state between them named: `sys_pipe` opens twice, `Dup2Closes` closes and shares.
The counts alone are not inductive. A new pipe's counts start at one, so nobody may use its files yet (`PipesInv`);
`CloneFd` stores into a descriptor of the child without looking at it, so that it must be free (`ForkInv`), or an open file would be
lost; and `CloneFails` frees everything the child has, which is right because no other process shares it. `LostInv` bounds the
references that are lost, by the processes that failed to be born.

**`FlashProofs`.** `LockInv` is about the scheduler and the two mutexes: the lists of sleepers are disjoint and everybody on them is
asleep. `CallInv` is about the calls and the chip: one process at most is past the instance's mutex, the chip is busy for the one that
polls, and has seen of a command what the one that sends has sent. The latter needs that no command is the beginning of
another one (`CommandsDiffer`, `NextByte`), so that the chip starts at the last byte and at no other. The two parts do not meet: no
step of a list changes a call, but through `mtx.locked`.

**`SdCardProofs`.** The invariant is

    SdInv == /\ Types /\ AttemptInv /\ BootInv /\ PieceInv
             /\ OneHolder /\ MixedInv /\ RaceInv
             /\ BufferInv /\ DiskIsRight /\ GotInv

A small write puts a whole block back, so that `DiskIsRight` needs to know what is in the buffer (`BufferInv`: what was last written to its
block, with the bytes of the piece in their place), and that nobody has written to the block since it was read. Against other
small writes that is `OneHolder`, and it rests on nothing but the number of buffers: with `BLOCK_512_COUNT = 2` neither
it nor the three theorems would hold, which is why `OneBuffer` is an assumption with a name. Against whole blocks there is no
lock; `RaceInv` and `MixedInv` say that such an access has marked the block as raced on before it can do harm. Where a byte
is, is division with remainder by a block size that is not known: `Places`, `Apart` and `PlaceUnique` do it once,
`Geometry` says where the piece of a request lies, and `PieceAddresses` which addresses it has. `BootInv` is for the card that becomes usable
during the initialisation, when the card must hold what it held.

**`BufferProofs`.** `PutAppends` and `GetTakesFirst` say what put and get do to
`contents`, by the arithmetic of the wrap-around (`RingArithmetic`); `EmptyIsEmpty` does the initial state. From them a buffer
of any size, over any bytes, is a bounded queue. Each direction of `Asci` has an invariant of its own, since no step of one changes a
variable of the other but `int_asci`, which does both. `TxInv` adds to `TxNothingLost` that the buffer holds only bytes that programs
wrote. Its theorem has the hypothesis `1 \notin Ports \/ 0 \notin Byte`: with a zero byte on port 1 `TxNothingLost` is false, which is
finding 1. `RxInv` needs `SpaceForLate`: since RTS was set, each byte that took space away is one of the late ones,
so that space and late bytes together stay at the watermark; that the put of `Receive` finds a free cell follows.

**`ContextProofs`.** The invariant is

    CtxInv == TypeInv /\ SchedInv /\ CpuInv /\ PlacesInv /\ ForkInv

`FlagFollowsPlace` says nothing of the processes that do not have the CPU, and it is their stacks that decide where the CPU goes on.
`PlacesInv` says it of everyone: unwinding what a process was interrupted or switched out in (`Settled`) leads to a place of
the code with the stack pointer, the map and the frames of that place (`InPlace`), the one at which it was held up
being beneath an interrupt's frame, one of `process_block` or the one that `sys_fork` prepared for a child (`HeldUp`).
`CpuInv` is the current process's share, with the registers in place of what was saved. `ForkInv` is about the copy that `sys_fork` makes of a block
while its parent stands in the middle of it. The lemmas that carry the proof are `DeadIsUnseen` (what lies beyond the stack pointer
changes neither the place nor what is seen of a process: the code leaves words there all the time), `OneMoves` (a step that
changes one process's block and leaves the others' alone is a step or a stutter of that process's machine), and `ChildStep` (the child of
a fork is seen to go on where its parent was, with 0). The lists are `SchedulerProofs`' business.

**Only model-checked.**

Liveness (`HaltsInTheEnd`, `SleeperGetsBlock`, `AllSent`, `CallsReturn`, `InitReturns`, `ReadyRuns`): the prover handles neither
fairness nor ENABLED.

## 6. Not modelled

* A pipe between two processes: `pipe_read` and `pipe_write` are loops over the functions of `CircularBuffer` with interrupts
  disabled, so that each is one step on one buffer; what they may return is in `ReadWrite`, who holds the ends in `Files`.
* The position of an open file in a forked process (`file.c:98`): it is whatever `malloc` left there.
* The wrap-around of `pid_t` (`process.c:105`, `next_pid > 0`; pids are not checked for reuse): the core module
  bounds the pids that are ever handed out, so its results hold up to the first wrap. The process after the wrap gets no
  page block for certain; that takes no model to see.
* The spinlock and `mem_alloc_page`, `mem_free_page`, `mem_alloc_page_block_specific`: nothing calls them in a running system.
* Closing files in `sys_exit` is in `Files`, not in `Process`: the two modules share no state but the process.
* The bytes of SPI commands, of the clock chip and of the serial memory, and `spi_mtx`, which is taken at boot only; the
  console's text; tables that are filled at boot and only read (`device.c`, `vfs.c`), directory contents, the C library beyond
  its system calls, and the text the shell and the utilities work on.
* The start-up code before `main()`, system call numbers that have no function (`syscall.s`), and a trap in the kernel, which
  is a panic.
* `malloc` and `free` are atomic in the models; in the code nothing protects them from a switch.
* Receiver errors of the serial ports: a byte comes in after the one before was fetched.

## 7. Plan

The core came first because everything else runs on it: `Scheduler`, `Process`, `ProcessTree`; then what processes share
(`BlockBuf`, `CircularBuffer`, `RingBuffer`, `Asci`, `Files`); then what a call does with its caller's memory and the devices
(`ReadWrite`, `Execve`, `SdCard`, `Flash`); then the processor below all of it (`Context`, `OwnMachine`). These are done, with the
proofs of section 5. What section 6 lists has no caller, no state to get wrong, or goes wrong for certain.

Every invariant, action property and refinement that a run checks is proved; two theorems leave out what findings 1 and 2 show to
fail (a zero byte on port 1, a read from a pipe). What could come next is an abstract specification of `BlockBuf`, a pool from
which each taker gets a buffer of its own, that it implements.
