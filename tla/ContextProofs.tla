---------------------------- MODULE ContextProofs ----------------------------
(***************************************************************************)
(* Proofs about Context, for every number of processes and every set of    *)
(* words: the interrupt enable flag is right wherever the CPU goes on, and *)
(* interrupts, system calls, switches and traps implement OwnMachine.      *)
(***************************************************************************)
EXTENDS Context, SchedulerProofs

-----------------------------------------------------------------------------
(* Stacks.  What is beyond a stack pointer is dead: a block that agrees up   *)
(* to there is as good.                                                      *)

StackArea == {"user", "kernel", "trap"}

PageBlock == [user : Seq(Frame), kernel : Seq(Frame), interrupt : Seq(Frame),
              trap : Seq(Frame), syscall_sp : SP, interrupt_sp : SP,
              interrupt_cbar : {"USER", "KERNEL"}]

Agree(m, n, s) ==
    /\ s[2] <= Len(n[s[1]])
    /\ \A i \in 1 .. s[2] : n[s[1]][i] = m[s[1]][i]
    /\ \A x \in StackArea \ {s[1]} : n[x] = m[x]
    /\ n.syscall_sp = m.syscall_sp

LEMMA SPFields ==
    ASSUME NEW s \in SP
    PROVE  /\ s[1] \in Area /\ s[2] \in Nat
           /\ Down(s) \in SP /\ Down(s)[1] = s[1] /\ Down(s)[2] = s[2] + 1
           /\ Up(s)[1] = s[1] /\ Up(s)[2] = s[2] - 1
           /\ s[2] > 0 => Up(s) \in SP
           /\ Up(Down(s)) = s /\ s = <<s[1], s[2]>>
<1>1. PICK x \in Area, k \in Nat : s = <<x, k>>
  BY DEF SP
<1> QED BY <1>1 DEF SP, Down, Up

LEMMA BlockFields ==
    ASSUME NEW m \in PageBlock, NEW x \in Area
    PROVE  /\ m[x] \in Seq(Frame) /\ Len(m[x]) \in Nat /\ DOMAIN m[x] = 1 .. Len(m[x])
           /\ \A i \in 1 .. Len(m[x]) : m[x][i] \in Frame
<1>1. m[x] \in Seq(Frame)
  BY DEF PageBlock, Area
<1> QED BY <1>1, LenProperties, ElementOfSeq

\* The live part of a stack.
LEMMA LivePart ==
    ASSUME NEW m \in PageBlock, NEW x \in Area, NEW k \in Nat, k <= Len(m[x])
    PROVE  /\ Live(m, <<x, k>>) \in Seq(Frame) /\ Len(Live(m, <<x, k>>)) = k
           /\ \A i \in 1 .. k : Live(m, <<x, k>>)[i] = m[x][i]
<1>1. \A i \in 1 .. k : m[x][i] \in Frame
  BY BlockFields
<1>2. Live(m, <<x, k>>) = SubSeq(m[x], 1, k)
  BY DEF Live
<1> HIDE DEF Live
<1>3. /\ SubSeq(m[x], 1, k) \in Seq(Frame)
      /\ Len(SubSeq(m[x], 1, k)) = IF 1 <= k THEN k - 1 + 1 ELSE 0
      /\ \A i \in 1 .. k - 1 + 1 : SubSeq(m[x], 1, k)[i] = m[x][1 + i - 1]
  BY <1>1, SubSeqProperties
<1> QED BY <1>2, <1>3

\* Two stacks that agree in what is live.
LEMMA LiveSame ==
    ASSUME NEW m \in PageBlock, NEW n \in PageBlock, NEW x \in Area, NEW k \in Nat,
           k <= Len(m[x]), k <= Len(n[x]), \A i \in 1 .. k : n[x][i] = m[x][i]
    PROVE  Live(n, <<x, k>>) = Live(m, <<x, k>>)
<1>1. /\ Live(m, <<x, k>>) \in Seq(Frame) /\ Len(Live(m, <<x, k>>)) = k
      /\ \A i \in 1 .. k : Live(m, <<x, k>>)[i] = m[x][i]
  BY LivePart
<1>2. /\ Live(n, <<x, k>>) \in Seq(Frame) /\ Len(Live(n, <<x, k>>)) = k
      /\ \A i \in 1 .. k : Live(n, <<x, k>>)[i] = n[x][i]
  BY LivePart
<1> QED BY <1>1, <1>2, SeqEqual

LEMMA TopFrame ==
    ASSUME NEW m \in PageBlock, NEW s \in SP, s[2] \in 1 .. Len(m[s[1]])
    PROVE  Top(m, s) = m[s[1]][s[2]] /\ Top(m, s) \in Frame
BY SPFields, BlockFields DEF Top

Name == Label \cup {"none", "lost", "child_pid", "panic"}

LEMMA FrameFields ==
    ASSUME NEW ret \in Name, NEW val \in Value
    PROVE  Of(ret, val) \in Frame /\ Of(ret, val).ret = ret /\ Of(ret, val).val = val
BY DEF Of, Frame, Name

\* A frame is pushed: what is live stays, and the frame is on the top.
LEMMA PushEffect ==
    ASSUME NEW m \in PageBlock, NEW s \in SP, s[2] <= Len(m[s[1]]), NEW f \in Frame
    PROVE  LET n == Push(m, s, f)
           IN  /\ n \in PageBlock
               /\ n[s[1]] = Append(Live(m, s), f)
               /\ Len(n[s[1]]) = s[2] + 1 /\ n[s[1]][s[2] + 1] = f
               /\ \A i \in 1 .. s[2] : n[s[1]][i] = m[s[1]][i]
               /\ \A x \in Area \ {s[1]} : n[x] = m[x]
               /\ n.syscall_sp = m.syscall_sp /\ n.interrupt_sp = m.interrupt_sp
               /\ n.interrupt_cbar = m.interrupt_cbar
               /\ Top(n, Down(s)) = f
               /\ Agree(m, n, s)
<1> DEFINE n == Push(m, s, f)
           t == Append(Live(m, s), f)
<1>1. /\ s[1] \in Area /\ s[2] \in Nat /\ s = <<s[1], s[2]>>
      /\ Down(s) \in SP /\ Down(s)[1] = s[1] /\ Down(s)[2] = s[2] + 1
  BY SPFields
<1>2. /\ Live(m, s) \in Seq(Frame) /\ Len(Live(m, s)) = s[2]
      /\ \A i \in 1 .. s[2] : Live(m, s)[i] = m[s[1]][i]
  BY <1>1, LivePart
<1>3. /\ t \in Seq(Frame) /\ Len(t) = s[2] + 1 /\ t[s[2] + 1] = f
      /\ \A i \in 1 .. s[2] : t[i] = m[s[1]][i]
  BY <1>2, AppendProperties
<1>4. n = [m EXCEPT ![s[1]] = t]
  BY DEF Push
<1> HIDE DEF n, t
<1>5. /\ n \in PageBlock /\ n[s[1]] = t
      /\ \A x \in Area \ {s[1]} : n[x] = m[x]
      /\ n.syscall_sp = m.syscall_sp /\ n.interrupt_sp = m.interrupt_sp
      /\ n.interrupt_cbar = m.interrupt_cbar
  BY <1>1, <1>3, <1>4 DEF PageBlock, Area
<1>6. Top(n, Down(s)) = f
  <2>1. Down(s)[2] \in 1 .. Len(n[Down(s)[1]])
    BY <1>1, <1>3, <1>5
  <2> QED BY <1>1, <1>3, <1>5, <2>1, TopFrame
<1>7. Agree(m, n, s)
  BY <1>1, <1>3, <1>5 DEF Agree, StackArea, Area
<1> QED BY <1>3, <1>5, <1>6, <1>7 DEF n, t

\* A frame is popped.
LEMMA PopEffect ==
    ASSUME NEW m \in PageBlock, NEW s \in SP, s[2] \in 1 .. Len(m[s[1]])
    PROVE  LET n == Pop(m, s)
           IN  /\ n \in PageBlock /\ Up(s) \in SP
               /\ n[s[1]] = Live(m, Up(s)) /\ Len(n[s[1]]) = s[2] - 1
               /\ \A i \in 1 .. s[2] - 1 : n[s[1]][i] = m[s[1]][i]
               /\ \A x \in Area \ {s[1]} : n[x] = m[x]
               /\ n.syscall_sp = m.syscall_sp /\ n.interrupt_sp = m.interrupt_sp
               /\ n.interrupt_cbar = m.interrupt_cbar
               /\ Agree(m, n, Up(s))
<1> DEFINE n == Pop(m, s)
           t == Live(m, Up(s))
<1>1. /\ s[1] \in Area /\ s[2] \in Nat
      /\ Up(s) \in SP /\ Up(s)[1] = s[1] /\ Up(s)[2] = s[2] - 1
  BY SPFields
<1>2. Up(s) = <<s[1], s[2] - 1>> /\ s[2] - 1 \in Nat /\ s[2] - 1 <= Len(m[s[1]])
  BY <1>1, BlockFields DEF Up
<1>3. /\ t \in Seq(Frame) /\ Len(t) = s[2] - 1
      /\ \A i \in 1 .. s[2] - 1 : t[i] = m[s[1]][i]
  BY <1>1, <1>2, LivePart
<1>4. n = [m EXCEPT ![s[1]] = t]
  BY DEF Pop
<1> HIDE DEF n, t
<1>5. /\ n \in PageBlock /\ n[s[1]] = t
      /\ \A x \in Area \ {s[1]} : n[x] = m[x]
      /\ n.syscall_sp = m.syscall_sp /\ n.interrupt_sp = m.interrupt_sp
      /\ n.interrupt_cbar = m.interrupt_cbar
  BY <1>1, <1>3, <1>4 DEF PageBlock, Area
<1>6. Agree(m, n, Up(s))
  BY <1>1, <1>3, <1>5 DEF Agree, StackArea, Area
<1> QED BY <1>1, <1>3, <1>5, <1>6 DEF n, t

LEMMA AgreeSelf ==
    ASSUME NEW m, NEW s, s[2] <= Len(m[s[1]])
    PROVE  Agree(m, m, s)
BY DEF Agree

-----------------------------------------------------------------------------
(* Where a process can be, and what its stacks hold there.                   *)

CpuState == [pc : Label, a : Value, sp : SP, cbar : {"USER", "KERNEL"}, m : PageBlock]

\* The stack pointer at each place.
StackAt(label) ==
    CASE label = "user" -> <<"user", 1>>
      [] label \in {"syscall", "entry", "leave_ret", "reset", "trap", "cold_start"} -> <<"user", 2>>
      [] label \in {"map", "kernel"} -> <<"kernel", 1>>
      [] label \in {"boot", "main", "leave", "leave_sp"} -> <<"kernel", 0>>
      [] label \in {"copied", "forked"} -> <<"kernel", 3>>
      [] label \in {"trap_clear", "trap_disable", "trap_exit"} -> <<"trap", 1>>

MapAt(label) == IF label \in InKernel THEN "KERNEL" ELSE "USER"

\* The user's stack during a system call.
InCall(m) == 2 <= Len(m.user) /\ m.user[2].ret = "user" /\ m.syscall_sp = <<"user", 2>>

\* The kernel's stack in sys_fork, of the parent or of its copy in the child.
InFork(p, word, m) ==
    LET k == m.kernel IN
    /\ k[1].ret \in {"leave", "main"} /\ k[2].val \in Pid /\ k[3].val \in Pid
    /\ k[3].val # p => k[2].val = p /\ word = 0 /\ p # IDLE
    /\ k[1].ret = "main" <=> k[3].val = IDLE
    /\ k[1].ret = "leave" => InCall(m)

\* A process that no interrupt and no switch holds up.
InPlace(p, c) ==
    /\ c \in CpuState /\ c.pc \notin IntOff
    /\ c.sp = StackAt(c.pc) /\ c.cbar = MapAt(c.pc)
    /\ c.sp[2] <= Len(c.m[c.sp[1]])
    /\ p = IDLE => c.pc \in {"boot", "copied", "forked", "main"}
    /\ c.pc = "boot" => p = IDLE
    /\ c.pc = "syscall" => c.m.user[2].ret = "user"
    /\ c.pc \in {"entry", "map", "kernel", "leave", "leave_sp", "leave_ret"} => InCall(c.m)
    /\ c.pc \in {"map", "kernel"} =>
          c.m.kernel[1].ret = "leave" /\ c.m.kernel[1].val = c.m.user[2].val
    /\ c.pc \in {"copied", "forked"} => InFork(p, c.a, c.m)
    /\ c.pc = "copied" => c.m.kernel[3].val = p

\* The frames under which it goes on when it is held up.
HeldUp(c) ==
    /\ c \in CpuState
    /\ c.pc \in IntOff => c.cbar = "KERNEL"
    /\ c.pc = "interrupt_leave" =>
          /\ c.sp = <<"interrupt", 1>> /\ 1 <= Len(c.m.interrupt)
          /\ c.m.interrupt_sp[1] \in StackArea
          /\ c.m.interrupt_sp[2] \in 1 .. Len(c.m[c.m.interrupt_sp[1]])
    /\ c.pc = "blocked" =>
          c.sp = <<"kernel", 2>> /\ 2 <= Len(c.m.kernel) /\ c.m.kernel[2].val = 1
    /\ c.pc = "reentry" => c.sp = <<"kernel", 4>> /\ 4 <= Len(c.m.kernel)

\* What is seen of a process at each place.
LEMMA SeenAtPlace ==
    ASSUME NEW p \in Pid, NEW c, InPlace(p, c)
    PROVE  /\ c.pc = "user" => SeenAt(p, c) = Machine("user", c.a, Live(c.m, <<"user", 1>>))
           /\ c.pc \in {"syscall", "entry", "map", "kernel"} =>
                 SeenAt(p, c) = Machine("call", 0, Live(c.m, <<"user", 2>>))
           /\ c.pc = "boot" => SeenAt(p, c) = Machine("boot", 0, <<>>)
           /\ c.pc \in {"copied", "forked"} /\ c.m.kernel[3].val = p =>
                 SeenAt(p, c) = IF p = IDLE THEN Machine("boot", 0, <<>>)
                                ELSE Machine("call", 0, Live(c.m, <<"user", 2>>))
           /\ c.pc = "forked" /\ c.m.kernel[3].val # p =>
                 SeenAt(p, c) = IF c.m.kernel[3].val = IDLE THEN Machine("init", 0, <<>>)
                                ELSE Machine("user", c.a, Live(c.m, <<"user", 1>>))
           /\ c.pc = "main" =>
                 SeenAt(p, c) = Machine(IF p = IDLE THEN "main" ELSE "init", 0, <<>>)
           /\ c.pc \in {"leave", "leave_sp", "leave_ret"} =>
                 SeenAt(p, c) = Machine("user", c.a, Live(c.m, <<"user", 1>>))
           /\ c.pc \in {"reset", "trap", "cold_start"} =>
                 SeenAt(p, c) = Machine("fault", 0, Live(c.m, <<"user", 1>>))
           /\ c.pc \in {"trap_clear", "trap_disable", "trap_exit"} =>
                 SeenAt(p, c) = Machine("fault", 0, c.m.user)
<1>0. /\ c.m \in PageBlock /\ c.sp = StackAt(c.pc) /\ c.cbar = MapAt(c.pc)
      /\ c.sp[2] <= Len(c.m[c.sp[1]]) /\ c.sp \in SP
  BY DEF InPlace, CpuState
<1>1. Up(<<"user", 2>>) = <<"user", 1>> /\ Down(Reset) = <<"kernel", 1>>
  BY DEF Up, Down, Reset
<1>2. c.pc \in {"map", "kernel", "copied", "forked"} =>
         Top(c.m, <<"kernel", 1>>) = c.m.kernel[1]
  <2> SUFFICES ASSUME c.pc \in {"map", "kernel", "copied", "forked"}
               PROVE  Top(c.m, <<"kernel", 1>>) = c.m.kernel[1]
    OBVIOUS
  <2>1. 1 <= Len(c.m.kernel)
    BY <1>0, BlockFields DEF StackAt, Area
  <2>2. <<"kernel", 1>> \in SP
    BY DEF SP, Area
  <2> QED BY <1>0, <2>1, <2>2, TopFrame, BlockFields DEF Area
<1>3. c.pc \in {"map", "kernel"} => ~InBoot(c) /\ InCall(c.m)
  BY <1>1, <1>2 DEF InBoot, InPlace
<1>4. c.pc \in {"copied", "forked"} =>
         /\ InBoot(c) <=> c.m.kernel[3].val = IDLE
         /\ c.m.kernel[3].val # IDLE => InCall(c.m)
  BY <1>1, <1>2 DEF InBoot, InPlace, InFork
<1>5. InCall(c.m) => After(c) = Machine("user", c.a, Live(c.m, <<"user", 1>>))
  BY <1>1 DEF After, InCall
<1>6. Before(c) = IF InBoot(c) THEN Machine("boot", 0, <<>>)
                  ELSE Machine("call", 0, Live(c.m, c.m.syscall_sp))
  BY DEF Before
<1>7. c.pc = "user" => SeenAt(p, c) = Machine("user", c.a, Live(c.m, <<"user", 1>>))
  BY <1>0 DEF SeenAt, StackAt, MapAt, InKernel
<1>8. c.pc \in {"syscall", "entry"} =>
         SeenAt(p, c) = Machine("call", 0, Live(c.m, <<"user", 2>>))
  BY <1>0 DEF SeenAt, StackAt, MapAt, InKernel
<1>9. c.pc \in {"map", "kernel"} =>
         SeenAt(p, c) = Machine("call", 0, Live(c.m, <<"user", 2>>))
  <2>1. c.pc \in {"map", "kernel"} => SeenAt(p, c) = Before(c)
    BY <1>0 DEF SeenAt, StackAt, MapAt, InKernel
  <2> QED BY <1>3, <1>6, <2>1 DEF InCall
<1>10. c.pc = "boot" => SeenAt(p, c) = Machine("boot", 0, <<>>)
  <2>1. c.pc = "boot" => SeenAt(p, c) = Before(c)
    BY <1>0 DEF SeenAt, StackAt, MapAt, InKernel
  <2> QED BY <1>6, <2>1 DEF InBoot
<1>11. c.pc \in {"copied", "forked"} =>
          SeenAt(p, c) = IF c.m.kernel[3].val = p THEN Before(c)
                         ELSE IF InBoot(c) THEN Machine("init", 0, <<>>) ELSE After(c)
  <2> SUFFICES ASSUME c.pc \in {"copied", "forked"}
               PROVE  SeenAt(p, c) = IF c.m.kernel[3].val = p THEN Before(c)
                         ELSE IF InBoot(c) THEN Machine("init", 0, <<>>) ELSE After(c)
    OBVIOUS
  <2>1. c.sp = <<"kernel", 3>> /\ c.cbar = "KERNEL"
    BY <1>0 DEF StackAt, MapAt, InKernel
  <2>2. Top(c.m, c.sp) = c.m.kernel[3]
    BY <1>0, <2>1, TopFrame, BlockFields DEF Area
  <2>3. CASE c.pc = "copied"
    <3>1. c.m.kernel[3].val = p
      BY <2>3 DEF InPlace
    <3> QED BY <2>1, <2>3, <3>1 DEF SeenAt
  <2>4. CASE c.pc = "forked"
    BY <2>1, <2>2, <2>4 DEF SeenAt
  <2> QED BY <2>3, <2>4
<1>12. c.pc \in {"copied", "forked"} /\ c.m.kernel[3].val = p =>
          SeenAt(p, c) = IF p = IDLE THEN Machine("boot", 0, <<>>)
                         ELSE Machine("call", 0, Live(c.m, <<"user", 2>>))
  BY <1>4, <1>6, <1>11 DEF InCall
<1>13. c.pc = "forked" /\ c.m.kernel[3].val # p =>
          SeenAt(p, c) = IF c.m.kernel[3].val = IDLE THEN Machine("init", 0, <<>>)
                         ELSE Machine("user", c.a, Live(c.m, <<"user", 1>>))
  BY <1>4, <1>5, <1>11
<1>14. c.pc = "main" => SeenAt(p, c) = Machine(IF p = IDLE THEN "main" ELSE "init", 0, <<>>)
  BY <1>0 DEF SeenAt, StackAt, MapAt, InKernel
<1>15. c.pc \in {"leave", "leave_sp", "leave_ret"} =>
          SeenAt(p, c) = Machine("user", c.a, Live(c.m, <<"user", 1>>))
  <2>1. c.pc \in {"leave", "leave_sp", "leave_ret"} => SeenAt(p, c) = After(c)
    BY <1>0 DEF SeenAt, StackAt, MapAt, InKernel
  <2>2. c.pc \in {"leave", "leave_sp", "leave_ret"} => InCall(c.m)
    BY DEF InPlace
  <2> QED BY <1>5, <2>1, <2>2
<1>16. c.pc \in {"reset", "trap", "cold_start"} =>
          SeenAt(p, c) = Machine("fault", 0, Live(c.m, <<"user", 1>>))
  BY <1>0, <1>1 DEF SeenAt, StackAt, MapAt, InKernel, Faulted
<1>17. c.pc \in {"trap_clear", "trap_disable", "trap_exit"} =>
          SeenAt(p, c) = Machine("fault", 0, c.m.user)
  BY <1>0 DEF SeenAt, StackAt, MapAt, InKernel, Faulted
<1> QED BY <1>7, <1>8, <1>9, <1>10, <1>12, <1>13, <1>14, <1>15, <1>16, <1>17

\* Only what is live in its block tells where a process is and what is seen of it.
LEMMA DeadIsUnseen ==
    ASSUME NEW p \in Pid, NEW c, InPlace(p, c), NEW d \in CpuState,
           d.pc = c.pc, d.a = c.a, d.sp = c.sp, d.cbar = c.cbar, Agree(c.m, d.m, c.sp)
    PROVE  /\ InPlace(p, d) /\ SeenAt(p, d) = SeenAt(p, c)
           /\ d.pc \in {"copied", "forked"} =>
                 /\ d.m.user = c.m.user /\ d.m.syscall_sp = c.m.syscall_sp
                 /\ 3 <= Len(d.m.kernel) /\ \A i \in 1 .. 3 : d.m.kernel[i] = c.m.kernel[i]
<1>1. /\ c.m \in PageBlock /\ d.m \in PageBlock /\ c.pc \notin IntOff /\ c \in CpuState
      /\ c.sp = StackAt(c.pc) /\ c.cbar = MapAt(c.pc)
      /\ c.sp[2] <= Len(c.m[c.sp[1]]) /\ c.sp[2] <= Len(d.m[c.sp[1]])
      /\ d.m.syscall_sp = c.m.syscall_sp
      /\ c.sp[1] \in {"user", "kernel", "trap"} /\ c.sp[2] \in 0 .. 3
  <2>1. c.pc \in InUser \cup InKernel \cup InStart
    BY DEF InPlace, CpuState, Label
  <2>2. c.sp[1] \in {"user", "kernel", "trap"} /\ c.sp[2] \in 0 .. 3
    BY <2>1 DEF InPlace, StackAt, InUser, InKernel, InStart
  <2> QED BY <2>2 DEF InPlace, CpuState, Agree
<1>2. CASE c.sp[1] = "user"
  <2>1. /\ d.m.kernel = c.m.kernel
        /\ c.sp[2] <= Len(c.m.user) /\ c.sp[2] <= Len(d.m.user)
        /\ \A i \in 1 .. c.sp[2] : d.m.user[i] = c.m.user[i]
    BY <1>1, <1>2 DEF Agree, StackArea
  <2>2. \A k \in 0 .. c.sp[2] : Live(d.m, <<"user", k>>) = Live(c.m, <<"user", k>>)
    <3> SUFFICES ASSUME NEW k \in 0 .. c.sp[2]
                 PROVE  Live(d.m, <<"user", k>>) = Live(c.m, <<"user", k>>)
      OBVIOUS
    <3>1. k \in Nat /\ k <= Len(c.m.user) /\ k <= Len(d.m.user) /\ 1 .. k \subseteq 1 .. c.sp[2]
      <4>1. Len(c.m.user) \in Nat /\ Len(d.m.user) \in Nat
        BY <1>1, BlockFields DEF Area
      <4> QED BY <1>1, <2>1, <4>1
    <3> QED BY <1>1, <2>1, <3>1, LiveSame DEF Area
  <2>3. c.pc \in {"user", "syscall", "entry", "leave_ret", "reset", "trap", "cold_start"}
    BY <1>1, <1>2 DEF StackAt, CpuState, Label, InUser, InKernel, InStart
  <2>4. InPlace(p, d)
    <3>1. /\ c.pc = "syscall" => d.m.user[2].ret = "user"
          /\ c.pc \in {"entry", "leave_ret"} => InCall(d.m)
      BY <1>1, <2>1, <2>3 DEF InPlace, InCall, StackAt
    <3> QED BY <1>1, <2>3, <3>1 DEF InPlace
  <2>5. SeenAt(p, d) = SeenAt(p, c)
    <3>1. CASE c.pc = "user"
      <4>1. Live(d.m, <<"user", 1>>) = Live(c.m, <<"user", 1>>)
        BY <1>1, <2>2, <3>1 DEF StackAt
      <4> QED BY <2>4, <3>1, <4>1, SeenAtPlace
    <3>2. CASE c.pc # "user"
      <4>1. /\ Live(d.m, <<"user", 1>>) = Live(c.m, <<"user", 1>>)
            /\ Live(d.m, <<"user", 2>>) = Live(c.m, <<"user", 2>>)
        BY <1>1, <2>2, <2>3, <3>2 DEF StackAt
      <4> QED BY <2>3, <2>4, <3>2, <4>1, SeenAtPlace
    <3> QED BY <3>1, <3>2
  <2> QED BY <2>3, <2>4, <2>5
<1>3. CASE c.sp[1] # "user"
  <2>1. /\ d.m.user = c.m.user
        /\ c.sp[1] = "kernel" => \A i \in 1 .. c.sp[2] : d.m.kernel[i] = c.m.kernel[i]
    BY <1>1, <1>3 DEF Agree, StackArea
  <2>2. \A k \in 0 .. 2 : Live(d.m, <<"user", k>>) = Live(c.m, <<"user", k>>)
    BY <2>1 DEF Live
  <2>3. c.pc \in {"map", "kernel", "boot", "main", "leave", "leave_sp", "copied", "forked",
                  "trap_clear", "trap_disable", "trap_exit"}
    BY <1>1, <1>3 DEF StackAt, CpuState, Label, InUser, InKernel, InStart
  <2>4. InCall(d.m) <=> InCall(c.m)
    BY <1>1, <2>1 DEF InCall
  <2>5. /\ c.pc \in {"copied", "forked"} => \A i \in 1 .. 3 : d.m.kernel[i] = c.m.kernel[i]
        /\ c.pc \in {"copied", "forked"} => 3 <= Len(d.m.kernel)
        /\ c.pc \in {"map", "kernel"} => d.m.kernel[1] = c.m.kernel[1]
    BY <1>1, <2>1 DEF StackAt
  <2>6. InPlace(p, d)
    <3>1. c.pc \in {"copied", "forked"} => InFork(p, d.a, d.m)
      <4> SUFFICES ASSUME c.pc \in {"copied", "forked"} PROVE InFork(p, d.a, d.m)
        OBVIOUS
      <4>1. d.m.kernel[1] = c.m.kernel[1] /\ d.m.kernel[2] = c.m.kernel[2]
            /\ d.m.kernel[3] = c.m.kernel[3]
        BY <2>5
      <4>2. InFork(p, c.a, c.m)
        BY DEF InPlace
      <4> QED BY <2>4, <4>1, <4>2 DEF InFork
    <3>2. c.pc = "copied" => d.m.kernel[3].val = p
      BY <2>5 DEF InPlace
    <3>3. c.pc \in {"map", "kernel"} =>
             d.m.kernel[1].ret = "leave" /\ d.m.kernel[1].val = d.m.user[2].val
      BY <2>1, <2>5 DEF InPlace
    <3>4. c.pc \in {"entry", "map", "kernel", "leave", "leave_sp", "leave_ret"} => InCall(d.m)
      BY <2>4 DEF InPlace
    <3> QED BY <1>1, <2>3, <3>1, <3>2, <3>3, <3>4 DEF InPlace
  <2>7. SeenAt(p, d) = SeenAt(p, c)
    <3>1. CASE c.pc \in {"copied", "forked"}
      <4>1. d.m.kernel[3] = c.m.kernel[3]
        BY <2>5, <3>1
      <4>2. c.pc = "copied" => c.m.kernel[3].val = p
        BY DEF InPlace
      <4> QED BY <2>2, <2>6, <3>1, <4>1, <4>2, SeenAtPlace
    <3>2. CASE c.pc \notin {"copied", "forked"}
      BY <2>1, <2>2, <2>3, <2>6, <3>2, SeenAtPlace
    <3> QED BY <3>1, <3>2
  <2> QED BY <1>1, <2>1, <2>5, <2>6, <2>7
<1> QED BY <1>2, <1>3

\* The places that a process held up goes on at.
LEMMA SettledIs ==
    ASSUME NEW c \in CpuState
    PROVE  /\ c.pc \notin IntOff => Settled(c) = c
           /\ c.pc = "interrupt_leave" =>
                 Settled(c) = [pc |-> Top(c.m, c.m.interrupt_sp).ret,
                               a |-> Top(c.m, c.m.interrupt_sp).val,
                               sp |-> Up(c.m.interrupt_sp),
                               cbar |-> c.m.interrupt_cbar, m |-> c.m]
           /\ c.pc = "blocked" =>
                 Settled(c) = [pc |-> "kernel", a |-> c.a, sp |-> Up(c.sp),
                               cbar |-> c.cbar, m |-> c.m]
           /\ c.pc = "reentry" =>
                 Settled(c) = [pc |-> "forked", a |-> c.a, sp |-> Up(c.sp),
                               cbar |-> c.cbar, m |-> c.m]
<1>1. c.pc \notin IntOff => Settled(c) = c
  BY DEF Settled, IntOff
<1>2. c.pc = "interrupt_leave" =>
         Settled(c) = [c EXCEPT !.pc = Top(c.m, c.m.interrupt_sp).ret,
                                !.a = Top(c.m, c.m.interrupt_sp).val,
                                !.sp = Up(c.m.interrupt_sp), !.cbar = c.m.interrupt_cbar]
  BY DEF Settled
<1>3. c.pc = "blocked" => Settled(c) = [c EXCEPT !.pc = "kernel", !.sp = Up(c.sp)]
  BY DEF Settled
<1>4. c.pc = "reentry" => Settled(c) = [c EXCEPT !.pc = "forked", !.sp = Up(c.sp)]
  BY DEF Settled
<1>5. c = [pc |-> c.pc, a |-> c.a, sp |-> c.sp, cbar |-> c.cbar, m |-> c.m]
  BY DEF CpuState
<1> QED BY <1>1, <1>2, <1>3, <1>4, <1>5

-----------------------------------------------------------------------------
(* The invariant.                                                            *)

Alive(p) == state[p] \notin {"EMPTY", "ZOMBIE"}

Place(p) == Settled(Cpu(p))

\* Every process is somewhere in the program, perhaps held up.
PlacesInv == \A p \in Pid : Alive(p) => HeldUp(Cpu(p)) /\ InPlace(p, Place(p))

\* Interrupts are disabled while a process is held up, as is every process but
\* the current one.
CpuInv ==
    /\ cbr = current_proc
    /\ iff <=> pc \notin IntOff
    /\ \A p \in Pid \ {current_proc} : Alive(p) => Cpu(p).pc \in IntOff
    /\ \A p \in Pid : state[p] # "EMPTY" => p < next_pid
    /\ state[IDLE] \in Awake

\* A process in sys_fork whose child does not run yet, its child, and the copy
\* of its block in the child's.
IsParent(p, c) == c.pc \in {"copied", "forked"} /\ c.m.kernel[3].val = p

ChildAt(c) == c.m.kernel[2].val

IsCopy(n, c) ==
    /\ 3 <= Len(n.kernel) /\ \A i \in 1 .. 3 : n.kernel[i] = c.m.kernel[i]
    /\ n.user = c.m.user /\ n.syscall_sp = c.m.syscall_sp
    /\ c.pc = "forked" => 4 <= Len(n.kernel) /\ n.kernel[4].ret = "reentry"

Forks(p) == Alive(p) /\ IsParent(p, Place(p))

ForkInv ==
    /\ \A p \in Pid : Forks(p) =>
          LET child == ChildAt(Place(p)) IN
          /\ child # p /\ child < next_pid /\ state[child] = "EMPTY"
          /\ IsCopy(memory[child], Place(p))
    /\ \A p, q \in Pid : Forks(p) /\ Forks(q) /\ p # q => ChildAt(Place(p)) # ChildAt(Place(q))

TypeInv == TypeOK /\ memory \in [Pid -> PageBlock]

CtxInv == TypeInv /\ SchedInv /\ CpuInv /\ PlacesInv /\ ForkInv

\* What a step leaves of a process in sys_fork.
SameFork(c, d) ==
    /\ d.pc = c.pc /\ d.m.user = c.m.user /\ d.m.syscall_sp = c.m.syscall_sp
    /\ \A i \in 1 .. 3 : d.m.kernel[i] = c.m.kernel[i]

LEMMA ValueType ==
    /\ 0 \in Value /\ Pid \subseteq Value /\ Word \subseteq Value /\ IDLE \in Pid /\ IDLE = 0
    /\ Pid \subseteq Nat /\ Value \subseteq Nat
BY WordAssumption, MaxPidAssumption DEF Value, Pid, IDLE

LEMMA CurrentIsAlive ==
    ASSUME CtxInv
    PROVE  /\ current_proc \in Pid /\ Alive(current_proc) /\ Here = memory[current_proc]
           /\ Cpu(current_proc) = [pc |-> pc, a |-> a, sp |-> sp, cbar |-> cbar, m |-> Here]
           /\ HeldUp(Cpu(current_proc)) /\ InPlace(current_proc, Place(current_proc))
           /\ state[current_proc] = "RUNNING" /\ ~panicked
<1>1. current_proc \in Pid /\ state[current_proc] = "RUNNING" /\ ~panicked /\ cbr = current_proc
  BY DEF CtxInv, TypeInv, TypeOK, SchedTypeOK, SchedInv, CpuInv
<1> QED BY <1>1 DEF Alive, Cpu, Here, CtxInv, PlacesInv

\* One process moves, and the others are where they were.
LEMMA OneMoves ==
    ASSUME CtxInv, NEW p \in Pid, Alive(p), NEW d, Cpu(p)' = d,
           state' \in [Pid -> ProcState], next_pid' = next_pid,
           \A q \in Pid \ {p} : Cpu(q)' = Cpu(q) /\ memory'[q] = memory[q],
           \A q \in Pid \ {p} : state'[q] = state[q] \/ (Alive(q) /\ Alive(q)'),
           Alive(p)' => HeldUp(d) /\ InPlace(p, Settled(d)),
           Alive(p)' /\ IsParent(p, Settled(d)) =>
              IsParent(p, Place(p)) /\ SameFork(Place(p), Settled(d))
    PROVE  /\ PlacesInv' /\ ForkInv'
           /\ \A q \in Pid \ {p} : MachineOf(q)' = MachineOf(q)
           /\ MachineOf(p) = SeenAt(p, Place(p))
           /\ Alive(p)' => MachineOf(p)' = SeenAt(p, Settled(d))
           /\ ~Alive(p)' => MachineOf(p)' = Machine("none", 0, <<>>)
<1>1. \A q \in Pid \ {p} : Place(q)' = Place(q) /\ (Alive(q)' <=> Alive(q))
  BY DEF Place, Alive
<1>2. Place(p)' = Settled(d)
  BY DEF Place
<1>3. PlacesInv'
  <2> SUFFICES ASSUME NEW q \in Pid, Alive(q)'
               PROVE  (HeldUp(Cpu(q)) /\ InPlace(q, Place(q)))'
    BY DEF PlacesInv
  <2>1. CASE q = p
    BY <1>2, <2>1
  <2>2. CASE q # p
    BY <1>1, <2>2 DEF CtxInv, PlacesInv
  <2> QED BY <2>1, <2>2
<1>4. \A q \in Pid \ {p} : Forks(q)' <=> Forks(q)
  BY <1>1 DEF Forks
<1>5. Forks(p)' => Forks(p) /\ SameFork(Place(p), Place(p)')
  BY <1>2 DEF Forks
<1>6. Forks(p)' => ChildAt(Place(p))' = ChildAt(Place(p))
  BY <1>5 DEF SameFork, ChildAt
<1>7. ASSUME NEW q \in Pid, Forks(q)'
      PROVE  /\ Forks(q) /\ ChildAt(Place(q))' = ChildAt(Place(q))
             /\ LET child == ChildAt(Place(q)) IN
                /\ child # q /\ child < next_pid /\ state'[child] = "EMPTY"
                /\ IsCopy(memory[child]', Place(q)')
  <2>1. Forks(q) /\ ChildAt(Place(q))' = ChildAt(Place(q))
    <3>1. CASE q = p
      BY <1>5, <1>6, <1>7, <3>1
    <3>2. CASE q # p
      BY <1>1, <1>4, <1>7, <3>2
    <3> QED BY <3>1, <3>2
  <2> DEFINE child == ChildAt(Place(q))
  <2>2. child # q /\ child < next_pid /\ state[child] = "EMPTY" /\ IsCopy(memory[child], Place(q))
    BY <2>1 DEF CtxInv, ForkInv
  <2>3. child \in Pid
    <3>1. InPlace(q, Place(q)) /\ Place(q).pc \in {"copied", "forked"}
      BY <2>1 DEF Forks, IsParent, CtxInv, PlacesInv
    <3> QED BY <3>1 DEF InPlace, InFork, ChildAt
  <2>4. child # p /\ ~Alive(child)
    BY <2>2 DEF Alive
  <2>5. state'[child] = "EMPTY" /\ memory'[child] = memory[child]
    BY <2>2, <2>3, <2>4
  <2>6. IsCopy(memory[child], Place(q)')
    <3>1. CASE q = p
      BY <1>5, <1>7, <2>2, <3>1 DEF IsCopy, SameFork
    <3>2. CASE q # p
      BY <1>1, <2>2, <3>2
    <3> QED BY <3>1, <3>2
  <2> QED BY <2>1, <2>2, <2>5, <2>6
<1>8. ForkInv'
  <2>1. ASSUME NEW q \in Pid, Forks(q)'
        PROVE  LET child == ChildAt(Place(q))' IN
               /\ child # q /\ child < next_pid' /\ state'[child] = "EMPTY"
               /\ IsCopy(memory'[child], Place(q)')
    BY <1>7, <2>1
  <2>2. ASSUME NEW q \in Pid, NEW r \in Pid, Forks(q)', Forks(r)', q # r
        PROVE  ChildAt(Place(q))' # ChildAt(Place(r))'
    <3>1. Forks(q) /\ ChildAt(Place(q))' = ChildAt(Place(q))
      BY <1>7, <2>2
    <3>2. Forks(r) /\ ChildAt(Place(r))' = ChildAt(Place(r))
      BY <1>7, <2>2
    <3> QED BY <2>2, <3>1, <3>2 DEF CtxInv, ForkInv
  <2> QED BY <2>1, <2>2 DEF ForkInv
<1>9. \A q \in Pid \ {p} : MachineOf(q)' = MachineOf(q)
  BY <1>1 DEF MachineOf, Place, Alive
<1> QED BY <1>2, <1>3, <1>8, <1>9 DEF MachineOf, Place, Alive

-----------------------------------------------------------------------------
(* The machines of the processes.                                            *)

Machines == [p \in Pid |-> MachineOf(p)]

\* A program does something, or nothing is seen of the step.
Follows(m, n) == n = m \/ n \in Own!Outcomes(m)

LEMMA ProgramStep ==
    ASSUME NEW p \in Pid, Follows(MachineOf(p), MachineOf(p)'),
           \A q \in Pid \ {p} : MachineOf(q)' = MachineOf(q)
    PROVE  [Own!Next]_Machines
<1>1. /\ Machines' = [q \in Pid |-> MachineOf(q)']
      /\ Machines'[p] = MachineOf(p)' /\ Machines[p] = MachineOf(p)
  BY DEF Machines
<1>2. CASE MachineOf(p)' = MachineOf(p)
  <2>1. \A q \in Pid : MachineOf(q)' = MachineOf(q)
    BY <1>2
  <2> QED BY <1>1, <2>1 DEF Machines
<1>3. CASE MachineOf(p)' \in Own!Outcomes(MachineOf(p))
  <2>1. Machines' = [Machines EXCEPT ![p] = Machines'[p]]
    BY <1>1 DEF Machines
  <2>2. Machines'[p] \in Own!Outcomes(Machines[p])
    BY <1>1, <1>3
  <2>3. Own!Program(p)
    BY <2>1, <2>2 DEF Own!Program, Machines
  <2> QED BY <2>3 DEF Own!Next
<1> QED BY <1>2, <1>3 DEF Follows

(***************************************************************************)
(* A step of the current process, in its own block, that does not switch:  *)
(* another process may be woken by it, and none is ended or made.          *)
(***************************************************************************)
LEMMA StayStep ==
    ASSUME CtxInv, SchedTypeOK', SchedInv', NEW p \in Pid, p = current_proc,
           current_proc' = p, UNCHANGED <<cbr, next_pid>>,
           saved_sp' \in [Pid -> SP], \A q \in Pid \ {p} : saved_sp'[q] = saved_sp[q],
           state'[p] = state[p],
           \A q \in Pid \ {p} : state'[q] = state[q] \/ (Alive(q) /\ Alive(q)'),
           state'[IDLE] \in Awake,
           trap_bit' \in BOOLEAN, sources' \in BOOLEAN, iff' \in BOOLEAN,
           NEW d, d = [pc |-> pc', a |-> a', sp |-> sp', cbar |-> cbar', m |-> d.m],
           memory' = [memory EXCEPT ![cbr] = d.m],
           HeldUp(d), InPlace(p, Settled(d)), iff' <=> d.pc \notin IntOff,
           IsParent(p, Settled(d)) => IsParent(p, Place(p)) /\ SameFork(Place(p), Settled(d)),
           Follows(SeenAt(p, Place(p)), SeenAt(p, Settled(d)))
    PROVE  CtxInv' /\ [Own!Next]_Machines
<1>1. Alive(p) /\ cbr = p /\ memory \in [Pid -> PageBlock] /\ TypeOK
  BY CurrentIsAlive DEF CtxInv, CpuInv, TypeInv
<1>2. d.m \in PageBlock /\ d \in CpuState
  BY DEF HeldUp, CpuState
<1>3. /\ memory' \in [Pid -> PageBlock] /\ memory'[p] = d.m
      /\ \A q \in Pid \ {p} : memory'[q] = memory[q]
      /\ cbr' = p /\ next_pid' = next_pid
  BY <1>1, <1>2
<1>4. Cpu(p)' = d
  BY <1>3 DEF Cpu, Here
<1>5. \A q \in Pid \ {p} : Cpu(q)' = Cpu(q)
  BY <1>1, <1>3 DEF Cpu
<1>6. Alive(p)' /\ \A q \in Pid : Alive(q)' <=> Alive(q)
  BY <1>1 DEF Alive
<1>7. TypeInv'
  <2>1. pc' \in Label /\ a' \in Value /\ sp' \in SP /\ cbar' \in {"USER", "KERNEL"}
    BY <1>2 DEF CpuState
  <2>2. \A q \in Pid :
           /\ \A s \in Area : memory'[q][s] \in Seq(Frame)
           /\ memory'[q].syscall_sp \in SP /\ memory'[q].interrupt_sp \in SP
           /\ memory'[q].interrupt_cbar \in {"USER", "KERNEL"}
    BY <1>3, BlockFields DEF PageBlock
  <2> QED BY <1>1, <1>3, <2>1, <2>2 DEF TypeInv, TypeOK, Label
<1>8. CpuInv'
  <2>1. \A q \in Pid : state'[q] # "EMPTY" => state[q] # "EMPTY"
    BY DEF Alive
  <2>2. \A q \in Pid \ {p} : Alive(q)' => Cpu(q)'.pc \in IntOff
    BY <1>5, <1>6 DEF CtxInv, CpuInv
  <2>3. \A q \in Pid : state'[q] # "EMPTY" => q < next_pid'
    BY <1>3, <2>1 DEF CtxInv, CpuInv
  <2> QED BY <1>3, <2>2, <2>3 DEF CpuInv
<1>9. state' \in [Pid -> ProcState]
  BY DEF SchedTypeOK
<1>10. /\ PlacesInv' /\ ForkInv'
       /\ \A q \in Pid \ {p} : MachineOf(q)' = MachineOf(q)
       /\ MachineOf(p) = SeenAt(p, Place(p))
       /\ MachineOf(p)' = SeenAt(p, Settled(d))
  BY <1>1, <1>3, <1>4, <1>5, <1>6, <1>9, OneMoves
<1>11. Follows(MachineOf(p), MachineOf(p)')
  BY <1>10
<1>12. [Own!Next]_Machines
  BY <1>10, <1>11, ProgramStep
<1> QED BY <1>7, <1>8, <1>10, <1>12 DEF CtxInv

\* The scheduler has no part in it either.
LEMMA LocalStep ==
    ASSUME CtxInv, UNCHANGED <<schedVars, cbr, saved_sp, next_pid>>,
           trap_bit' \in BOOLEAN, sources' \in BOOLEAN, iff' \in BOOLEAN,
           NEW d, d = [pc |-> pc', a |-> a', sp |-> sp', cbar |-> cbar', m |-> d.m],
           memory' = [memory EXCEPT ![cbr] = d.m],
           HeldUp(d), InPlace(current_proc, Settled(d)),
           iff' <=> d.pc \notin IntOff,
           IsParent(current_proc, Settled(d)) =>
              /\ IsParent(current_proc, Place(current_proc))
              /\ SameFork(Place(current_proc), Settled(d)),
           Follows(SeenAt(current_proc, Place(current_proc)), SeenAt(current_proc, Settled(d)))
    PROVE  CtxInv' /\ [Own!Next]_Machines
<1>1. PICK p \in Pid : p = current_proc
  BY CurrentIsAlive
<1>2. /\ SchedTypeOK /\ SchedInv /\ saved_sp \in [Pid -> SP] /\ state[IDLE] \in Awake
  BY DEF CtxInv, TypeInv, TypeOK, CpuInv
<1>3. /\ current_proc' = p /\ saved_sp' = saved_sp /\ state' = state
      /\ process_ready_list' = process_ready_list /\ panicked' = panicked
  BY <1>1 DEF schedVars
<1>4. SchedTypeOK' /\ SchedInv'
  BY <1>1, <1>2, <1>3 DEF SchedTypeOK, SchedInv
<1>5. /\ InPlace(p, Settled(d))
      /\ IsParent(p, Settled(d)) => IsParent(p, Place(p)) /\ SameFork(Place(p), Settled(d))
      /\ Follows(SeenAt(p, Place(p)), SeenAt(p, Settled(d)))
  BY <1>1
<1> QED BY <1>1, <1>2, <1>3, <1>4, <1>5, StayStep

(***************************************************************************)
(* A switch: the process it leaves is held up at d, or has ended, and the  *)
(* one it goes to goes on where it was held up.                            *)
(***************************************************************************)
LEMMA SwitchStep ==
    ASSUME CtxInv, SchedTypeOK', SchedInv', NEW p \in Pid, p = current_proc,
           NEW m \in PageBlock, NEW s \in SP, s[2] <= Len(m[s[1]]),
           NEW label \in Name, NEW val \in Value,
           process_switch_from(m, s, label, val), UNCHANGED kernelVars,
           state'[IDLE] \in Awake, state'[p] # "EMPTY",
           \A q \in Pid \ {p} : state'[q] = state[q] \/ (Alive(q) /\ Alive(q)'),
           NEW d, d = [pc |-> label, a |-> 0, sp |-> Down(s), cbar |-> "KERNEL",
                       m |-> Push(m, s, Of(label, val))],
           Alive(p)' =>
              /\ label \in IntOff /\ HeldUp(d) /\ InPlace(p, Settled(d))
              /\ SeenAt(p, Settled(d)) = SeenAt(p, Place(p))
              /\ IsParent(p, Settled(d)) => IsParent(p, Place(p)) /\ SameFork(Place(p), Settled(d)),
           ~Alive(p)' => Machine("none", 0, <<>>) \in Own!Outcomes(SeenAt(p, Place(p)))
    PROVE  CtxInv' /\ [Own!Next]_Machines
<1>1. /\ Alive(p) /\ cbr = p /\ memory \in [Pid -> PageBlock] /\ TypeOK
      /\ saved_sp \in [Pid -> SP]
  BY CurrentIsAlive DEF CtxInv, CpuInv, TypeInv, TypeOK
<1>2. /\ d.m \in PageBlock /\ d.m = Push(m, s, Of(label, val)) /\ Down(s) \in SP
      /\ Top(d.m, Down(s)).ret = label
  <2>1. Of(label, val) \in Frame /\ Of(label, val).ret = label
    BY FrameFields
  <2>2. d.m = Push(m, s, Of(label, val))
    OBVIOUS
  <2>3. Push(m, s, Of(label, val)) \in PageBlock
        /\ Top(Push(m, s, Of(label, val)), Down(s)) = Of(label, val)
    BY <2>1, PushEffect
  <2> QED BY <2>1, <2>2, <2>3, SPFields
<1>3. /\ memory' = [memory EXCEPT ![p] = d.m]
      /\ saved_sp' = [saved_sp EXCEPT ![p] = Down(s)]
      /\ cbr' = current_proc' /\ sp' = saved_sp'[current_proc']
      /\ pc' = Top(memory'[cbr'], sp').ret /\ a' = 0 /\ iff' = FALSE /\ cbar' = "KERNEL"
  BY <1>1, <1>2 DEF process_switch_from, Store
<1>4. /\ memory' \in [Pid -> PageBlock] /\ memory'[p] = d.m
      /\ \A q \in Pid \ {p} : memory'[q] = memory[q]
      /\ saved_sp' \in [Pid -> SP] /\ saved_sp'[p] = Down(s)
      /\ \A q \in Pid \ {p} : saved_sp'[q] = saved_sp[q]
      /\ next_pid' = next_pid /\ trap_bit' = trap_bit /\ sources' = sources
  BY <1>1, <1>2, <1>3 DEF kernelVars, trapVars
<1>5. PICK n \in Pid : n = current_proc'
  BY DEF SchedTypeOK
<1>6. \A q \in Pid : Cpu(q)' = [pc |-> Top(memory'[q], saved_sp'[q]).ret, a |-> 0,
                                sp |-> saved_sp'[q], cbar |-> "KERNEL", m |-> memory'[q]]
  BY <1>3 DEF Cpu, Here
<1>7. Cpu(p)' = d
  BY <1>2, <1>4, <1>6
<1>8. \A q \in Pid \ {p} : Cpu(q)' = Cpu(q)
  BY <1>4, <1>6 DEF Cpu
<1>9. state' \in [Pid -> ProcState]
  BY DEF SchedTypeOK
<1>10. /\ PlacesInv' /\ ForkInv'
       /\ \A q \in Pid \ {p} : MachineOf(q)' = MachineOf(q)
       /\ MachineOf(p) = SeenAt(p, Place(p))
       /\ Alive(p)' => MachineOf(p)' = SeenAt(p, Settled(d))
       /\ ~Alive(p)' => MachineOf(p)' = Machine("none", 0, <<>>)
  BY <1>1, <1>4, <1>7, <1>8, <1>9, OneMoves
<1>11. Alive(n)' /\ Cpu(n)' = [pc |-> pc', a |-> a', sp |-> sp', cbar |-> cbar', m |-> memory'[n]]
  <2>1. state'[n] = "RUNNING"
    BY <1>5 DEF SchedInv
  <2> QED BY <1>3, <1>5, <1>6, <2>1 DEF Alive
<1>12. TypeInv'
  <2>1. Cpu(n)' \in CpuState
    BY <1>10, <1>11 DEF PlacesInv, HeldUp
  <2>2. pc' \in Label /\ a' \in Value /\ sp' \in SP /\ cbar' \in {"USER", "KERNEL"}
    BY <1>11, <2>1 DEF CpuState
  <2>3. \A q \in Pid :
           /\ \A x \in Area : memory'[q][x] \in Seq(Frame)
           /\ memory'[q].syscall_sp \in SP /\ memory'[q].interrupt_sp \in SP
           /\ memory'[q].interrupt_cbar \in {"USER", "KERNEL"}
    BY <1>4, BlockFields DEF PageBlock
  <2> QED BY <1>1, <1>3, <1>4, <1>5, <2>2, <2>3 DEF TypeInv, TypeOK, Label
<1>13. \A q \in Pid : Alive(q)' /\ q # p => Alive(q)
  BY DEF Alive
<1>14. CpuInv'
  <2>1. \A q \in Pid \ {p} : Alive(q)' => Cpu(q)'.pc \in IntOff
    BY <1>1, <1>8, <1>13 DEF CtxInv, CpuInv
  <2>2. Alive(p)' => Cpu(p)'.pc \in IntOff
    BY <1>7
  <2>3. pc' \in IntOff
    BY <1>11, <2>1, <2>2
  <2>4. \A q \in Pid : state'[q] # "EMPTY" => q < next_pid'
    <3>1. \A q \in Pid : state'[q] # "EMPTY" => state[q] # "EMPTY"
      BY <1>1 DEF Alive
    <3> QED BY <1>4, <3>1 DEF CtxInv, CpuInv
  <2> QED BY <1>3, <2>1, <2>2, <2>3, <2>4 DEF CpuInv
<1>15. Follows(MachineOf(p), MachineOf(p)')
  BY <1>10 DEF Follows
<1>16. [Own!Next]_Machines
  BY <1>10, <1>15, ProgramStep
<1> QED BY <1>10, <1>12, <1>14, <1>16 DEF CtxInv

-----------------------------------------------------------------------------
(* Interrupts.                                                               *)

\* interrupt_enter for the process at c, as the operator of Context does it for
\* the CPU.
Entered(c) ==
    [Push(c.m, c.sp, Of(c.pc, c.a)) EXCEPT !.interrupt_sp = Down(c.sp), !.interrupt_cbar = c.cbar]

\* interrupt_leave finds what interrupt_enter saved.
LEMMA EnterEffect ==
    ASSUME NEW p \in Pid, NEW c, InPlace(p, c)
    PROVE  LET n == Push(Entered(c), InterruptStack, Of("interrupt_leave", 0))
               d == [pc |-> "interrupt_leave", a |-> 0, sp |-> Down(InterruptStack),
                     cbar |-> "KERNEL", m |-> n]
           IN  /\ Entered(c) \in PageBlock /\ InterruptStack \in SP
               /\ InterruptStack[2] <= Len(Entered(c)[InterruptStack[1]])
               /\ HeldUp(d) /\ InPlace(p, Settled(d))
               /\ SeenAt(p, Settled(d)) = SeenAt(p, c)
               /\ IsParent(p, Settled(d)) => IsParent(p, c) /\ SameFork(c, Settled(d))
<1> DEFINE f == Of(c.pc, c.a)
           n1 == Push(c.m, c.sp, f)
           n2 == Entered(c)
           g == Of("interrupt_leave", 0)
           n == Push(n2, InterruptStack, g)
           d == [pc |-> "interrupt_leave", a |-> 0, sp |-> Down(InterruptStack),
                 cbar |-> "KERNEL", m |-> n]
<1>1. /\ c.m \in PageBlock /\ c.sp \in SP /\ c.sp[2] <= Len(c.m[c.sp[1]])
      /\ c.pc \in Name /\ c.pc \in Label /\ c.pc \notin IntOff
      /\ c.a \in Value /\ c.cbar \in {"USER", "KERNEL"}
      /\ c.sp[1] \in StackArea
  <2>1. c \in CpuState /\ c.sp = StackAt(c.pc) /\ c.sp[2] <= Len(c.m[c.sp[1]]) /\ c.pc \notin IntOff
    BY DEF InPlace
  <2>2. c.pc \in Name
    BY <2>1 DEF CpuState, Name
  <2>3. c.sp[1] \in StackArea
    BY <2>1 DEF CpuState, Label, InUser, InKernel, InStart, StackAt, StackArea
  <2> QED BY <2>1, <2>2, <2>3 DEF CpuState
<1>2. f \in Frame /\ f.ret = c.pc /\ f.val = c.a
  BY <1>1, FrameFields
<1>3. g \in Frame /\ g.ret = "interrupt_leave"
  BY ValueType, FrameFields DEF Name, Label, IntOff
<1> HIDE DEF f, g
<1>4. /\ n1 \in PageBlock
      /\ Len(n1[c.sp[1]]) = c.sp[2] + 1 /\ n1[c.sp[1]][c.sp[2] + 1] = f
      /\ \A i \in 1 .. c.sp[2] : n1[c.sp[1]][i] = c.m[c.sp[1]][i]
      /\ \A x \in Area \ {c.sp[1]} : n1[x] = c.m[x]
      /\ n1.syscall_sp = c.m.syscall_sp
  <2> DEFINE b == c.m
             s == c.sp
  <2>1. b \in PageBlock /\ s \in SP /\ s[2] <= Len(b[s[1]]) /\ f \in Frame
    BY <1>1, <1>2
  <2> HIDE DEF b, s
  <2>2. /\ Push(b, s, f) \in PageBlock
        /\ Len(Push(b, s, f)[s[1]]) = s[2] + 1 /\ Push(b, s, f)[s[1]][s[2] + 1] = f
        /\ \A i \in 1 .. s[2] : Push(b, s, f)[s[1]][i] = b[s[1]][i]
        /\ \A x \in Area \ {s[1]} : Push(b, s, f)[x] = b[x]
        /\ Push(b, s, f).syscall_sp = b.syscall_sp
    BY <2>1, PushEffect
  <2> QED BY <2>2 DEF b, s
<1>5. n2 = [n1 EXCEPT !.interrupt_sp = Down(c.sp), !.interrupt_cbar = c.cbar]
  BY DEF Entered, f
<1> HIDE DEF n1
<1>6. /\ n2 \in PageBlock /\ \A x \in Area : n2[x] = n1[x]
      /\ n2.syscall_sp = n1.syscall_sp /\ n2.interrupt_sp = Down(c.sp) /\ n2.interrupt_cbar = c.cbar
  <2> HIDE DEF n2
  <2>1. Down(c.sp) \in SP
    BY <1>1, SPFields
  <2> QED BY <1>1, <1>4, <1>5, <2>1 DEF PageBlock, Area
<1> HIDE DEF n2
<1>7. InterruptStack \in SP /\ InterruptStack[2] = 0 /\ InterruptStack[1] = "interrupt"
  BY DEF InterruptStack, SP, Area
<1>8. 0 <= Len(n2["interrupt"])
  BY <1>6, BlockFields DEF Area
<1>9. /\ n \in PageBlock /\ Len(n["interrupt"]) = 1
      /\ \A x \in Area \ {"interrupt"} : n[x] = n2[x]
      /\ n.syscall_sp = n2.syscall_sp /\ n.interrupt_sp = n2.interrupt_sp
      /\ n.interrupt_cbar = n2.interrupt_cbar
  <2>1. InterruptStack[2] <= Len(n2[InterruptStack[1]])
    BY <1>7, <1>8
  <2>2. /\ n \in PageBlock /\ Len(n[InterruptStack[1]]) = InterruptStack[2] + 1
        /\ \A x \in Area \ {InterruptStack[1]} : n[x] = n2[x]
        /\ n.syscall_sp = n2.syscall_sp /\ n.interrupt_sp = n2.interrupt_sp
        /\ n.interrupt_cbar = n2.interrupt_cbar
    BY <1>3, <1>6, <1>7, <2>1, PushEffect
  <2> QED BY <1>7, <2>2
<1> HIDE DEF n
<1>10. /\ n.interrupt_sp = Down(c.sp) /\ Down(c.sp) \in SP
       /\ Down(c.sp)[1] = c.sp[1] /\ Down(c.sp)[2] = c.sp[2] + 1 /\ Up(Down(c.sp)) = c.sp
       /\ c.sp[2] \in Nat /\ c.sp[1] \in Area \ {"interrupt"}
       /\ Down(InterruptStack) = <<"interrupt", 1>> /\ Down(InterruptStack) \in SP
  <2>1. c.sp[1] \in Area \ {"interrupt"}
    BY <1>1 DEF StackArea, Area
  <2>2. Down(InterruptStack) = <<"interrupt", 1>>
    BY DEF InterruptStack, Down
  <2> QED BY <1>1, <1>6, <1>7, <1>9, <2>1, <2>2, SPFields
<1>11. Top(n, n.interrupt_sp) = f
  <2>1. n[c.sp[1]] = n1[c.sp[1]]
    BY <1>6, <1>9, <1>10
  <2>2. Down(c.sp)[2] \in 1 .. Len(n[Down(c.sp)[1]]) /\ n[Down(c.sp)[1]][Down(c.sp)[2]] = f
    BY <1>4, <1>10, <2>1
  <2> QED BY <1>9, <1>10, <2>2, TopFrame
<1>12. d \in CpuState
  BY <1>9, <1>10, ValueType DEF CpuState, Label, IntOff
<1>13. HeldUp(d)
  <2>1. n.interrupt_sp[1] \in StackArea /\ n.interrupt_sp[2] \in 1 .. Len(n[n.interrupt_sp[1]])
    BY <1>1, <1>4, <1>6, <1>9, <1>10
  <2>2. d.pc = "interrupt_leave" /\ d.sp = <<"interrupt", 1>> /\ d.cbar = "KERNEL" /\ d.m = n
    BY <1>10
  <2> HIDE DEF d
  <2>3. 1 <= Len(d.m.interrupt)
    BY <1>9, <2>2
  <2> QED BY <1>12, <2>1, <2>2, <2>3 DEF HeldUp
<1>14. Settled(d) = [pc |-> c.pc, a |-> c.a, sp |-> c.sp, cbar |-> c.cbar, m |-> n]
  <2>1. Settled(d) = [pc |-> Top(d.m, d.m.interrupt_sp).ret, a |-> Top(d.m, d.m.interrupt_sp).val,
                      sp |-> Up(d.m.interrupt_sp), cbar |-> d.m.interrupt_cbar, m |-> d.m]
    BY <1>12, SettledIs
  <2>2. d.m = n /\ n.interrupt_cbar = c.cbar
    BY <1>6, <1>9
  <2> QED BY <1>2, <1>10, <1>11, <2>1, <2>2
<1>15. Settled(d) \in CpuState
  BY <1>1, <1>9, <1>14 DEF CpuState
<1>16. Agree(c.m, n, c.sp)
  <2>1. n[c.sp[1]] = n1[c.sp[1]] /\ \A x \in StackArea \ {c.sp[1]} : n[x] = c.m[x]
    BY <1>4, <1>6, <1>9, <1>10 DEF StackArea, Area
  <2> QED BY <1>4, <1>6, <1>9, <1>10, <2>1 DEF Agree
<1> HIDE DEF d
<1>17. /\ InPlace(p, Settled(d)) /\ SeenAt(p, Settled(d)) = SeenAt(p, c)
       /\ Settled(d).pc \in {"copied", "forked"} =>
             /\ Settled(d).m.user = c.m.user /\ Settled(d).m.syscall_sp = c.m.syscall_sp
             /\ \A i \in 1 .. 3 : Settled(d).m.kernel[i] = c.m.kernel[i]
  BY <1>14, <1>15, <1>16, DeadIsUnseen
<1>18. IsParent(p, Settled(d)) => IsParent(p, c) /\ SameFork(c, Settled(d))
  BY <1>14, <1>17 DEF IsParent, SameFork
<1> QED BY <1>6, <1>7, <1>8, <1>13, <1>17, <1>18 DEF d, n, n2, g

-----------------------------------------------------------------------------
(* The steps, one by one.                                                    *)

Good == CtxInv' /\ [Own!Next]_Machines

\* The current process and its CPU as constants.
IsNow(p, c) ==
    /\ p = current_proc /\ c = [pc |-> pc, a |-> a, sp |-> sp, cbar |-> cbar, m |-> c.m]
    /\ c.m = memory[cbr]

LEMMA Now ==
    ASSUME CtxInv
    PROVE  \E p \in Pid, c \in CpuState : IsNow(p, c)
<1>1. /\ current_proc \in Pid
      /\ [pc |-> pc, a |-> a, sp |-> sp, cbar |-> cbar, m |-> Here] \in CpuState
  BY CurrentIsAlive DEF HeldUp
<1> QED BY <1>1 DEF IsNow, Here

LEMMA NowIs ==
    ASSUME CtxInv, NEW p \in Pid, NEW c \in CpuState, IsNow(p, c)
    PROVE  /\ p = current_proc /\ cbr = p /\ Alive(p) /\ Here = c.m /\ c.m \in PageBlock
           /\ c.pc = pc /\ c.a = a /\ c.sp = sp /\ c.cbar = cbar
           /\ c = [pc |-> pc, a |-> a, sp |-> sp, cbar |-> cbar, m |-> c.m]
           /\ Cpu(p) = c /\ HeldUp(c) /\ Place(p) = Settled(c) /\ InPlace(p, Place(p))
           /\ pc \notin IntOff => Place(p) = c
           /\ iff <=> pc \notin IntOff
           /\ iff \in BOOLEAN /\ trap_bit \in BOOLEAN /\ sources \in BOOLEAN
           /\ state[p] = "RUNNING" /\ ~panicked
<1>1. /\ p = current_proc /\ cbr = p /\ Here = c.m /\ Cpu(p) = c
      /\ c = [pc |-> pc, a |-> a, sp |-> sp, cbar |-> cbar, m |-> c.m]
  BY DEF IsNow, Here, Cpu, CtxInv, CpuInv
<1>2. c.m \in PageBlock
  BY DEF CpuState
<1>3. pc \notin IntOff => Settled(c) = c
  BY <1>1, SettledIs
<1> QED BY <1>1, <1>2, <1>3, CurrentIsAlive DEF Place, CtxInv, TypeInv, TypeOK, CpuInv

LEMMA InPlaceStep ==
    ASSUME CtxInv, UNCHANGED <<schedVars, cbr, saved_sp, next_pid>>,
           trap_bit' \in BOOLEAN, sources' \in BOOLEAN, iff' = TRUE,
           NEW p \in Pid, p = current_proc,
           NEW d, d = [pc |-> pc', a |-> a', sp |-> sp', cbar |-> cbar', m |-> d.m],
           memory' = [memory EXCEPT ![cbr] = d.m], InPlace(p, d),
           IsParent(p, d) => IsParent(p, Place(p)) /\ SameFork(Place(p), d),
           Follows(SeenAt(p, Place(p)), SeenAt(p, d))
    PROVE  Good
<1>1. d \in CpuState /\ d.pc \notin IntOff
  BY DEF InPlace
<1>2. Settled(d) = d
  BY <1>1, SettledIs
<1>3. HeldUp(d)
  BY <1>1 DEF HeldUp, IntOff
<1> QED BY <1>1, <1>2, <1>3, LocalStep DEF Good

\* A process that was held up, and is not any more.
LEMMA BackInPlace ==
    ASSUME CtxInv, UNCHANGED <<schedVars, cbr, saved_sp, next_pid>>, UNCHANGED trapVars,
           iff' = TRUE, NEW p \in Pid, NEW c \in CpuState, IsNow(p, c),
           NEW e, e = Place(p), pc' = e.pc, a' = e.a, sp' = e.sp, cbar' = e.cbar,
           NEW n \in PageBlock, memory' = [memory EXCEPT ![cbr] = n], Agree(e.m, n, e.sp)
    PROVE  Good
<1> DEFINE d == [pc |-> e.pc, a |-> e.a, sp |-> e.sp, cbar |-> e.cbar, m |-> n]
<1>1. p = current_proc /\ InPlace(p, e) /\ trap_bit' \in BOOLEAN /\ sources' \in BOOLEAN
  BY NowIs DEF trapVars
<1>2. /\ d \in CpuState /\ d.m = n /\ d.pc = e.pc /\ d.a = e.a /\ d.sp = e.sp /\ d.cbar = e.cbar
      /\ d = [pc |-> pc', a |-> a', sp |-> sp', cbar |-> cbar', m |-> d.m]
  BY <1>1 DEF InPlace, CpuState
<1> HIDE DEF d
<1>3. /\ InPlace(p, d) /\ SeenAt(p, d) = SeenAt(p, e)
      /\ d.pc \in {"copied", "forked"} =>
            /\ d.m.user = e.m.user /\ d.m.syscall_sp = e.m.syscall_sp
            /\ \A i \in 1 .. 3 : d.m.kernel[i] = e.m.kernel[i]
  BY <1>1, <1>2, DeadIsUnseen
<1>4. IsParent(p, d) => IsParent(p, e) /\ SameFork(e, d)
  BY <1>2, <1>3 DEF IsParent, SameFork
<1> QED BY <1>1, <1>2, <1>3, <1>4, InPlaceStep DEF Follows

LEMMA DeviceStep == CtxInv /\ int_device => Good
<1> SUFFICES ASSUME CtxInv, int_device PROVE Good
  OBVIOUS
<1>1. PICK p \in Pid, c \in CpuState : IsNow(p, c)
  BY Now
<1>2. /\ p = current_proc /\ cbr = p /\ Here = c.m
      /\ c.pc = pc /\ c.a = a /\ c.sp = sp /\ c.cbar = cbar
      /\ Place(p) = c /\ InPlace(p, c) /\ trap_bit \in BOOLEAN /\ sources \in BOOLEAN
  BY <1>1, NowIs DEF int_device, Interruptible
<1>3. interrupt_enter(Here) = Entered(c)
  BY <1>2 DEF interrupt_enter, Entered
<1> DEFINE n == Push(Entered(c), InterruptStack, Of("interrupt_leave", 0))
<1>4. PICK d : d = [pc |-> "interrupt_leave", a |-> 0, sp |-> Down(InterruptStack),
                    cbar |-> "KERNEL", m |-> n]
  OBVIOUS
<1>5. /\ HeldUp(d) /\ InPlace(p, Settled(d)) /\ SeenAt(p, Settled(d)) = SeenAt(p, c)
      /\ IsParent(p, Settled(d)) => IsParent(p, c) /\ SameFork(c, Settled(d))
  BY <1>2, <1>4, EnterEffect
<1>6. /\ pc' = "interrupt_leave" /\ a' = 0 /\ sp' = Down(InterruptStack) /\ iff' = FALSE
      /\ cbar' = "KERNEL" /\ memory' = [memory EXCEPT ![cbr] = n]
      /\ UNCHANGED <<schedVars, cbr, saved_sp, next_pid>>
      /\ trap_bit' = trap_bit /\ sources' = sources
  BY <1>3 DEF int_device, Store, Goto, kernelVars, trapVars
<1> HIDE DEF n
<1>7. /\ d = [pc |-> pc', a |-> a', sp |-> sp', cbar |-> cbar', m |-> d.m] /\ d.m = n
      /\ iff' \in BOOLEAN /\ (iff' <=> d.pc \notin IntOff)
  BY <1>4, <1>6 DEF IntOff
<1> QED BY <1>2, <1>5, <1>6, <1>7, LocalStep DEF Follows, Good

LEMMA InterruptLeaveStep == CtxInv /\ interrupt_leave => Good
<1> SUFFICES ASSUME CtxInv, interrupt_leave PROVE Good
  OBVIOUS
<1>1. PICK p \in Pid, c \in CpuState : IsNow(p, c)
  BY Now
<1>2. /\ p = current_proc /\ cbr = p /\ Here = c.m /\ c.m \in PageBlock /\ HeldUp(c)
      /\ c.pc = "interrupt_leave" /\ Place(p) = Settled(c) /\ InPlace(p, Place(p))
  BY <1>1, NowIs DEF interrupt_leave, At
<1> DEFINE s == c.m.interrupt_sp
           r == Restored(c.m)
           n == Pop(r, s)
<1>3. PICK e : e = Place(p)
  OBVIOUS
<1>4. /\ e = [pc |-> Top(c.m, s).ret, a |-> Top(c.m, s).val, sp |-> Up(s),
              cbar |-> c.m.interrupt_cbar, m |-> c.m]
      /\ s \in SP /\ s[1] \in StackArea /\ s[2] \in 1 .. Len(c.m[s[1]])
  BY <1>2, <1>3, SettledIs DEF HeldUp, PageBlock
<1>5. /\ pc' = Top(r, s).ret /\ sp' = Up(s) /\ memory' = [memory EXCEPT ![cbr] = n]
      /\ a' = Top(c.m, s).val /\ cbar' = c.m.interrupt_cbar /\ iff' = TRUE
      /\ UNCHANGED <<schedVars, cbr, saved_sp, next_pid>> /\ UNCHANGED trapVars
  BY <1>2 DEF interrupt_leave, Ret, Goto, Store, kernelVars
<1>6. /\ r \in PageBlock /\ r.syscall_sp = c.m.syscall_sp
      /\ \A x \in StackArea : r[x] = c.m[x]
  <2>1. <<>> \in Seq(Frame) /\ Reset \in SP
    BY EmptySeq DEF Reset, SP, Area
  <2>2. r = [c.m EXCEPT !.interrupt = <<>>, !.interrupt_sp = Reset, !.interrupt_cbar = "KERNEL"]
    BY DEF Restored
  <2> HIDE DEF r
  <2> QED BY <1>2, <2>1, <2>2 DEF PageBlock, StackArea
<1> HIDE DEF r, s
<1>7. Top(r, s) = Top(c.m, s)
  BY <1>4, <1>6 DEF Top
<1>8. n \in PageBlock /\ Agree(r, n, Up(s))
  BY <1>4, <1>6, PopEffect
<1>9. Up(s)[1] \in StackArea
  BY <1>4, SPFields
<1> HIDE DEF n
<1>10. Agree(c.m, n, Up(s))
  BY <1>6, <1>8, <1>9 DEF Agree
<1>11. /\ pc' = e.pc /\ a' = e.a /\ sp' = e.sp /\ cbar' = e.cbar /\ e.m = c.m /\ e.sp = Up(s)
  BY <1>4, <1>5, <1>7
<1> QED BY <1>1, <1>3, <1>5, <1>8, <1>10, <1>11, BackInPlace

LEMMA ResumeStep == CtxInv /\ Resume => Good
<1> SUFFICES ASSUME CtxInv, Resume PROVE Good
  OBVIOUS
<1>1. PICK p \in Pid, c \in CpuState : IsNow(p, c)
  BY Now
<1>2. /\ p = current_proc /\ cbr = p /\ Here = c.m /\ c.m \in PageBlock /\ HeldUp(c)
      /\ c.a = a /\ c.sp = sp /\ c.cbar = cbar
      /\ c.pc = "blocked" /\ Place(p) = Settled(c) /\ InPlace(p, Place(p))
  BY <1>1, NowIs DEF Resume, At
<1>3. /\ Place(p) = [pc |-> "kernel", a |-> c.a, sp |-> Up(c.sp), cbar |-> c.cbar, m |-> c.m]
      /\ c.sp = <<"kernel", 2>> /\ c.sp \in SP /\ 2 <= Len(c.m.kernel) /\ c.m.kernel[2].val = 1
  BY <1>2, SettledIs DEF HeldUp, CpuState
<1>4. /\ c.sp[2] \in 1 .. Len(c.m[c.sp[1]]) /\ Top(c.m, c.sp) = c.m.kernel[2]
  <2>1. Len(c.m.kernel) \in Nat
    BY <1>2, BlockFields DEF Area
  <2>2. c.sp[2] \in 1 .. Len(c.m[c.sp[1]])
    BY <1>3, <2>1
  <2>3. Top(c.m, c.sp) = c.m[c.sp[1]][c.sp[2]]
    BY <1>2, <1>3, <2>2, TopFrame
  <2> QED BY <1>3, <2>2, <2>3
<1> DEFINE n == Pop(c.m, c.sp)
<1>5. /\ pc' = "kernel" /\ sp' = Up(c.sp) /\ memory' = [memory EXCEPT ![cbr] = n]
      /\ a' = c.a /\ cbar' = c.cbar /\ iff' = TRUE
      /\ UNCHANGED <<schedVars, cbr, saved_sp, next_pid>> /\ UNCHANGED trapVars
  BY <1>2, <1>3, <1>4 DEF Resume, Goto, Store, kernelVars
<1>6. n \in PageBlock /\ Agree(c.m, n, Up(c.sp))
  BY <1>2, <1>3, <1>4, PopEffect
<1> HIDE DEF n
<1>7. PICK e : e = Place(p)
  OBVIOUS
<1>8. /\ pc' = e.pc /\ a' = e.a /\ sp' = e.sp /\ cbar' = e.cbar /\ e.m = c.m /\ e.sp = Up(c.sp)
  BY <1>3, <1>5, <1>7
<1> QED BY <1>1, <1>5, <1>6, <1>7, <1>8, BackInPlace

LEMMA ReentryStep == CtxInv /\ sys_fork_child_reentry => Good
<1> SUFFICES ASSUME CtxInv, sys_fork_child_reentry PROVE Good
  OBVIOUS
<1>1. PICK p \in Pid, c \in CpuState : IsNow(p, c)
  BY Now
<1>2. /\ p = current_proc /\ cbr = p /\ Here = c.m /\ c.m \in PageBlock /\ HeldUp(c)
      /\ c.a = a /\ c.sp = sp /\ c.cbar = cbar
      /\ c.pc = "reentry" /\ Place(p) = Settled(c) /\ InPlace(p, Place(p))
  BY <1>1, NowIs DEF sys_fork_child_reentry, At
<1>3. /\ Place(p) = [pc |-> "forked", a |-> c.a, sp |-> Up(c.sp), cbar |-> c.cbar, m |-> c.m]
      /\ c.sp = <<"kernel", 4>> /\ c.sp \in SP /\ 4 <= Len(c.m.kernel)
  BY <1>2, SettledIs DEF HeldUp, CpuState
<1>4. c.sp[2] \in 1 .. Len(c.m[c.sp[1]])
  <2>1. Len(c.m.kernel) \in Nat
    BY <1>2, BlockFields DEF Area
  <2> QED BY <1>3, <2>1
<1> DEFINE n == Pop(c.m, c.sp)
<1>5. /\ pc' = "forked" /\ sp' = Up(c.sp) /\ memory' = [memory EXCEPT ![cbr] = n]
      /\ a' = c.a /\ cbar' = c.cbar /\ iff' = TRUE
      /\ UNCHANGED <<schedVars, cbr, saved_sp, next_pid>> /\ UNCHANGED trapVars
  BY <1>2 DEF sys_fork_child_reentry, ei, Goto, Store, kernelVars
<1>6. n \in PageBlock /\ Agree(c.m, n, Up(c.sp))
  BY <1>2, <1>3, <1>4, PopEffect
<1> HIDE DEF n
<1>7. PICK e : e = Place(p)
  OBVIOUS
<1>8. /\ pc' = e.pc /\ a' = e.a /\ sp' = e.sp /\ cbar' = e.cbar /\ e.m = c.m /\ e.sp = Up(c.sp)
  BY <1>3, <1>5, <1>7
<1> QED BY <1>1, <1>5, <1>6, <1>7, <1>8, BackInPlace

\* A step between two places outside sys_fork.
LEMMA PlainStep ==
    ASSUME CtxInv, UNCHANGED <<schedVars, cbr, saved_sp, next_pid, iff>>,
           trap_bit' \in BOOLEAN, sources' \in BOOLEAN,
           NEW p \in Pid, NEW c \in CpuState, IsNow(p, c), c.pc \notin IntOff,
           NEW d, d = [pc |-> pc', a |-> a', sp |-> sp', cbar |-> cbar', m |-> d.m],
           (memory' = memory /\ d.m = c.m) \/ memory' = [memory EXCEPT ![cbr] = d.m],
           InPlace(p, d), d.pc \notin {"copied", "forked"},
           Follows(SeenAt(p, c), SeenAt(p, d))
    PROVE  Good
<1>1. p = current_proc /\ Place(p) = c /\ iff' = TRUE /\ c.m = memory[cbr] /\ cbr = p
  BY NowIs DEF IsNow
<1>2. memory' = [memory EXCEPT ![cbr] = d.m]
  BY <1>1 DEF CtxInv, TypeInv
<1> QED BY <1>1, <1>2, InPlaceStep DEF IsParent

LEMMA KeptIs ==
    ASSUME CtxInv, Kept
    PROVE  /\ UNCHANGED <<schedVars, cbr, saved_sp, next_pid, iff>>
           /\ trap_bit' \in BOOLEAN /\ sources' \in BOOLEAN
BY DEF Kept, kernelVars, trapVars, CtxInv, TypeInv, TypeOK

\* A stack is live up to its length.
LEMMA LiveAll ==
    ASSUME NEW m \in PageBlock, NEW x \in Area, NEW k \in Nat, k = Len(m[x])
    PROVE  Live(m, <<x, k>>) = m[x]
<1>1. /\ Live(m, <<x, k>>) \in Seq(Frame) /\ Len(Live(m, <<x, k>>)) = k
      /\ \A i \in 1 .. k : Live(m, <<x, k>>)[i] = m[x][i]
  BY LivePart
<1> QED BY <1>1, BlockFields, SeqEqual

LEMMA CallStep == CtxInv /\ Call => Good
<1> SUFFICES ASSUME CtxInv, Call PROVE Good
  OBVIOUS
<1>1. PICK p \in Pid, c \in CpuState : IsNow(p, c)
  BY Now
<1>2. /\ Here = c.m /\ c.m \in PageBlock /\ c.a = a /\ c.sp = sp /\ c.cbar = cbar
      /\ c.pc = "user" /\ c.pc \notin IntOff /\ InPlace(p, c) /\ c.a \in Value
  BY <1>1, NowIs DEF Call, At, IntOff, CpuState
<1>3. /\ c.sp = <<"user", 1>> /\ c.sp \in SP /\ c.cbar = "USER" /\ c.sp[2] <= Len(c.m[c.sp[1]])
      /\ p # IDLE
  BY <1>2 DEF InPlace, StackAt, MapAt, InKernel, CpuState
<1> DEFINE f == Of("user", c.a)
           n == Push(c.m, c.sp, f)
<1>4. f \in Frame /\ f.ret = "user" /\ f = [ret |-> "user", val |-> c.a]
  BY <1>2, FrameFields DEF Name, Label, InUser, Of
<1> HIDE DEF f
<1>5. /\ n \in PageBlock /\ n["user"] = Append(Live(c.m, <<"user", 1>>), f)
      /\ Len(n["user"]) = 2 /\ n["user"][2] = f
  <2>1. /\ n \in PageBlock /\ n[c.sp[1]] = Append(Live(c.m, c.sp), f)
        /\ Len(n[c.sp[1]]) = c.sp[2] + 1 /\ n[c.sp[1]][c.sp[2] + 1] = f
    BY <1>2, <1>3, <1>4, PushEffect
  <2> QED BY <1>3, <2>1
<1>6. pc' = "syscall" /\ a' = 0 /\ sp' = <<"user", 2>> /\ cbar' = "USER"
      /\ memory' = [memory EXCEPT ![cbr] = n] /\ Kept
  BY <1>2, <1>3 DEF Call, Goto, Store, Down, f
<1> HIDE DEF n
<1>7. PICK d : d = [pc |-> "syscall", a |-> 0, sp |-> <<"user", 2>>, cbar |-> "USER", m |-> n]
  OBVIOUS
<1>8. InPlace(p, d)
  <2>1. d \in CpuState
    BY <1>5, <1>7, ValueType DEF CpuState, Label, InUser, SP, Area
  <2> QED BY <1>3, <1>4, <1>5, <1>7, <2>1 DEF InPlace, StackAt, MapAt, InKernel, IntOff
<1>9. SeenAt(p, d) \in Own!Outcomes(SeenAt(p, c))
  <2>0. Live(n, <<"user", 2>>) = n["user"]
    BY <1>5, LiveAll DEF Area
  <2>1. SeenAt(p, d) = Machine("call", 0, n["user"])
    BY <1>7, <1>8, <2>0, SeenAtPlace
  <2>2. SeenAt(p, c) = Machine("user", c.a, Live(c.m, <<"user", 1>>))
    BY <1>2, SeenAtPlace
  <2> QED BY <1>4, <1>5, <2>1, <2>2 DEF Machine, Own!Outcomes, Own!Called, Own!Machine
<1> QED BY <1>1, <1>2, <1>6, <1>7, <1>8, <1>9, KeptIs, PlainStep DEF Follows

LEMMA ComputeStep == CtxInv /\ Compute => Good
<1> SUFFICES ASSUME CtxInv, Compute PROVE Good
  OBVIOUS
<1>1. PICK p \in Pid, c \in CpuState : IsNow(p, c)
  BY Now
<1>2. /\ Here = c.m /\ c.m \in PageBlock /\ c.a = a /\ c.sp = sp /\ c.cbar = cbar /\ c.pc = pc
      /\ c.pc = "user" /\ c.pc \notin IntOff /\ InPlace(p, c) /\ c.a \in Value
  BY <1>1, NowIs DEF Compute, At, IntOff, CpuState
<1>3. /\ c.sp = <<"user", 1>> /\ c.sp \in SP /\ c.cbar = "USER" /\ 1 <= Len(c.m["user"])
      /\ p # IDLE
  BY <1>2 DEF InPlace, StackAt, MapAt, InKernel, CpuState
<1>4. PICK w \in Word :
         \/ a' = w /\ UNCHANGED memory
         \/ Store([c.m EXCEPT !.user[1].val = w]) /\ UNCHANGED a
  BY <1>2 DEF Compute
<1>5. pc' = c.pc /\ sp' = c.sp /\ cbar' = c.cbar /\ Kept
  BY <1>2 DEF Compute
<1>6. w \in Value
  BY ValueType
<1>7. SeenAt(p, c) = Machine("user", c.a, Live(c.m, <<"user", 1>>))
  BY <1>2, SeenAtPlace
<1>8. CASE a' = w /\ UNCHANGED memory
  <2>1. PICK d : d = [pc |-> "user", a |-> w, sp |-> c.sp, cbar |-> c.cbar, m |-> c.m]
    OBVIOUS
  <2>2. InPlace(p, d)
    <3>1. d \in CpuState
      BY <1>2, <1>6, <2>1 DEF CpuState
    <3> QED BY <1>2, <2>1, <3>1 DEF InPlace
  <2>3. SeenAt(p, d) = Machine("user", w, Live(c.m, <<"user", 1>>))
    BY <2>1, <2>2, SeenAtPlace
  <2>4. SeenAt(p, d) \in Own!Outcomes(SeenAt(p, c))
    BY <1>7, <2>3 DEF Machine, Own!Outcomes, Own!Computed
  <2> QED BY <1>1, <1>2, <1>5, <1>8, <2>1, <2>2, <2>4, KeptIs, PlainStep DEF Follows
<1>9. CASE Store([c.m EXCEPT !.user[1].val = w]) /\ UNCHANGED a
  <2> DEFINE n == [c.m EXCEPT !.user[1].val = w]
             u == c.m["user"]
             v == [u EXCEPT ![1].val = w]
  <2>1. u \in Seq(Frame) /\ Len(u) \in Nat /\ 1 \in 1 .. Len(u) /\ u[1] \in Frame
    BY <1>2, <1>3, BlockFields DEF Area
  <2>2. /\ v \in Seq(Frame) /\ Len(v) = Len(u) /\ v[1] = [u[1] EXCEPT !.val = w]
    <3>1. [u[1] EXCEPT !.val = w] \in Frame
      BY <1>6, <2>1 DEF Frame
    <3>2. v = [u EXCEPT ![1] = [u[1] EXCEPT !.val = w]]
      BY Zenon
    <3> HIDE DEF u, v
    <3>3. u \in [1 .. Len(u) -> Frame]
      BY <2>1, LenProperties
    <3>4. v \in [1 .. Len(u) -> Frame] /\ v[1] = [u[1] EXCEPT !.val = w]
      BY <2>1, <3>1, <3>2, <3>3
    <3>5. v \in Seq(Frame)
      BY <2>1, <3>4, SeqDef
    <3>6. Len(v) = Len(u)
      BY <2>1, <3>4, <3>5, LenProperties
    <3> QED BY <3>4, <3>5, <3>6
  <2>3. n = [c.m EXCEPT !.user = v]
    BY Zenon
  <2> HIDE DEF n, v
  <2>4. n \in PageBlock /\ n["user"] = v
    BY <1>2, <2>2, <2>3 DEF PageBlock
  <2>5. PICK d : d = [pc |-> "user", a |-> c.a, sp |-> c.sp, cbar |-> c.cbar, m |-> n]
    OBVIOUS
  <2>6. InPlace(p, d)
    <3>1. d \in CpuState
      BY <1>2, <2>4, <2>5 DEF CpuState
    <3>2. 1 <= Len(d.m["user"])
      BY <1>3, <2>2, <2>4, <2>5
    <3> QED BY <1>2, <1>3, <2>5, <3>1, <3>2 DEF InPlace
  <2>7. Live(n, <<"user", 1>>) = [Live(c.m, <<"user", 1>>) EXCEPT ![1].val = w]
    <3> DEFINE s == Live(c.m, <<"user", 1>>)
               t == [s EXCEPT ![1].val = w]
    <3>1. s \in Seq(Frame) /\ Len(s) = 1 /\ s[1] = u[1]
      <4>1. "user" \in Area /\ 1 \in Nat /\ 1 \in 1 .. 1
        BY DEF Area
      <4> QED BY <1>2, <1>3, <4>1, LivePart
    <3>2. t = [s EXCEPT ![1] = [s[1] EXCEPT !.val = w]]
      BY Zenon
    <3>3. [s[1] EXCEPT !.val = w] \in Frame
      BY <1>6, <2>1, <3>1 DEF Frame
    <3> HIDE DEF s, t
    <3>4. s \in [1 .. 1 -> Frame]
      BY <3>1, LenProperties
    <3>5. t \in [1 .. 1 -> Frame] /\ t[1] = [s[1] EXCEPT !.val = w]
      BY <3>2, <3>3, <3>4
    <3>6. t \in Seq(Frame) /\ Len(t) = 1
      <4>1. t \in Seq(Frame)
        BY <3>5, SeqDef
      <4> QED BY <3>5, <4>1, LenProperties
    <3>7. /\ Live(n, <<"user", 1>>) \in Seq(Frame) /\ Len(Live(n, <<"user", 1>>)) = 1
          /\ Live(n, <<"user", 1>>)[1] = v[1]
      <4>1. "user" \in Area /\ 1 \in Nat /\ 1 \in 1 .. 1 /\ 1 <= Len(n["user"])
        BY <1>3, <2>2, <2>4 DEF Area
      <4> QED BY <2>4, <4>1, LivePart
    <3>8. Live(n, <<"user", 1>>)[1] = t[1]
      BY <2>2, <3>1, <3>5, <3>7
    <3>9. Live(n, <<"user", 1>>) = t
      BY <3>6, <3>7, <3>8, SeqEqual
    <3> QED BY <3>9 DEF s, t
  <2>8. SeenAt(p, d) = Machine("user", c.a, Live(n, <<"user", 1>>))
    BY <2>5, <2>6, SeenAtPlace
  <2>9. SeenAt(p, d) \in Own!Outcomes(SeenAt(p, c))
    <3> DEFINE k == SeenAt(p, c)
    <3>1. k.at = "user" /\ k.stack = Live(c.m, <<"user", 1>>)
          /\ k = [at |-> "user", a |-> c.a, stack |-> k.stack]
      BY <1>7 DEF Machine
    <3>2. SeenAt(p, d) = [at |-> "user", a |-> c.a, stack |-> [k.stack EXCEPT ![1].val = w]]
      BY <2>7, <2>8, <3>1 DEF Machine
    <3> HIDE DEF k
    <3>3. [k EXCEPT !.stack[1].val = w] = [k EXCEPT !.stack = [k.stack EXCEPT ![1].val = w]]
      BY Zenon
    <3>4. SeenAt(p, d) = [k EXCEPT !.stack[1].val = w]
      BY <3>1, <3>2, <3>3
    <3>5. SeenAt(p, d) \in Own!Computed(k)
      BY <3>4 DEF Own!Computed
    <3>6. SeenAt(p, d) \in Own!Outcomes(k)
      BY <3>1, <3>5 DEF Own!Outcomes
    <3> QED BY <3>6 DEF k
  <2>10. memory' = [memory EXCEPT ![cbr] = n] /\ a' = c.a
    BY <1>2, <1>9 DEF Store, n
  <2> QED BY <1>1, <1>2, <1>5, <2>5, <2>6, <2>9, <2>10, KeptIs, PlainStep DEF Follows
<1> QED BY <1>4, <1>8, <1>9

\* The current process is in place, and this is what holds there.
LEMMA HereInPlace ==
    ASSUME CtxInv, ~panicked, pc \notin IntOff
    PROVE  \E p \in Pid, c \in CpuState :
              /\ IsNow(p, c) /\ InPlace(p, c) /\ Here = c.m /\ c.m \in PageBlock
              /\ c.pc = pc /\ c.a = a /\ c.sp = sp /\ c.cbar = cbar /\ c.pc \notin IntOff
              /\ c.sp = StackAt(pc) /\ c.sp \in SP /\ c.cbar = MapAt(pc) /\ c.a \in Value
              /\ c.sp[2] <= Len(c.m[c.sp[1]])
<1>1. PICK p \in Pid, c \in CpuState : IsNow(p, c)
  BY Now
<1>2. /\ InPlace(p, c) /\ Here = c.m /\ c.m \in PageBlock
      /\ c.pc = pc /\ c.a = a /\ c.sp = sp /\ c.cbar = cbar /\ c.pc \notin IntOff
  BY <1>1, NowIs
<1>3. /\ c.sp = StackAt(pc) /\ c.sp \in SP /\ c.cbar = MapAt(pc) /\ c.a \in Value
      /\ c.sp[2] <= Len(c.m[c.sp[1]])
  BY <1>2 DEF InPlace, CpuState
<1> QED BY <1>1, <1>2, <1>3

\* A step that changes neither what the registers say to a program nor its stack.
LEMMA QuietStep ==
    ASSUME CtxInv, UNCHANGED <<schedVars, cbr, saved_sp, next_pid, iff>>,
           trap_bit' \in BOOLEAN, sources' \in BOOLEAN,
           NEW p \in Pid, NEW c \in CpuState, IsNow(p, c), c.pc \notin IntOff,
           NEW d, d = [pc |-> pc', a |-> a', sp |-> sp', cbar |-> cbar', m |-> c.m],
           memory' = memory, InPlace(p, d), d.pc \notin {"copied", "forked"},
           SeenAt(p, d) = SeenAt(p, c)
    PROVE  Good
<1>1. d.m = c.m /\ d = [pc |-> pc', a |-> a', sp |-> sp', cbar |-> cbar', m |-> d.m]
  OBVIOUS
<1> QED BY <1>1, PlainStep DEF Follows

LEMMA SyscallMapStep == CtxInv /\ syscall_map => Good
<1> SUFFICES ASSUME CtxInv, syscall_map PROVE Good
  OBVIOUS
<1>0. ~panicked /\ pc = "map" /\ pc \notin IntOff
  BY DEF syscall_map, At, IntOff
<1>1. PICK p \in Pid, c \in CpuState :
         /\ IsNow(p, c) /\ InPlace(p, c) /\ c.pc = "map" /\ c.a = a /\ c.sp = sp
         /\ c.sp = <<"kernel", 1>> /\ c.pc \notin IntOff
  BY <1>0, HereInPlace DEF StackAt
<1>2. PICK d : d = [pc |-> "kernel", a |-> c.a, sp |-> c.sp, cbar |-> "KERNEL", m |-> c.m]
  OBVIOUS
<1>3. d = [pc |-> pc', a |-> a', sp |-> sp', cbar |-> cbar', m |-> c.m] /\ memory' = memory /\ Kept
  BY <1>1, <1>2 DEF syscall_map, Goto
<1>4. InPlace(p, d)
  <2>1. d \in CpuState
    BY <1>2 DEF CpuState, Label, InKernel
  <2> QED BY <1>1, <1>2, <2>1 DEF InPlace, StackAt, MapAt, InKernel, IntOff
<1>5. SeenAt(p, d) = SeenAt(p, c)
  BY <1>1, <1>2, <1>4, SeenAtPlace
<1> QED BY <1>1, <1>2, <1>3, <1>4, <1>5, KeptIs, QuietStep

LEMMA LeaveMapStep == CtxInv /\ leave_map => Good
<1> SUFFICES ASSUME CtxInv, leave_map PROVE Good
  OBVIOUS
<1>0. ~panicked /\ pc = "leave" /\ pc \notin IntOff
  BY DEF leave_map, At, IntOff
<1>1. PICK p \in Pid, c \in CpuState :
         /\ IsNow(p, c) /\ InPlace(p, c) /\ c.pc = "leave" /\ c.a = a /\ c.sp = sp
         /\ c.sp = <<"kernel", 0>> /\ c.pc \notin IntOff
  BY <1>0, HereInPlace DEF StackAt
<1>2. PICK d : d = [pc |-> "leave_sp", a |-> c.a, sp |-> c.sp, cbar |-> "USER", m |-> c.m]
  OBVIOUS
<1>3. d = [pc |-> pc', a |-> a', sp |-> sp', cbar |-> cbar', m |-> c.m] /\ memory' = memory /\ Kept
  BY <1>1, <1>2 DEF leave_map, Goto
<1>4. InPlace(p, d)
  <2>1. d \in CpuState
    BY <1>2 DEF CpuState, Label, InUser
  <2> QED BY <1>1, <1>2, <2>1 DEF InPlace, StackAt, MapAt, InKernel, IntOff
<1>5. SeenAt(p, d) = SeenAt(p, c)
  BY <1>1, <1>2, <1>4, SeenAtPlace
<1> QED BY <1>1, <1>2, <1>3, <1>4, <1>5, KeptIs, QuietStep

LEMMA LeaveStackStep == CtxInv /\ leave_stack => Good
<1> SUFFICES ASSUME CtxInv, leave_stack PROVE Good
  OBVIOUS
<1>0. ~panicked /\ pc = "leave_sp" /\ pc \notin IntOff
  BY DEF leave_stack, At, IntOff
<1>1. PICK p \in Pid, c \in CpuState :
         /\ IsNow(p, c) /\ InPlace(p, c) /\ Here = c.m /\ c.pc = "leave_sp" /\ c.a = a
         /\ c.cbar = cbar /\ c.cbar = "USER" /\ c.pc \notin IntOff
  BY <1>0, HereInPlace DEF MapAt, InKernel
<1>2. InCall(c.m) /\ c.m.syscall_sp = <<"user", 2>> /\ 2 <= Len(c.m.user)
  BY <1>1 DEF InPlace, InCall
<1>3. PICK d : d = [pc |-> "leave_ret", a |-> c.a, sp |-> <<"user", 2>>, cbar |-> c.cbar,
                    m |-> c.m]
  OBVIOUS
<1>4. d = [pc |-> pc', a |-> a', sp |-> sp', cbar |-> cbar', m |-> c.m] /\ memory' = memory /\ Kept
  BY <1>1, <1>2, <1>3 DEF leave_stack, Goto
<1>5. InPlace(p, d)
  <2>1. d \in CpuState
    BY <1>3 DEF CpuState, Label, InUser, SP, Area
  <2>2. d.sp[2] <= Len(d.m[d.sp[1]])
    BY <1>2, <1>3
  <2> QED BY <1>1, <1>2, <1>3, <2>1, <2>2 DEF InPlace, StackAt, MapAt, InKernel, IntOff
<1>6. SeenAt(p, d) = SeenAt(p, c)
  BY <1>1, <1>3, <1>5, SeenAtPlace
<1> QED BY <1>1, <1>3, <1>4, <1>5, <1>6, KeptIs, QuietStep

LEMMA ResetStep == CtxInv /\ reset => Good
<1> SUFFICES ASSUME CtxInv, reset PROVE Good
  OBVIOUS
<1>0. ~panicked /\ pc = "reset" /\ pc \notin IntOff
  BY DEF reset, At, IntOff
<1>1. PICK p \in Pid, c \in CpuState :
         /\ IsNow(p, c) /\ InPlace(p, c) /\ c.pc = "reset" /\ c.a = a /\ c.sp = sp
         /\ c.cbar = cbar /\ c.pc \notin IntOff
  BY <1>0, HereInPlace
<1>2. PICK d : d = [pc |-> pc', a |-> c.a, sp |-> c.sp, cbar |-> c.cbar, m |-> c.m]
  OBVIOUS
<1>3. /\ d = [pc |-> pc', a |-> a', sp |-> sp', cbar |-> cbar', m |-> c.m] /\ memory' = memory
      /\ Kept /\ d.pc \in {"trap", "cold_start"}
  BY <1>1, <1>2 DEF reset, Goto
<1>4. InPlace(p, d)
  <2>1. d \in CpuState
    BY <1>2, <1>3 DEF CpuState, Label, InUser, InStart
  <2> QED BY <1>1, <1>2, <1>3, <2>1 DEF InPlace, StackAt, MapAt, InKernel, IntOff
<1>5. SeenAt(p, d) = SeenAt(p, c)
  BY <1>1, <1>2, <1>3, <1>4, SeenAtPlace
<1> QED BY <1>1, <1>2, <1>3, <1>4, <1>5, KeptIs, QuietStep

LEMMA TrapClearStep == CtxInv /\ (trap_clear \/ disable_all_interrupts) => Good
<1> SUFFICES ASSUME CtxInv, trap_clear \/ disable_all_interrupts PROVE Good
  OBVIOUS
<1>0. ~panicked /\ pc \in {"trap_clear", "trap_disable"} /\ pc \notin IntOff
  BY DEF trap_clear, disable_all_interrupts, At, IntOff
<1>1. PICK p \in Pid, c \in CpuState :
         /\ IsNow(p, c) /\ InPlace(p, c) /\ c.pc = pc /\ c.a = a /\ c.sp = sp
         /\ c.cbar = cbar /\ c.pc \notin IntOff
  BY <1>0, HereInPlace
<1>2. PICK d : d = [pc |-> pc', a |-> c.a, sp |-> c.sp, cbar |-> c.cbar, m |-> c.m]
  OBVIOUS
<1>3. /\ d = [pc |-> pc', a |-> a', sp |-> sp', cbar |-> cbar', m |-> c.m] /\ memory' = memory
      /\ UNCHANGED <<schedVars, cbr, saved_sp, next_pid, iff>>
      /\ trap_bit' \in BOOLEAN /\ sources' \in BOOLEAN
      /\ d.pc \in {"trap_disable", "trap_exit"}
  <2>1. trap_bit \in BOOLEAN /\ sources \in BOOLEAN
    BY DEF CtxInv, TypeInv, TypeOK
  <2> QED BY <1>1, <1>2, <2>1 DEF trap_clear, disable_all_interrupts, Goto
<1>4. InPlace(p, d)
  <2>1. d \in CpuState
    BY <1>2, <1>3 DEF CpuState, Label, InKernel
  <2> QED BY <1>0, <1>1, <1>2, <1>3, <2>1 DEF InPlace, StackAt, MapAt, InKernel, IntOff
<1>5. SeenAt(p, d) = SeenAt(p, c)
  BY <1>0, <1>1, <1>2, <1>3, <1>4, SeenAtPlace
<1> QED BY <1>1, <1>2, <1>3, <1>4, <1>5, QuietStep

LEMMA SyscallSaveStep == CtxInv /\ syscall_save => Good
<1> SUFFICES ASSUME CtxInv, syscall_save PROVE Good
  OBVIOUS
<1>0. ~panicked /\ pc = "syscall" /\ pc \notin IntOff
  BY DEF syscall_save, At, IntOff
<1>1. PICK p \in Pid, c \in CpuState :
         /\ IsNow(p, c) /\ InPlace(p, c) /\ Here = c.m /\ c.m \in PageBlock /\ c.pc = "syscall"
         /\ c.a = a /\ c.sp = sp /\ c.cbar = cbar /\ c.pc \notin IntOff
         /\ c.sp = <<"user", 2>> /\ c.sp \in SP /\ c.sp[2] <= Len(c.m[c.sp[1]])
  BY <1>0, HereInPlace DEF StackAt
<1> DEFINE n == [c.m EXCEPT !.syscall_sp = c.sp]
<1>2. n \in PageBlock /\ n.user = c.m.user /\ n.syscall_sp = c.sp
  BY <1>1 DEF PageBlock
<1>3. memory' = [memory EXCEPT ![cbr] = n] /\ pc' = "entry" /\ UNCHANGED <<a, sp, cbar>> /\ Kept
  BY <1>1 DEF syscall_save, Store, Goto
<1> HIDE DEF n
<1>4. PICK d : d = [pc |-> "entry", a |-> c.a, sp |-> c.sp, cbar |-> c.cbar, m |-> n]
  OBVIOUS
<1>5. InPlace(p, d)
  <2>1. d \in CpuState
    BY <1>2, <1>4 DEF CpuState, Label, InUser
  <2>2. InCall(d.m) /\ d.sp[2] <= Len(d.m[d.sp[1]])
    BY <1>1, <1>2, <1>4 DEF InCall, InPlace
  <2> QED BY <1>1, <1>4, <2>1, <2>2 DEF InPlace, StackAt, MapAt, InKernel, IntOff
<1>6. SeenAt(p, d) = SeenAt(p, c)
  <2>1. Live(n, <<"user", 2>>) = Live(c.m, <<"user", 2>>)
    BY <1>2 DEF Live
  <2> QED BY <1>1, <1>4, <1>5, <2>1, SeenAtPlace
<1> QED BY <1>1, <1>3, <1>4, <1>5, <1>6, KeptIs, PlainStep DEF Follows

LEMMA SyscallStackStep == CtxInv /\ syscall_stack => Good
<1> SUFFICES ASSUME CtxInv, syscall_stack PROVE Good
  OBVIOUS
<1>0. ~panicked /\ pc = "entry" /\ pc \notin IntOff
  BY DEF syscall_stack, At, IntOff
<1>1. PICK p \in Pid, c \in CpuState :
         /\ IsNow(p, c) /\ InPlace(p, c) /\ Here = c.m /\ c.m \in PageBlock /\ c.pc = "entry"
         /\ c.a = a /\ c.sp = sp /\ c.cbar = cbar /\ c.pc \notin IntOff /\ c.cbar = "USER"
  BY <1>0, HereInPlace DEF MapAt, InKernel
<1>2. InCall(c.m) /\ p # IDLE
  BY <1>1 DEF InPlace
<1>3. /\ Top(c.m, c.m.syscall_sp) = c.m.user[2] /\ c.m.user[2] \in Frame
      /\ c.m.user[2].val \in Value
  <2>1. 2 \in 1 .. Len(c.m["user"]) /\ c.m.syscall_sp = <<"user", 2>> /\ <<"user", 2>> \in SP
    BY <1>1, <1>2, BlockFields DEF InCall, Area, SP
  <2>2. Top(c.m, <<"user", 2>>) = c.m["user"][2] /\ c.m["user"][2] \in Frame
    BY <1>1, <2>1, TopFrame
  <2> QED BY <2>1, <2>2 DEF Frame
<1> DEFINE f == Of("leave", c.m.user[2].val)
           n == Push(c.m, Reset, f)
<1>4. f \in Frame /\ f.ret = "leave" /\ f.val = c.m.user[2].val
  BY <1>3, FrameFields DEF Name, Label, InKernel
<1>5. memory' = [memory EXCEPT ![cbr] = n] /\ pc' = "map" /\ sp' = <<"kernel", 1>> /\ Kept
      /\ a' = a /\ cbar' = cbar
  BY <1>1, <1>3 DEF syscall_stack, Store, Goto, Down, Reset
<1> HIDE DEF f
<1>6. /\ n \in PageBlock /\ n["user"] = c.m["user"] /\ n.syscall_sp = c.m.syscall_sp
      /\ Len(n["kernel"]) = 1 /\ n["kernel"][1] = f
  <2>1. Reset \in SP /\ Reset[1] = "kernel" /\ Reset[2] = 0 /\ Reset[2] <= Len(c.m[Reset[1]])
    BY <1>1, BlockFields DEF Reset, SP, Area
  <2>2. /\ n \in PageBlock /\ n.syscall_sp = c.m.syscall_sp
        /\ \A x \in Area \ {Reset[1]} : n[x] = c.m[x]
        /\ Len(n[Reset[1]]) = Reset[2] + 1 /\ n[Reset[1]][Reset[2] + 1] = f
    BY <1>1, <1>4, <2>1, PushEffect
  <2> QED BY <2>1, <2>2 DEF Area
<1> HIDE DEF n
<1>7. PICK d : d = [pc |-> "map", a |-> c.a, sp |-> <<"kernel", 1>>, cbar |-> c.cbar, m |-> n]
  OBVIOUS
<1>8. InPlace(p, d)
  <2>1. d \in CpuState
    BY <1>6, <1>7 DEF CpuState, Label, InUser, SP, Area
  <2>2. InCall(d.m) /\ d.sp[2] <= Len(d.m[d.sp[1]])
        /\ d.m.kernel[1].ret = "leave" /\ d.m.kernel[1].val = d.m.user[2].val
    BY <1>2, <1>4, <1>6, <1>7 DEF InCall
  <2> QED BY <1>1, <1>2, <1>7, <2>1, <2>2 DEF InPlace, StackAt, MapAt, InKernel, IntOff
<1>9. SeenAt(p, d) = SeenAt(p, c)
  <2>1. Live(n, <<"user", 2>>) = Live(c.m, <<"user", 2>>)
    BY <1>6 DEF Live
  <2> QED BY <1>1, <1>7, <1>8, <2>1, SeenAtPlace
<1> QED BY <1>1, <1>5, <1>7, <1>8, <1>9, KeptIs, PlainStep DEF Follows

\* What a program sees before a system call, and what it sees after it.
LEMMA CallFrame ==
    ASSUME NEW m \in PageBlock, InCall(m), NEW word
    PROVE  LET k == Machine("call", 0, Live(m, <<"user", 2>>))
           IN  /\ Own!Argument(k) = m.user[2].val
               /\ Own!Back(k, word) = Machine("user", word, Live(m, <<"user", 1>>))
<1> DEFINE s == Live(m, <<"user", 2>>)
           t == Live(m, <<"user", 1>>)
<1>1. 2 <= Len(m["user"]) /\ 1 <= Len(m["user"]) /\ "user" \in Area
  BY BlockFields DEF InCall, Area
<1>2. s \in Seq(Frame) /\ Len(s) = 2 /\ s[1] = m["user"][1] /\ s[2] = m["user"][2]
  <2>1. s \in Seq(Frame) /\ Len(s) = 2 /\ \A i \in 1 .. 2 : s[i] = m["user"][i]
    BY <1>1, LivePart
  <2> QED BY <2>1
<1>3. t \in Seq(Frame) /\ Len(t) = 1 /\ t[1] = m["user"][1]
  <2>1. t \in Seq(Frame) /\ Len(t) = 1 /\ \A i \in 1 .. 1 : t[i] = m["user"][i]
    BY <1>1, LivePart
  <2> QED BY <2>1
<1> HIDE DEF s, t
<1>4. SubSeq(s, 1, 1) = t
  <2>1. \A i \in 1 .. 1 : s[i] \in Frame
    BY <1>2, ElementOfSeq
  <2>2. /\ SubSeq(s, 1, 1) \in Seq(Frame) /\ Len(SubSeq(s, 1, 1)) = 1
        /\ \A i \in 1 .. 1 : SubSeq(s, 1, 1)[i] = s[1 + i - 1]
    BY <2>1, SubSeqProperties
  <2>3. SubSeq(s, 1, 1)[1] = s[1]
    BY <2>2
  <2> QED BY <1>2, <1>3, <2>2, <2>3, SeqEqual
<1>5. Len(s) - 1 = 1
  BY <1>2
<1> QED BY <1>2, <1>4, <1>5 DEF s, t, Machine, Own!Argument, Own!Back, Own!Machine

\* The frame of a system call's return, and the kernel's stack without it.
LEMMA ReturnFrame ==
    ASSUME NEW p \in Pid, NEW c, InPlace(p, c), c.pc = "kernel"
    PROVE  /\ Top(c.m, c.sp).ret = "leave" /\ Top(c.m, c.sp).val = c.m.user[2].val
           /\ c.m.user[2].val \in Value /\ InCall(c.m) /\ p # IDLE
           /\ Up(c.sp) = <<"kernel", 0>> /\ c.cbar = "KERNEL" /\ c.m \in PageBlock /\ c.sp \in SP
           /\ Pop(c.m, c.sp) \in PageBlock /\ Pop(c.m, c.sp).user = c.m.user
           /\ Pop(c.m, c.sp).syscall_sp = c.m.syscall_sp
           /\ Live(Pop(c.m, c.sp), <<"user", 1>>) = Live(c.m, <<"user", 1>>)
           /\ c.sp = <<"kernel", 1>> /\ 1 \in 1 .. Len(c.m["kernel"])
<1>1. /\ c.m \in PageBlock /\ c.sp = <<"kernel", 1>> /\ c.sp \in SP /\ c.cbar = "KERNEL"
      /\ c.sp[2] <= Len(c.m[c.sp[1]]) /\ InCall(c.m) /\ p # IDLE
      /\ c.m.kernel[1].ret = "leave" /\ c.m.kernel[1].val = c.m.user[2].val
  BY DEF InPlace, CpuState, StackAt, MapAt, InKernel
<1>2. c.sp[2] \in 1 .. Len(c.m[c.sp[1]]) /\ 1 \in 1 .. Len(c.m["kernel"])
  <2>1. Len(c.m["kernel"]) \in Nat
    BY <1>1, BlockFields DEF Area
  <2> QED BY <1>1, <2>1
<1>3. Top(c.m, c.sp) = c.m.kernel[1] /\ c.m.kernel[1] \in Frame
  <2>1. Top(c.m, c.sp) = c.m[c.sp[1]][c.sp[2]] /\ Top(c.m, c.sp) \in Frame
    BY <1>1, <1>2, TopFrame
  <2> QED BY <1>1, <2>1
<1>4. c.m.user[2].val \in Value
  BY <1>1, <1>3 DEF Frame
<1>5. Up(c.sp) = <<"kernel", 0>>
  BY <1>1 DEF Up
<1>6. /\ Pop(c.m, c.sp) \in PageBlock /\ Pop(c.m, c.sp).syscall_sp = c.m.syscall_sp
      /\ Pop(c.m, c.sp).user = c.m.user
  <2>1. /\ Pop(c.m, c.sp) \in PageBlock /\ Pop(c.m, c.sp).syscall_sp = c.m.syscall_sp
        /\ \A x \in Area \ {c.sp[1]} : Pop(c.m, c.sp)[x] = c.m[x]
    BY <1>1, <1>2, PopEffect
  <2> QED BY <1>1, <2>1 DEF Area
<1>7. Live(Pop(c.m, c.sp), <<"user", 1>>) = Live(c.m, <<"user", 1>>)
  BY <1>6 DEF Live
<1> QED BY <1>1, <1>2, <1>3, <1>4, <1>5, <1>6, <1>7

LEMMA ReturnStep == CtxInv /\ Return => Good
<1> SUFFICES ASSUME CtxInv, Return PROVE Good
  OBVIOUS
<1>0. ~panicked /\ pc = "kernel" /\ pc \notin IntOff
  BY DEF Return, At, IntOff
<1>1. PICK p \in Pid, c \in CpuState :
         /\ IsNow(p, c) /\ InPlace(p, c) /\ Here = c.m /\ c.pc = "kernel"
         /\ c.sp = sp /\ c.cbar = cbar /\ c.pc \notin IntOff
  BY <1>0, HereInPlace
<1> DEFINE n == Pop(c.m, c.sp)
           w == c.m.user[2].val
<1>2. /\ n \in PageBlock /\ n.user = c.m.user /\ n.syscall_sp = c.m.syscall_sp
      /\ w \in Value /\ InCall(c.m) /\ p # IDLE /\ c.m \in PageBlock /\ c.cbar = "KERNEL"
      /\ Live(n, <<"user", 1>>) = Live(c.m, <<"user", 1>>)
      /\ Top(c.m, c.sp).ret = "leave" /\ Top(c.m, c.sp).val = w /\ Up(c.sp) = <<"kernel", 0>>
  BY <1>1, ReturnFrame
<1>3. memory' = [memory EXCEPT ![cbr] = n] /\ pc' = "leave" /\ a' = w /\ sp' = <<"kernel", 0>>
      /\ cbar' = c.cbar /\ Kept
  BY <1>1, <1>2 DEF Return, Ret, Store, Goto
<1> HIDE DEF n, w
<1>4. PICK d : d = [pc |-> "leave", a |-> w, sp |-> <<"kernel", 0>>, cbar |-> c.cbar, m |-> n]
  OBVIOUS
<1>5. InPlace(p, d)
  <2>1. d \in CpuState
    BY <1>2, <1>4 DEF CpuState, Label, InKernel, SP, Area
  <2>2. InCall(d.m) /\ d.sp[2] <= Len(d.m[d.sp[1]])
    BY <1>2, <1>4, BlockFields DEF InCall, Area
  <2> QED BY <1>2, <1>4, <2>1, <2>2 DEF InPlace, StackAt, MapAt, InKernel, IntOff
<1>6. SeenAt(p, d) \in Own!Outcomes(SeenAt(p, c))
  <2>1. SeenAt(p, d) = Machine("user", w, Live(c.m, <<"user", 1>>))
    BY <1>2, <1>4, <1>5, SeenAtPlace
  <2>2. SeenAt(p, c) = Machine("call", 0, Live(c.m, <<"user", 2>>))
    BY <1>1, SeenAtPlace
  <2>3. Own!Argument(SeenAt(p, c)) = w /\ Own!Back(SeenAt(p, c), w) = SeenAt(p, d)
    BY <1>2, <2>1, <2>2, CallFrame DEF w
  <2>4. SeenAt(p, c).at = "call"
    BY <2>2 DEF Machine
  <2> QED BY <2>3, <2>4 DEF Own!Outcomes
<1> QED BY <1>1, <1>3, <1>4, <1>5, <1>6, KeptIs, PlainStep DEF Follows

LEMMA LeaveRetStep == CtxInv /\ leave_ret => Good
<1> SUFFICES ASSUME CtxInv, leave_ret PROVE Good
  OBVIOUS
<1>0. ~panicked /\ pc = "leave_ret" /\ pc \notin IntOff
  BY DEF leave_ret, At, IntOff
<1>1. PICK p \in Pid, c \in CpuState :
         /\ IsNow(p, c) /\ InPlace(p, c) /\ Here = c.m /\ c.m \in PageBlock /\ c.pc = "leave_ret"
         /\ c.a = a /\ c.sp = sp /\ c.cbar = cbar /\ c.cbar = "USER" /\ c.pc \notin IntOff
         /\ c.sp = <<"user", 2>> /\ c.sp \in SP
  BY <1>0, HereInPlace DEF StackAt, MapAt, InKernel
<1>2. InCall(c.m) /\ p # IDLE
  BY <1>1 DEF InPlace
<1>3. c.sp[2] \in 1 .. Len(c.m[c.sp[1]])
  <2>1. Len(c.m["user"]) \in Nat
    BY <1>1, BlockFields DEF Area
  <2> QED BY <1>1, <1>2, <2>1 DEF InCall
<1>4. Top(c.m, c.sp).ret = "user"
  <2>1. Top(c.m, c.sp) = c.m[c.sp[1]][c.sp[2]]
    BY <1>1, <1>3, TopFrame
  <2> QED BY <1>1, <1>2, <2>1 DEF InCall
<1> DEFINE n == Pop(c.m, c.sp)
<1>5. memory' = [memory EXCEPT ![cbr] = n] /\ pc' = "user" /\ sp' = <<"user", 1>>
      /\ a' = a /\ cbar' = cbar /\ Kept
  BY <1>1, <1>4 DEF leave_ret, Ret, Store, Goto, Up
<1>6. /\ n \in PageBlock /\ Len(n["user"]) = 1 /\ n["user"][1] = c.m["user"][1]
  <2>1. /\ n \in PageBlock /\ Len(n[c.sp[1]]) = c.sp[2] - 1
        /\ \A i \in 1 .. c.sp[2] - 1 : n[c.sp[1]][i] = c.m[c.sp[1]][i]
    BY <1>1, <1>3, PopEffect
  <2> QED BY <1>1, <2>1
<1> HIDE DEF n
<1>7. PICK d : d = [pc |-> "user", a |-> c.a, sp |-> <<"user", 1>>, cbar |-> c.cbar, m |-> n]
  OBVIOUS
<1>8. InPlace(p, d)
  <2>1. d \in CpuState
    BY <1>6, <1>7 DEF CpuState, Label, InUser, SP, Area
  <2>2. d.sp[2] <= Len(d.m[d.sp[1]])
    BY <1>6, <1>7
  <2> QED BY <1>1, <1>2, <1>7, <2>1, <2>2 DEF InPlace, StackAt, MapAt, InKernel, IntOff
<1>9. SeenAt(p, d) = SeenAt(p, c)
  <2>1. Live(n, <<"user", 1>>) = Live(c.m, <<"user", 1>>)
    <3>1. 1 <= Len(c.m["user"]) /\ 1 <= Len(n["user"]) /\ "user" \in Area
          /\ \A i \in 1 .. 1 : n["user"][i] = c.m["user"][i]
      BY <1>1, <1>2, <1>6, BlockFields DEF Area, InCall
    <3> QED BY <1>1, <1>6, <3>1, LiveSame
  <2> QED BY <1>1, <1>7, <1>8, <2>1, SeenAtPlace
<1> QED BY <1>1, <1>5, <1>7, <1>8, <1>9, KeptIs, PlainStep DEF Follows

\* The block of a process that starts a program with the argument w.
LEMMA LoadedEffect ==
    ASSUME NEW m \in PageBlock, NEW w \in Value
    PROVE  /\ Loaded(m, w) \in PageBlock /\ InCall(Loaded(m, w))
           /\ \A x \in Area \ {"user"} : Loaded(m, w)[x] = m[x]
           /\ \A word : Machine("user", word, Live(Loaded(m, w), <<"user", 1>>)) =
                           Machine("user", word, <<[ret |-> "none", val |-> w]>>)
<1> DEFINE u == <<Of("none", w), Of("user", 0)>>
           n == Loaded(m, w)
<1>1. /\ Of("none", w) \in Frame /\ Of("user", 0) \in Frame /\ Of("user", 0).ret = "user"
      /\ Of("none", w) = [ret |-> "none", val |-> w]
  BY ValueType, FrameFields DEF Name, Label, InUser, Of
<1>2. /\ u \in Seq(Frame) /\ Len(u) = 2 /\ u[1] = Of("none", w) /\ u[2] = Of("user", 0)
  BY <1>1
<1>3. n = [m EXCEPT !.user = u, !.syscall_sp = <<"user", 2>>]
  BY DEF Loaded
<1> HIDE DEF u, n
<1>4. <<"user", 2>> \in SP
  BY DEF SP, Area
<1>5. /\ n \in PageBlock /\ n.user = u /\ n["user"] = u /\ n.syscall_sp = <<"user", 2>>
      /\ \A x \in Area \ {"user"} : n[x] = m[x]
  <2>1. n \in PageBlock
    BY <1>2, <1>3, <1>4 DEF PageBlock
  <2>2. n["user"] = u /\ n.syscall_sp = <<"user", 2>>
    BY <1>3 DEF PageBlock
  <2>3. \A x \in Area \ {"user"} : n[x] = m[x]
    BY <1>3 DEF PageBlock, Area
  <2> QED BY <2>1, <2>2, <2>3
<1>6. Len(u) = 2 /\ u[2].ret = "user"
  BY <1>1, <1>2
<1>7. n["user"] = u /\ n.syscall_sp = <<"user", 2>>
  BY <1>5
<1>8. Len(n["user"]) = 2
  BY <1>6, <1>7
<1>9. InCall(n)
  BY <1>6, <1>7, <1>8 DEF InCall
<1>10. Live(n, <<"user", 1>>) = <<[ret |-> "none", val |-> w]>>
  <2> DEFINE s == Live(n, <<"user", 1>>)
             t == <<[ret |-> "none", val |-> w]>>
  <2>1. s \in Seq(Frame) /\ Len(s) = 1 /\ \A i \in 1 .. 1 : s[i] = n["user"][i]
    <3>1. "user" \in Area /\ 1 <= Len(n["user"])
      BY <1>8 DEF Area
    <3> QED BY <1>5, <3>1, LivePart
  <2>2. t \in Seq(Frame) /\ Len(t) = 1 /\ t[1] = u[1]
    BY <1>1, <1>2
  <2> HIDE DEF s, t
  <2>3. \A i \in 1 .. 1 : s[i] = t[i]
    BY <1>5, <2>1, <2>2
  <2>4. s = t
    BY <2>1, <2>2, <2>3, SeqEqual
  <2> QED BY <2>4 DEF s, t
<1> QED BY <1>5, <1>9, <1>10 DEF n

LEMMA ExecveStep == CtxInv /\ sys_execve => Good
<1> SUFFICES ASSUME CtxInv, sys_execve PROVE Good
  OBVIOUS
<1>0. ~panicked /\ pc = "kernel" /\ pc \notin IntOff
  BY DEF sys_execve, At, IntOff
<1>1. PICK p \in Pid, c \in CpuState :
         /\ IsNow(p, c) /\ InPlace(p, c) /\ Here = c.m /\ c.pc = "kernel"
         /\ c.sp = sp /\ c.cbar = cbar /\ c.pc \notin IntOff
  BY <1>0, HereInPlace
<1> DEFINE w == c.m.user[2].val
           l == Loaded(c.m, w)
           n == Pop(l, c.sp)
<1>2. /\ w \in Value /\ InCall(c.m) /\ p # IDLE /\ c.m \in PageBlock /\ c.cbar = "KERNEL"
      /\ Top(c.m, c.sp).ret = "leave" /\ Top(c.m, c.sp).val = w /\ Up(c.sp) = <<"kernel", 0>>
      /\ c.sp = <<"kernel", 1>> /\ c.sp \in SP /\ 1 \in 1 .. Len(c.m["kernel"])
  BY <1>1, ReturnFrame
<1>3. /\ l \in PageBlock /\ InCall(l) /\ l["kernel"] = c.m["kernel"]
      /\ \A word : Machine("user", word, Live(l, <<"user", 1>>)) =
                      Machine("user", word, <<[ret |-> "none", val |-> w]>>)
  <2>1. /\ l \in PageBlock /\ InCall(l) /\ \A x \in Area \ {"user"} : l[x] = c.m[x]
        /\ \A word : Machine("user", word, Live(l, <<"user", 1>>)) =
                        Machine("user", word, <<[ret |-> "none", val |-> w]>>)
    BY <1>2, LoadedEffect
  <2> QED BY <2>1 DEF Area
<1> HIDE DEF l, w
<1>4. Top(l, c.sp) = Top(c.m, c.sp)
  BY <1>2, <1>3 DEF Top
<1>5. memory' = [memory EXCEPT ![cbr] = n] /\ pc' = "leave" /\ a' = 0 /\ sp' = <<"kernel", 0>>
      /\ cbar' = c.cbar /\ Kept
  BY <1>1, <1>2, <1>4 DEF sys_execve, Ret, Store, Goto, l
<1>6. n \in PageBlock /\ n.syscall_sp = l.syscall_sp /\ n["user"] = l["user"]
  <2>1. c.sp[2] \in 1 .. Len(l[c.sp[1]])
    BY <1>2, <1>3
  <2>2. /\ n \in PageBlock /\ n.syscall_sp = l.syscall_sp
        /\ \A x \in Area \ {c.sp[1]} : n[x] = l[x]
    BY <1>2, <1>3, <2>1, PopEffect
  <2> QED BY <1>2, <2>2 DEF Area
<1> HIDE DEF n
<1>7. PICK d : d = [pc |-> "leave", a |-> 0, sp |-> <<"kernel", 0>>, cbar |-> c.cbar, m |-> n]
  OBVIOUS
<1>8. InPlace(p, d)
  <2>1. d \in CpuState
    BY <1>2, <1>6, <1>7, ValueType DEF CpuState, Label, InKernel, SP, Area
  <2>2. InCall(d.m) /\ d.sp[2] <= Len(d.m[d.sp[1]])
    BY <1>3, <1>6, <1>7, BlockFields DEF InCall, Area
  <2> QED BY <1>2, <1>7, <2>1, <2>2 DEF InPlace, StackAt, MapAt, InKernel, IntOff
<1>9. SeenAt(p, d) \in Own!Outcomes(SeenAt(p, c))
  <2>1. SeenAt(p, d) = Machine("user", 0, Live(n, <<"user", 1>>))
    BY <1>7, <1>8, SeenAtPlace
  <2>2. Live(n, <<"user", 1>>) = Live(l, <<"user", 1>>)
    BY <1>6 DEF Live
  <2>3. SeenAt(p, d) = Machine("user", 0, <<[ret |-> "none", val |-> w]>>)
    BY <1>3, <2>1, <2>2
  <2>4. SeenAt(p, c) = Machine("call", 0, Live(c.m, <<"user", 2>>))
    BY <1>1, SeenAtPlace
  <2>5. Own!Argument(SeenAt(p, c)) = w
    BY <1>2, <2>4, CallFrame DEF w
  <2>6. SeenAt(p, d) = Own!Started(w)
    BY <2>3 DEF Own!Started, Own!Machine, Machine
  <2>7. SeenAt(p, c).at = "call"
    BY <2>4 DEF Machine
  <2> QED BY <2>5, <2>6, <2>7 DEF Own!Outcomes
<1> QED BY <1>1, <1>5, <1>7, <1>8, <1>9, KeptIs, PlainStep DEF Follows

LEMMA MainExecveStep == CtxInv /\ main_execve => Good
<1> SUFFICES ASSUME CtxInv, main_execve PROVE Good
  OBVIOUS
<1>0. ~panicked /\ pc = "main" /\ pc \notin IntOff /\ current_proc # IDLE
  BY DEF main_execve, At, IntOff
<1>1. PICK p \in Pid, c \in CpuState :
         /\ IsNow(p, c) /\ InPlace(p, c) /\ Here = c.m /\ c.m \in PageBlock /\ c.pc = "main"
         /\ c.sp = sp /\ c.sp = <<"kernel", 0>> /\ c.cbar = cbar /\ c.cbar = "KERNEL"
         /\ c.pc \notin IntOff
  BY <1>0, HereInPlace DEF StackAt, MapAt, InKernel
<1>2. p # IDLE
  BY <1>0, <1>1 DEF IsNow
<1>3. PICK w \in Word : Store(Loaded(c.m, w))
  BY <1>1 DEF main_execve
<1> DEFINE n == Loaded(c.m, w)
<1>4. /\ n \in PageBlock /\ InCall(n)
      /\ \A word : Machine("user", word, Live(n, <<"user", 1>>)) =
                      Machine("user", word, <<[ret |-> "none", val |-> w]>>)
  BY <1>1, ValueType, LoadedEffect
<1>5. memory' = [memory EXCEPT ![cbr] = n] /\ pc' = "leave" /\ a' = 0 /\ sp' = c.sp
      /\ cbar' = c.cbar /\ Kept
  BY <1>1, <1>3 DEF main_execve, Store, Goto
<1> HIDE DEF n
<1>6. PICK d : d = [pc |-> "leave", a |-> 0, sp |-> <<"kernel", 0>>, cbar |-> c.cbar, m |-> n]
  OBVIOUS
<1>7. InPlace(p, d)
  <2>1. d \in CpuState
    BY <1>1, <1>4, <1>6, ValueType DEF CpuState, Label, InKernel, SP, Area
  <2>2. InCall(d.m) /\ d.sp[2] <= Len(d.m[d.sp[1]])
    BY <1>4, <1>6, BlockFields DEF Area
  <2> QED BY <1>1, <1>2, <1>6, <2>1, <2>2 DEF InPlace, StackAt, MapAt, InKernel, IntOff
<1>8. SeenAt(p, d) \in Own!Outcomes(SeenAt(p, c))
  <2>1. SeenAt(p, d) = Machine("user", 0, <<[ret |-> "none", val |-> w]>>)
    BY <1>4, <1>6, <1>7, SeenAtPlace
  <2>2. SeenAt(p, c).at = "init"
    BY <1>1, <1>2, SeenAtPlace DEF Machine
  <2>3. SeenAt(p, d) = Own!Started(w)
    BY <2>1 DEF Own!Started, Own!Machine, Machine
  <2> QED BY <2>2, <2>3 DEF Own!Outcomes
<1> QED BY <1>1, <1>5, <1>6, <1>7, <1>8, KeptIs, PlainStep DEF Follows

LEMMA OpcodeStep == CtxInv /\ undefined_opcode => Good
<1> SUFFICES ASSUME CtxInv, undefined_opcode PROVE Good
  OBVIOUS
<1>0. ~panicked /\ pc = "user" /\ pc \notin IntOff
  BY DEF undefined_opcode, At, IntOff
<1>1. PICK p \in Pid, c \in CpuState :
         /\ IsNow(p, c) /\ InPlace(p, c) /\ Here = c.m /\ c.m \in PageBlock /\ c.pc = "user"
         /\ c.sp = sp /\ c.cbar = cbar /\ c.pc \notin IntOff /\ c.sp = <<"user", 1>>
         /\ c.sp \in SP /\ c.cbar = "USER" /\ c.sp[2] <= Len(c.m[c.sp[1]])
  BY <1>0, HereInPlace DEF StackAt, MapAt, InKernel
<1>2. p # IDLE
  BY <1>1 DEF InPlace
<1> DEFINE f == Of("user", 0)
           n == Push(c.m, c.sp, f)
<1>3. f \in Frame
  BY ValueType, FrameFields DEF Name, Label, InUser
<1>4. /\ memory' = [memory EXCEPT ![cbr] = n] /\ pc' = "reset" /\ a' = 0 /\ sp' = <<"user", 2>>
      /\ cbar' = c.cbar /\ UNCHANGED <<schedVars, cbr, saved_sp, next_pid, iff>>
      /\ trap_bit' = TRUE /\ sources' = sources
  BY <1>1 DEF undefined_opcode, Store, Goto, Down
<1> HIDE DEF f
<1>5. n \in PageBlock /\ Len(n["user"]) = 2 /\ n["user"][1] = c.m["user"][1]
  <2>1. /\ n \in PageBlock /\ Len(n[c.sp[1]]) = c.sp[2] + 1
        /\ \A i \in 1 .. c.sp[2] : n[c.sp[1]][i] = c.m[c.sp[1]][i]
    BY <1>1, <1>3, PushEffect
  <2> QED BY <1>1, <2>1
<1> HIDE DEF n
<1>6. PICK d : d = [pc |-> "reset", a |-> 0, sp |-> <<"user", 2>>, cbar |-> c.cbar, m |-> n]
  OBVIOUS
<1>7. InPlace(p, d)
  <2>1. d \in CpuState
    BY <1>1, <1>5, <1>6, ValueType DEF CpuState, Label, InUser, SP, Area
  <2> QED BY <1>1, <1>2, <1>5, <1>6, <2>1 DEF InPlace, StackAt, MapAt, InKernel, IntOff
<1>8. SeenAt(p, d) \in Own!Outcomes(SeenAt(p, c))
  <2>1. Live(n, <<"user", 1>>) = Live(c.m, <<"user", 1>>)
    <3>1. 1 <= Len(c.m["user"]) /\ 1 <= Len(n["user"]) /\ "user" \in Area
          /\ \A i \in 1 .. 1 : n["user"][i] = c.m["user"][i]
      BY <1>1, <1>5 DEF Area
    <3> QED BY <1>1, <1>5, <3>1, LiveSame
  <2>2. SeenAt(p, d) = Machine("fault", 0, Live(c.m, <<"user", 1>>))
    BY <1>6, <1>7, <2>1, SeenAtPlace
  <2>3. SeenAt(p, c) = Machine("user", c.a, Live(c.m, <<"user", 1>>))
    BY <1>1, SeenAtPlace
  <2>4. SeenAt(p, d) = Own!Faulted(SeenAt(p, c)) /\ SeenAt(p, c).at = "user"
    BY <2>2, <2>3 DEF Own!Faulted, Own!Machine, Machine
  <2> QED BY <2>4 DEF Own!Outcomes
<1>9. sources' \in BOOLEAN
  BY <1>4 DEF CtxInv, TypeInv, TypeOK
<1> QED BY <1>1, <1>4, <1>6, <1>7, <1>8, <1>9, PlainStep DEF Follows

LEMMA TrapEnterStep == CtxInv /\ trap_enter => Good
<1> SUFFICES ASSUME CtxInv, trap_enter PROVE Good
  OBVIOUS
<1>0. ~panicked /\ pc = "trap" /\ pc \notin IntOff
  BY DEF trap_enter, At, IntOff
<1>1. PICK p \in Pid, c \in CpuState :
         /\ IsNow(p, c) /\ InPlace(p, c) /\ Here = c.m /\ c.m \in PageBlock /\ c.pc = "trap"
         /\ c.a = a /\ c.sp = sp /\ c.pc \notin IntOff /\ c.sp = <<"user", 2>>
         /\ c.sp \in SP /\ c.sp[2] <= Len(c.m[c.sp[1]]) /\ c.a \in Value
  BY <1>0, HereInPlace DEF StackAt
<1>2. p # IDLE
  BY <1>1 DEF InPlace
<1> DEFINE r == Pop(c.m, c.sp)
           t == <<Of("lost", 0)>>
           n == [r EXCEPT !.trap = t]
<1>3. c.sp[2] \in 1 .. Len(c.m[c.sp[1]])
  <2>1. Len(c.m["user"]) \in Nat
    BY <1>1, BlockFields DEF Area
  <2> QED BY <1>1, <2>1
<1>4. r \in PageBlock /\ r["user"] = Live(c.m, <<"user", 1>>)
  <2>1. r \in PageBlock /\ r[c.sp[1]] = Live(c.m, Up(c.sp))
    BY <1>1, <1>3, PopEffect
  <2>2. Up(c.sp) = <<"user", 1>>
    BY <1>1 DEF Up
  <2> QED BY <1>1, <2>1, <2>2
<1>5. t \in Seq(Frame) /\ Len(t) = 1
  <2>1. Of("lost", 0) \in Frame
    BY ValueType, FrameFields DEF Name
  <2> QED BY <2>1
<1>6. /\ memory' = [memory EXCEPT ![cbr] = n] /\ pc' = "trap_clear" /\ a' = c.a
      /\ sp' = <<"trap", 1>> /\ cbar' = "KERNEL" /\ Kept
  BY <1>1 DEF trap_enter, Store, Goto
<1> HIDE DEF r, t
<1>7. n \in PageBlock /\ n["user"] = r["user"] /\ n["trap"] = t
  BY <1>4, <1>5 DEF PageBlock
<1> HIDE DEF n
<1>8. PICK d : d = [pc |-> "trap_clear", a |-> c.a, sp |-> <<"trap", 1>>, cbar |-> "KERNEL",
                    m |-> n]
  OBVIOUS
<1>9. InPlace(p, d)
  <2>1. d \in CpuState
    BY <1>1, <1>7, <1>8 DEF CpuState, Label, InKernel, SP, Area
  <2>2. d.sp[2] <= Len(d.m[d.sp[1]])
    <3>1. Len(n["trap"]) = 1
      BY <1>5, <1>7
    <3>2. d.sp[2] = 1 /\ d.m[d.sp[1]] = n["trap"]
      BY <1>8
    <3>3. \A k \in Nat : k = 1 => 1 <= k
      OBVIOUS
    <3>4. Len(n["trap"]) \in Nat
      BY <3>1
    <3>5. 1 <= Len(n["trap"])
      BY <3>1, <3>3, <3>4
    <3> QED BY <3>2, <3>5
  <2> QED BY <1>2, <1>8, <2>1, <2>2 DEF InPlace, StackAt, MapAt, InKernel, IntOff
<1>10. SeenAt(p, d) = SeenAt(p, c)
  <2>1. SeenAt(p, d) = Machine("fault", 0, n["user"])
    BY <1>8, <1>9, SeenAtPlace
  <2>2. SeenAt(p, c) = Machine("fault", 0, Live(c.m, <<"user", 1>>))
    BY <1>1, SeenAtPlace
  <2> QED BY <1>4, <1>7, <2>1, <2>2
<1> QED BY <1>1, <1>6, <1>8, <1>9, <1>10, KeptIs, PlainStep DEF Follows

-----------------------------------------------------------------------------
(* The steps of the scheduler.                                               *)

LEMMA TickStep == CtxInv /\ int_prt0 => Good
<1> SUFFICES ASSUME CtxInv, int_prt0 PROVE Good
  OBVIOUS
<1>0. ~panicked /\ iff /\ pc \notin IntOff
  BY DEF int_prt0, Interruptible, CtxInv, CpuInv
<1>1. PICK p \in Pid, c \in CpuState :
         /\ IsNow(p, c) /\ InPlace(p, c) /\ Here = c.m
         /\ c.pc = pc /\ c.a = a /\ c.sp = sp /\ c.cbar = cbar
  BY <1>0, HereInPlace
<1>2. p = current_proc /\ Place(p) = c /\ state[p] = "RUNNING"
  BY <1>0, <1>1, NowIs
<1>3. interrupt_enter(Here) = Entered(c)
  BY <1>1 DEF interrupt_enter, Entered
<1>4. SchedTypeOK /\ SchedInv /\ state[IDLE] \in Awake
  BY DEF CtxInv, TypeInv, TypeOK, CpuInv
<1>5. /\ SchedTypeOK' /\ SchedInv'
      /\ \A q \in Pid : state'[q] = state[q] \/ (state[q] \in Awake /\ state'[q] \in Awake)
  BY <1>4, TickEffect DEF int_prt0
<1>6. /\ state'[IDLE] \in Awake /\ state'[p] \in Awake
      /\ \A q \in Pid : state'[q] = state[q] \/ (Alive(q) /\ Alive(q)')
  BY <1>2, <1>4, <1>5, ValueType DEF Awake, Alive
<1>7. state'[p] # "EMPTY" /\ Alive(p)'
  BY <1>6 DEF Awake, Alive
<1>8. PICK m : m = Entered(c)
  OBVIOUS
<1>9. PICK d : d = [pc |-> "interrupt_leave", a |-> 0, sp |-> Down(InterruptStack),
                    cbar |-> "KERNEL", m |-> Push(m, InterruptStack, Of("interrupt_leave", 0))]
  OBVIOUS
<1>10. /\ m \in PageBlock /\ InterruptStack \in SP
       /\ InterruptStack[2] <= Len(m[InterruptStack[1]])
       /\ HeldUp(d) /\ InPlace(p, Settled(d)) /\ SeenAt(p, Settled(d)) = SeenAt(p, c)
       /\ IsParent(p, Settled(d)) => IsParent(p, c) /\ SameFork(c, Settled(d))
  BY <1>1, <1>8, <1>9, EnterEffect
<1>11. process_switch_from(m, InterruptStack, "interrupt_leave", 0) /\ UNCHANGED kernelVars
  BY <1>3, <1>8 DEF int_prt0
<1>12. "interrupt_leave" \in Name /\ "interrupt_leave" \in IntOff /\ 0 \in Value
  BY ValueType DEF Name, Label, IntOff
<1>13. PICK s \in SP : s = InterruptStack
  BY <1>10
<1> QED BY <1>2, <1>5, <1>6, <1>7, <1>9, <1>10, <1>11, <1>12, <1>13, SwitchStep DEF Good

LEMMA BlockStep == CtxInv /\ Block => Good
<1> SUFFICES ASSUME CtxInv, Block PROVE Good
  OBVIOUS
<1>0. ~panicked /\ pc = "kernel" /\ pc \notin IntOff /\ int_state = 1
  BY DEF Block, At, IntOff, CtxInv, CpuInv, int_state
<1>1. PICK p \in Pid, c \in CpuState :
         /\ IsNow(p, c) /\ InPlace(p, c) /\ Here = c.m /\ c.pc = "kernel" /\ c.sp = sp
  BY <1>0, HereInPlace
<1>2. p = current_proc /\ Place(p) = c /\ state[p] = "RUNNING"
  BY <1>0, <1>1, NowIs
<1>3. /\ p # IDLE /\ c.m \in PageBlock /\ c.sp = <<"kernel", 1>> /\ c.sp \in SP
      /\ c.sp[2] <= Len(c.m[c.sp[1]]) /\ c.cbar = "KERNEL"
  BY <1>1, ReturnFrame DEF InPlace
<1>4. SchedTypeOK /\ SchedInv /\ state[IDLE] \in Awake
  BY DEF CtxInv, TypeInv, TypeOK, CpuInv
<1>5. /\ SchedTypeOK' /\ SchedInv' /\ state'[p] = "BLOCKED"
      /\ \A q \in Pid \ {p} :
            state'[q] = state[q] \/ (state[q] \in Awake /\ state'[q] \in Awake)
  <2>1. "BLOCKED" \in ProcState \ Awake
    BY DEF ProcState, Awake
  <2>2. /\ process_schedule(process_ready_list, [state EXCEPT ![current_proc] = "BLOCKED"])
        /\ current_proc # IDLE
    BY <1>2, <1>3 DEF Block, process_block
  <2>3. /\ SchedTypeOK' /\ SchedInv' /\ state'[current_proc] = "BLOCKED"
        /\ \A q \in Pid \ {current_proc} :
              state'[q] = state[q] \/ (state[q] \in Awake /\ state'[q] \in Awake)
    BY <1>4, <2>1, <2>2, LeaveEffect
  <2> QED BY <1>2, <2>3
<1>6. /\ state'[IDLE] \in Awake /\ state'[p] # "EMPTY" /\ Alive(p)'
      /\ \A q \in Pid \ {p} : state'[q] = state[q] \/ (Alive(q) /\ Alive(q)')
  BY <1>3, <1>4, <1>5, ValueType DEF Awake, Alive
<1> DEFINE f == Of("blocked", 1)
           n == Push(c.m, c.sp, f)
<1>7. "blocked" \in Name /\ "blocked" \in IntOff /\ 0 \in Value
  BY ValueType DEF Name, Label, IntOff
<1>8. 1 \in Value
  BY MaxPidAssumption DEF Value, Pid
<1>9. f \in Frame /\ f.val = 1
  BY <1>7, <1>8, FrameFields
<1>10. PICK d : d = [pc |-> "blocked", a |-> 0, sp |-> Down(c.sp), cbar |-> "KERNEL", m |-> n]
  OBVIOUS
<1>11. process_switch_from(c.m, c.sp, "blocked", 1) /\ UNCHANGED kernelVars
  BY <1>0, <1>1 DEF Block
<1> HIDE DEF f
<1>12. n \in PageBlock /\ Agree(c.m, n, c.sp) /\ Len(n["kernel"]) = 2 /\ n["kernel"][2] = f
  <2>1. /\ n \in PageBlock /\ Agree(c.m, n, c.sp)
        /\ Len(n[c.sp[1]]) = c.sp[2] + 1 /\ n[c.sp[1]][c.sp[2] + 1] = f
    BY <1>3, <1>9, PushEffect
  <2> QED BY <1>3, <2>1
<1> HIDE DEF n
<1>13. Down(c.sp) = <<"kernel", 2>> /\ Down(c.sp) \in SP /\ Up(Down(c.sp)) = c.sp
  <2>1. Down(c.sp) = <<"kernel", 2>>
    BY <1>3 DEF Down
  <2> QED BY <1>3, <2>1, SPFields
<1>14. d \in CpuState
  BY <1>7, <1>10, <1>12, <1>13 DEF CpuState, Label
<1>15. HeldUp(d)
  BY <1>9, <1>10, <1>12, <1>13, <1>14 DEF HeldUp, IntOff
<1>16. PICK e : e = [pc |-> "kernel", a |-> 0, sp |-> c.sp, cbar |-> "KERNEL", m |-> c.m]
  OBVIOUS
<1>17. InPlace(p, e) /\ SeenAt(p, e) = SeenAt(p, c)
  <2>1. e \in CpuState
    BY <1>3, <1>7, <1>16 DEF CpuState, Label, InKernel
  <2>2. InPlace(p, e)
    BY <1>1, <1>3, <1>16, <2>1 DEF InPlace
  <2> QED BY <1>1, <1>16, <2>2, SeenAtPlace
<1>18. Settled(d) = [pc |-> "kernel", a |-> 0, sp |-> c.sp, cbar |-> "KERNEL", m |-> n]
  BY <1>10, <1>13, <1>14, SettledIs
<1>19. InPlace(p, Settled(d)) /\ SeenAt(p, Settled(d)) = SeenAt(p, c)
  <2>1. Settled(d) \in CpuState
    BY <1>3, <1>7, <1>12, <1>18 DEF CpuState, Label, InKernel
  <2> HIDE DEF IntOff
  <2>2. /\ Settled(d).pc = e.pc /\ Settled(d).a = e.a /\ Settled(d).sp = e.sp
        /\ Settled(d).cbar = e.cbar /\ Settled(d).m = n /\ e.m = c.m /\ e.sp = c.sp
    BY <1>16, <1>18
  <2>3. InPlace(p, Settled(d)) /\ SeenAt(p, Settled(d)) = SeenAt(p, e)
    BY <1>12, <1>17, <2>1, <2>2, DeadIsUnseen
  <2> QED BY <1>17, <2>3
<1>20. ~IsParent(p, Settled(d))
  BY <1>18 DEF IsParent
<1> QED BY <1>2, <1>3, <1>5, <1>6, <1>7, <1>8, <1>10, <1>11, <1>15, <1>19, <1>20, SwitchStep
        DEF Good, n, f

LEMMA ExitStep == CtxInv /\ sys_exit => Good
<1> SUFFICES ASSUME CtxInv, sys_exit PROVE Good
  OBVIOUS
<1>0. ~panicked /\ pc \in {"kernel", "trap_exit"} /\ pc \notin IntOff
  BY DEF sys_exit, At, IntOff
<1>1. PICK p \in Pid, c \in CpuState :
         /\ IsNow(p, c) /\ InPlace(p, c) /\ Here = c.m /\ c.m \in PageBlock /\ c.pc = pc
         /\ c.sp = sp /\ c.sp \in SP /\ c.sp[2] <= Len(c.m[c.sp[1]])
  BY <1>0, HereInPlace
<1>2. p = current_proc /\ Place(p) = c /\ state[p] = "RUNNING"
  BY <1>0, <1>1, NowIs
<1>3. p # IDLE
  BY <1>0, <1>1 DEF InPlace
<1>4. SchedTypeOK /\ SchedInv /\ state[IDLE] \in Awake
  BY DEF CtxInv, TypeInv, TypeOK, CpuInv
<1>5. "ZOMBIE" \in ProcState \ Awake
  BY DEF ProcState, Awake
<1>6. /\ SchedTypeOK' /\ SchedInv' /\ state'[p] = "ZOMBIE" /\ state'[IDLE] \in Awake
      /\ \A q \in Pid \ {p} : state'[q] = state[q] \/ (Alive(q) /\ Alive(q)')
  <2>1. CASE process_schedule(process_ready_list, [state EXCEPT ![current_proc] = "ZOMBIE"])
    <3>1. /\ SchedTypeOK' /\ SchedInv' /\ state'[current_proc] = "ZOMBIE"
          /\ \A q \in Pid \ {current_proc} :
                state'[q] = state[q] \/ (state[q] \in Awake /\ state'[q] \in Awake)
      BY <1>2, <1>3, <1>4, <1>5, <2>1, LeaveEffect
    <3> QED BY <1>2, <1>3, <1>4, <3>1, ValueType DEF Awake, Alive
  <2>2. ASSUME NEW q \in Pid, state[q] = "BLOCKED",
               process_switch(q, process_ready_list, [state EXCEPT ![current_proc] = "ZOMBIE"])
        PROVE  /\ SchedTypeOK' /\ SchedInv' /\ state'[p] = "ZOMBIE" /\ state'[IDLE] \in Awake
               /\ \A r \in Pid \ {p} : state'[r] = state[r] \/ (Alive(r) /\ Alive(r)')
    <3>1. state[q] \notin Awake
      BY <2>2 DEF Awake
    <3>2. /\ SchedTypeOK' /\ SchedInv' /\ state'[current_proc] = "ZOMBIE" /\ state'[q] = "RUNNING"
          /\ \A r \in Pid \ {current_proc, q} : state'[r] = state[r]
      BY <1>4, <1>5, <2>2, <3>1, SwitchEffect
    <3>3. IDLE # q /\ IDLE \in Pid
      BY <1>4, <3>1, ValueType
    <3>4. Alive(q) /\ Alive(q)'
      BY <2>2, <3>2 DEF Alive
    <3> QED BY <1>2, <1>3, <1>4, <3>2, <3>3, <3>4
  <2> QED BY <2>1, <2>2 DEF sys_exit
<1>7. ~Alive(p)' /\ state'[p] # "EMPTY"
  BY <1>6 DEF Alive
<1>8. Machine("none", 0, <<>>) \in Own!Outcomes(SeenAt(p, c))
  <2>1. SeenAt(p, c).at \in {"call", "fault"}
    BY <1>0, <1>1, SeenAtPlace DEF Machine
  <2> QED BY <2>1 DEF Machine, Own!Outcomes, Own!None, Own!Machine
<1>9. "panic" \in Name /\ 0 \in Value
  BY ValueType DEF Name
<1>10. process_switch_from(c.m, c.sp, "panic", 0) /\ UNCHANGED kernelVars
  BY <1>1 DEF sys_exit
<1>11. PICK d : d = [pc |-> "panic", a |-> 0, sp |-> Down(c.sp), cbar |-> "KERNEL",
                     m |-> Push(c.m, c.sp, Of("panic", 0))]
  OBVIOUS
<1> QED BY <1>1, <1>2, <1>6, <1>7, <1>8, <1>9, <1>10, <1>11, SwitchStep DEF Good

LEMMA WakeStep == CtxInv /\ (\E q \in Pid : Wake(q)) => Good
<1> SUFFICES ASSUME CtxInv, NEW q \in Pid, Wake(q) PROVE Good
  OBVIOUS
<1>1. PICK p \in Pid, c \in CpuState : IsNow(p, c)
  BY Now
<1>2. /\ p = current_proc /\ cbr = p /\ c.pc = "kernel" /\ c.pc \notin IntOff /\ c.m \in PageBlock
      /\ c = [pc |-> pc, a |-> a, sp |-> sp, cbar |-> cbar, m |-> c.m]
      /\ HeldUp(c) /\ Place(p) = c /\ Settled(c) = c /\ InPlace(p, c) /\ c.m = memory[cbr]
      /\ iff = TRUE /\ trap_bit \in BOOLEAN /\ sources \in BOOLEAN /\ state[p] = "RUNNING"
  BY <1>1, NowIs DEF Wake, At, IntOff, IsNow
<1>3. /\ SchedTypeOK /\ SchedInv /\ state[IDLE] \in Awake /\ state[q] \notin Awake
      /\ memory \in [Pid -> PageBlock] /\ saved_sp \in [Pid -> SP] /\ state \in [Pid -> ProcState]
  BY DEF CtxInv, TypeInv, TypeOK, CpuInv, Wake, Awake, SchedTypeOK
<1>4. /\ SchedTypeOK' /\ SchedInv' /\ current_proc' = p /\ state' = [state EXCEPT ![q] = "READY"]
  BY <1>2, <1>3, ReadyEffect DEF Wake
<1>5. /\ UNCHANGED <<cbr, next_pid>> /\ memory' = memory /\ saved_sp' = saved_sp
      /\ pc' = pc /\ a' = a /\ sp' = sp /\ cbar' = cbar /\ iff' = iff
      /\ trap_bit' = trap_bit /\ sources' = sources
  BY DEF Wake, cpuVars, kernelVars, trapVars
<1>6. /\ state'[p] = state[p] /\ state'[IDLE] \in Awake
      /\ \A r \in Pid \ {p} : state'[r] = state[r] \/ (Alive(r) /\ Alive(r)')
  BY <1>2, <1>3, <1>4, ValueType DEF Wake, Alive, Awake
<1>7. memory' = [memory EXCEPT ![cbr] = c.m]
  BY <1>2, <1>3, <1>5
<1>8. ~IsParent(p, c)
  BY <1>2 DEF IsParent
<1>9. c = [pc |-> pc', a |-> a', sp |-> sp', cbar |-> cbar', m |-> c.m]
  BY <1>2, <1>5
<1> QED BY <1>2, <1>3, <1>4, <1>5, <1>6, <1>7, <1>8, <1>9, StayStep DEF Good, Follows

-----------------------------------------------------------------------------
(* Forks.                                                                    *)

(***************************************************************************)
(* A step of the current process p with x, which does not run yet and is   *)
(* no one else's child.  After it p is at d, and x, once it is a process,  *)
(* will go on at e.                                                        *)
(***************************************************************************)
LEMMA ChildStep ==
    ASSUME CtxInv, SchedTypeOK', SchedInv', NEW p \in Pid, p = current_proc,
           current_proc' = p, cbr' = p, iff' = TRUE,
           next_pid' \in 1 .. MaxPid + 1, next_pid <= next_pid',
           trap_bit' \in BOOLEAN, sources' \in BOOLEAN,
           memory' \in [Pid -> PageBlock], saved_sp' \in [Pid -> SP],
           NEW x \in Pid, x # p, state[x] = "EMPTY", x < next_pid',
           \A q \in Pid \ {p} : Forks(q) => ChildAt(Place(q)) # x,
           \A q \in Pid \ {p, x} : memory'[q] = memory[q] /\ saved_sp'[q] = saved_sp[q],
           \A q \in Pid \ {x} : state'[q] = state[q],
           NEW d, d = [pc |-> pc', a |-> a', sp |-> sp', cbar |-> cbar', m |-> memory'[p]],
           InPlace(p, d),
           IsParent(p, d) => ChildAt(d) = x /\ state'[x] = "EMPTY" /\ IsCopy(memory'[x], d),
           NEW e, e = [pc |-> Top(memory'[x], saved_sp'[x]).ret, a |-> 0, sp |-> saved_sp'[x],
                       cbar |-> "KERNEL", m |-> memory'[x]],
           Alive(x)' => /\ e.pc \in IntOff /\ HeldUp(e) /\ InPlace(x, Settled(e))
                        /\ ~IsParent(x, Settled(e))
    PROVE  /\ CtxInv' /\ MachineOf(p) = SeenAt(p, Place(p)) /\ MachineOf(p)' = SeenAt(p, d)
           /\ MachineOf(x) = Machine("none", 0, <<>>)
           /\ Alive(x)' => MachineOf(x)' = SeenAt(x, Settled(e))
           /\ ~Alive(x)' => MachineOf(x)' = Machine("none", 0, <<>>)
           /\ \A q \in Pid \ {p, x} : MachineOf(q)' = MachineOf(q)
<1>1. /\ Alive(p) /\ ~Alive(x) /\ cbr = p /\ TypeOK /\ state[IDLE] \in Awake
      /\ state[p] = "RUNNING" /\ IDLE \in Pid
  BY CurrentIsAlive, ValueType DEF CtxInv, CpuInv, TypeInv, Alive
<1>2. /\ d \in CpuState /\ d.pc \notin IntOff /\ Settled(d) = d /\ HeldUp(d)
      /\ d.pc = pc' /\ d.a = a' /\ d.sp = sp' /\ d.cbar = cbar'
  <2>1. d \in CpuState /\ d.pc \notin IntOff
    BY DEF InPlace
  <2> QED BY <2>1, SettledIs DEF HeldUp, IntOff
<1>3. Cpu(p)' = d /\ Cpu(x)' = e
  BY DEF Cpu, Here
<1>4. \A q \in Pid \ {p, x} : Cpu(q)' = Cpu(q)
  BY DEF Cpu
<1>5. Place(p)' = d /\ Place(x)' = Settled(e) /\ \A q \in Pid \ {p, x} : Place(q)' = Place(q)
  BY <1>2, <1>3, <1>4 DEF Place
<1>6. \A q \in Pid \ {x} : Alive(q)' <=> Alive(q)
  BY DEF Alive
<1>7. TypeInv'
  <2>1. pc' \in Label /\ a' \in Value /\ sp' \in SP /\ cbar' \in {"USER", "KERNEL"}
    BY <1>2 DEF CpuState
  <2>2. \A q \in Pid :
           /\ \A s \in Area : memory'[q][s] \in Seq(Frame)
           /\ memory'[q].syscall_sp \in SP /\ memory'[q].interrupt_sp \in SP
           /\ memory'[q].interrupt_cbar \in {"USER", "KERNEL"}
    BY BlockFields DEF PageBlock
  <2> QED BY <2>1, <2>2 DEF TypeInv, TypeOK, Label
<1>8. CpuInv'
  <2>1. iff' <=> pc' \notin IntOff
    BY <1>2
  <2>2. \A q \in Pid \ {p} : Alive(q)' => Cpu(q)'.pc \in IntOff
    <3> SUFFICES ASSUME NEW q \in Pid \ {p}, Alive(q)' PROVE Cpu(q)'.pc \in IntOff
      OBVIOUS
    <3>1. CASE q = x
      BY <1>3, <3>1
    <3>2. CASE q # x
      BY <1>4, <1>6, <3>2 DEF CtxInv, CpuInv
    <3> QED BY <3>1, <3>2
  <2>3. \A q \in Pid : state'[q] # "EMPTY" => q < next_pid'
    <3> SUFFICES ASSUME NEW q \in Pid \ {x}, state'[q] # "EMPTY" PROVE q < next_pid'
      OBVIOUS
    <3>1. q < next_pid
      BY DEF CtxInv, CpuInv
    <3>2. q \in Nat /\ next_pid \in Nat /\ next_pid' \in Nat
      BY <1>1, ValueType, MaxPidAssumption DEF TypeOK
    <3> QED BY <3>1, <3>2
  <2>4. state'[IDLE] \in Awake
    <3>1. IDLE # x
      BY <1>1 DEF Awake
    <3> QED BY <1>1, <3>1
  <2> QED BY <2>1, <2>2, <2>3, <2>4 DEF CpuInv
<1>9. PlacesInv'
  <2> SUFFICES ASSUME NEW q \in Pid, Alive(q)'
               PROVE  (HeldUp(Cpu(q)) /\ InPlace(q, Place(q)))'
    BY DEF PlacesInv
  <2>1. CASE q = p
    BY <1>2, <1>3, <1>5, <2>1
  <2>2. CASE q = x
    BY <1>3, <1>5, <2>2
  <2>3. CASE q \notin {p, x}
    BY <1>4, <1>5, <1>6, <2>3 DEF CtxInv, PlacesInv
  <2> QED BY <2>1, <2>2, <2>3
<1>10. ~Forks(x)' /\ \A q \in Pid \ {p, x} : Forks(q)' <=> Forks(q)
  BY <1>5, <1>6 DEF Forks
<1>11. ASSUME NEW q \in Pid \ {p, x}, Forks(q)
       PROVE  LET child == ChildAt(Place(q)) IN
              /\ child # q /\ child < next_pid' /\ state'[child] = "EMPTY" /\ child # x
              /\ IsCopy(memory'[child], Place(q)')
  <2> DEFINE child == ChildAt(Place(q))
  <2>1. child # q /\ child < next_pid /\ state[child] = "EMPTY" /\ IsCopy(memory[child], Place(q))
    BY <1>11 DEF CtxInv, ForkInv
  <2>2. child \in Pid
    <3>1. InPlace(q, Place(q)) /\ Place(q).pc \in {"copied", "forked"}
      BY <1>11 DEF Forks, IsParent, CtxInv, PlacesInv
    <3> QED BY <3>1 DEF InPlace, InFork, ChildAt
  <2>3. child # x /\ child # p
    BY <1>1, <1>11, <2>1
  <2>4. child < next_pid'
    <3>1. child \in Nat /\ next_pid \in Nat /\ next_pid' \in Nat
      BY <1>1, <2>2, ValueType, MaxPidAssumption DEF TypeOK
    <3> QED BY <2>1, <3>1
  <2> QED BY <1>5, <2>1, <2>2, <2>3, <2>4
<1>12. Forks(p)' => LET child == ChildAt(Place(p)') IN
                    /\ child = x /\ state'[child] = "EMPTY" /\ IsCopy(memory'[child], Place(p)')
  BY <1>5 DEF Forks
<1>13. ForkInv'
  <2>1. ASSUME NEW q \in Pid, Forks(q)'
        PROVE  LET child == ChildAt(Place(q)') IN
               /\ child # q /\ child < next_pid' /\ state'[child] = "EMPTY"
               /\ IsCopy(memory'[child], Place(q)')
    <3>1. CASE q = p
      BY <1>12, <2>1, <3>1
    <3>2. CASE q # p
      BY <1>5, <1>10, <1>11, <2>1, <3>2
    <3> QED BY <3>1, <3>2
  <2>2. ASSUME NEW q \in Pid, NEW r \in Pid, Forks(q)', Forks(r)', q # r
        PROVE  ChildAt(Place(q)') # ChildAt(Place(r)')
    <3>1. CASE q = p
      BY <1>5, <1>10, <1>11, <1>12, <2>2, <3>1
    <3>2. CASE r = p
      BY <1>5, <1>10, <1>11, <1>12, <2>2, <3>2
    <3>3. CASE q # p /\ r # p
      <4>1. Forks(q) /\ Forks(r) /\ Place(q)' = Place(q) /\ Place(r)' = Place(r)
        BY <1>5, <1>10, <2>2, <3>3
      <4> QED BY <2>2, <4>1 DEF CtxInv, ForkInv
    <3> QED BY <3>1, <3>2, <3>3
  <2> QED BY <2>1, <2>2 DEF ForkInv, ChildAt
<1>14. /\ MachineOf(p) = SeenAt(p, Place(p)) /\ MachineOf(p)' = SeenAt(p, d)
       /\ MachineOf(x) = Machine("none", 0, <<>>)
  <2>1. Alive(p)'
    BY <1>1, <1>6
  <2> QED BY <1>1, <1>5, <2>1 DEF MachineOf, Place, Alive
<1>15. /\ Alive(x)' => MachineOf(x)' = SeenAt(x, Settled(e))
       /\ ~Alive(x)' => MachineOf(x)' = Machine("none", 0, <<>>)
  BY <1>5 DEF MachineOf, Place, Alive
<1>16. \A q \in Pid \ {p, x} : MachineOf(q)' = MachineOf(q)
  BY <1>5 DEF MachineOf, Place
<1> QED BY <1>7, <1>8, <1>9, <1>13, <1>14, <1>15, <1>16 DEF CtxInv

\* Nothing is seen of a step.
LEMMA Unseen ==
    ASSUME \A q \in Pid : MachineOf(q)' = MachineOf(q)
    PROVE  Machines' = Machines
BY DEF Machines

\* The stack that sys_fork leaves, for a call of a program or of the boot code.
LEMMA ForkStack ==
    ASSUME NEW p \in Pid, NEW c, InPlace(p, c), c.pc \in {"kernel", "boot"}, NEW x \in Pid,
           NEW base,
           base = IF c.pc = "boot" THEN Push(c.m, c.sp, Of("main", 0)) ELSE c.m,
           NEW from, from = IF c.pc = "boot" THEN Down(c.sp) ELSE c.sp,
           NEW m, m = Push(Push(base, from, Of("child_pid", x)), Down(from), Of("forked", p))
    PROVE  /\ from = <<"kernel", 1>> /\ Down(Down(from)) = <<"kernel", 3>>
           /\ m \in PageBlock /\ m.user = c.m.user /\ m.syscall_sp = c.m.syscall_sp
           /\ Len(m["kernel"]) = 3 /\ m["kernel"][3].val = p /\ m["kernel"][2].val = x
           /\ m["kernel"][1].ret = IF c.pc = "boot" THEN "main" ELSE "leave"
<1>1. c.m \in PageBlock /\ c.sp = StackAt(c.pc) /\ c.sp \in SP /\ c.sp[2] <= Len(c.m[c.sp[1]])
  BY DEF InPlace, CpuState
<1> DEFINE f2 == Of("child_pid", x)
           f3 == Of("forked", p)
<1>2. f2 \in Frame /\ f2.val = x /\ f3 \in Frame /\ f3.val = p
  BY ValueType, FrameFields DEF Name, Label, InKernel
<1>3. /\ from = <<"kernel", 1>> /\ from \in SP /\ from[1] = "kernel" /\ from[2] = 1
      /\ base \in PageBlock /\ base["user"] = c.m["user"] /\ base.syscall_sp = c.m.syscall_sp
      /\ from[2] <= Len(base[from[1]])
      /\ base["kernel"][1].ret = IF c.pc = "boot" THEN "main" ELSE "leave"
  <2>1. CASE c.pc = "boot"
    <3> DEFINE f1 == Of("main", 0)
    <3>1. f1 \in Frame /\ f1.ret = "main"
      BY ValueType, FrameFields DEF Name, Label, InKernel
    <3> HIDE DEF f1
    <3>2. c.sp = <<"kernel", 0>> /\ base = Push(c.m, c.sp, f1) /\ from = Down(c.sp)
      BY <1>1, <2>1 DEF StackAt, f1
    <3>3. from = <<"kernel", 1>> /\ from \in SP
      BY <3>2 DEF Down, SP, Area
    <3> DEFINE b == Push(c.m, c.sp, f1)
    <3>4. /\ b \in PageBlock /\ b.syscall_sp = c.m.syscall_sp
          /\ Len(b[c.sp[1]]) = c.sp[2] + 1 /\ b[c.sp[1]][c.sp[2] + 1] = f1
          /\ \A y \in Area \ {c.sp[1]} : b[y] = c.m[y]
      BY <1>1, <3>1, PushEffect
    <3> HIDE DEF b
    <3>5. Len(b["kernel"]) = 1 /\ b["kernel"][1] = f1 /\ b["user"] = c.m["user"]
      BY <3>2, <3>4 DEF Area
    <3>6. base = b
      BY <3>2 DEF b
    <3> QED BY <2>1, <3>1, <3>3, <3>4, <3>5, <3>6
  <2>2. CASE c.pc = "kernel"
    BY <1>1, <2>2 DEF StackAt, InPlace
  <2> QED BY <2>1, <2>2
<1> DEFINE n == Push(base, from, f2)
<1> HIDE DEF f2, f3
<1>4. /\ n \in PageBlock /\ n.syscall_sp = base.syscall_sp /\ n["user"] = base["user"]
      /\ Len(n["kernel"]) = 2 /\ n["kernel"][2] = f2 /\ n["kernel"][1] = base["kernel"][1]
  <2>1. /\ n \in PageBlock /\ n.syscall_sp = base.syscall_sp
        /\ \A y \in Area \ {from[1]} : n[y] = base[y]
        /\ Len(n[from[1]]) = from[2] + 1 /\ n[from[1]][from[2] + 1] = f2
        /\ \A i \in 1 .. from[2] : n[from[1]][i] = base[from[1]][i]
    BY <1>2, <1>3, PushEffect
  <2> HIDE DEF n
  <2> QED BY <1>3, <2>1 DEF Area
<1>5. m = Push(n, Down(from), f3)
  BY DEF f2, f3
<1> HIDE DEF n
<1>6. PICK s \in SP : s = Down(from) /\ s[1] = "kernel" /\ s[2] = 2
  <2>1. Down(from) = <<"kernel", 2>> /\ <<"kernel", 2>> \in SP
    BY <1>3 DEF Down, SP, Area
  <2> QED BY <2>1
<1>7. /\ m \in PageBlock /\ m.syscall_sp = n.syscall_sp /\ m["user"] = n["user"]
      /\ Len(m["kernel"]) = 3 /\ m["kernel"][3] = f3 /\ m["kernel"][1] = n["kernel"][1]
      /\ m["kernel"][2] = n["kernel"][2]
  <2>1. s[2] <= Len(n[s[1]]) /\ m = Push(n, s, f3)
    BY <1>4, <1>5, <1>6
  <2>2. /\ m \in PageBlock /\ m.syscall_sp = n.syscall_sp
        /\ \A y \in Area \ {s[1]} : m[y] = n[y]
        /\ Len(m[s[1]]) = s[2] + 1 /\ m[s[1]][s[2] + 1] = f3
        /\ \A i \in 1 .. s[2] : m[s[1]][i] = n[s[1]][i]
    BY <1>2, <1>4, <2>1, PushEffect
  <2>3. 1 \in 1 .. 2 /\ 2 \in 1 .. 2
    OBVIOUS
  <2>4. /\ Len(m["kernel"]) = 3 /\ m["kernel"][3] = f3
        /\ \A i \in 1 .. 2 : m["kernel"][i] = n["kernel"][i]
    <3>1. s[2] + 1 = 3
      BY <1>6
    <3>2. Len(m[s[1]]) = 3 /\ m[s[1]][3] = f3 /\ \A i \in 1 .. 2 : m[s[1]][i] = n[s[1]][i]
      BY <1>6, <2>2, <3>1
    <3> QED BY <1>6, <3>2
  <2>5. m["user"] = n["user"]
    BY <1>6, <2>2 DEF Area
  <2> QED BY <2>2, <2>3, <2>4, <2>5
<1>8. Down(Down(from)) = <<"kernel", 3>>
  BY <1>3 DEF Down
<1> QED BY <1>2, <1>3, <1>4, <1>7, <1>8

LEMMA ForkStep == CtxInv /\ sys_fork => Good
<1> SUFFICES ASSUME CtxInv, sys_fork PROVE Good
  OBVIOUS
<1>0. ~panicked /\ pc \in {"kernel", "boot"} /\ pc \notin IntOff /\ next_pid <= MaxPid
  BY DEF sys_fork, IntOff
<1>1. PICK p \in Pid, c \in CpuState :
         /\ IsNow(p, c) /\ InPlace(p, c) /\ Here = c.m /\ c.pc = pc /\ c.a = a
         /\ c.sp = sp /\ c.cbar = cbar /\ c.cbar = MapAt(pc) /\ c.a \in Value
  BY <1>0, HereInPlace
<1>2. /\ p = current_proc /\ cbr = p /\ Place(p) = c /\ state[p] = "RUNNING" /\ iff = TRUE
      /\ trap_bit \in BOOLEAN /\ sources \in BOOLEAN
  BY <1>0, <1>1, NowIs
<1>3. /\ SchedTypeOK /\ SchedInv /\ memory \in [Pid -> PageBlock] /\ saved_sp \in [Pid -> SP]
      /\ next_pid \in 1 .. MaxPid + 1
  BY DEF CtxInv, TypeInv, TypeOK
<1>4. PICK x \in Pid : x = next_pid
  BY <1>0, <1>3, MaxPidAssumption DEF Pid
<1>5. /\ state[x] = "EMPTY" /\ x # p /\ x < next_pid + 1 /\ next_pid + 1 \in 1 .. MaxPid + 1
      /\ next_pid <= next_pid + 1
  <2>1. state[x] = "EMPTY" /\ x # p
    BY <1>2, <1>4, ValueType DEF CtxInv, CpuInv
  <2> QED BY <1>0, <1>3, <1>4, <2>1, MaxPidAssumption
<1>6. \A q \in Pid \ {p} : Forks(q) => ChildAt(Place(q)) # x
  <2> SUFFICES ASSUME NEW q \in Pid, Forks(q) PROVE ChildAt(Place(q)) # x
    OBVIOUS
  <2>1. ChildAt(Place(q)) < x
    BY <1>4 DEF CtxInv, ForkInv
  <2> QED BY <2>1, ValueType
<1> DEFINE base == IF c.pc = "boot" THEN Push(c.m, c.sp, Of("main", 0)) ELSE c.m
           from == IF c.pc = "boot" THEN Down(c.sp) ELSE c.sp
           m == Push(Push(base, from, Of("child_pid", x)), Down(from), Of("forked", p))
<1>7. /\ next_pid' = next_pid + 1 /\ memory' = [memory EXCEPT ![p] = m, ![x] = m]
      /\ sp' = Down(Down(from)) /\ pc' = "copied"
      /\ UNCHANGED <<schedVars, a, cbar, cbr, iff, saved_sp, trap_bit, sources>>
  BY <1>1, <1>2, <1>4 DEF sys_fork, Goto, trapVars
<1>8. /\ Down(Down(from)) = <<"kernel", 3>>
      /\ m \in PageBlock /\ m.user = c.m.user /\ m.syscall_sp = c.m.syscall_sp
      /\ Len(m["kernel"]) = 3 /\ m["kernel"][3].val = p /\ m["kernel"][2].val = x
      /\ m["kernel"][1].ret = IF c.pc = "boot" THEN "main" ELSE "leave"
  BY <1>0, <1>1, ForkStack
<1> HIDE DEF base, from, m
<1>9. /\ memory' \in [Pid -> PageBlock] /\ memory'[p] = m /\ memory'[x] = m
      /\ \A q \in Pid \ {p, x} : memory'[q] = memory[q]
      /\ saved_sp' = saved_sp /\ state' = state /\ current_proc' = p /\ cbr' = p /\ iff' = TRUE
      /\ process_ready_list' = process_ready_list /\ panicked' = panicked
  BY <1>2, <1>3, <1>5, <1>7, <1>8 DEF schedVars
<1>10. SchedTypeOK' /\ SchedInv'
  BY <1>2, <1>3, <1>9 DEF SchedTypeOK, SchedInv
<1>11. PICK d : d = [pc |-> "copied", a |-> c.a, sp |-> <<"kernel", 3>>, cbar |-> "KERNEL", m |-> m]
  OBVIOUS
<1>12. c.cbar = "KERNEL" /\ c.pc \in {"kernel", "boot"}
  BY <1>0, <1>1 DEF MapAt, InKernel
<1>13. InPlace(p, d)
  <2>1. d \in CpuState
    BY <1>1, <1>8, <1>11 DEF CpuState, Label, InKernel, SP, Area
  <2>2. d.sp[2] <= Len(d.m[d.sp[1]])
    BY <1>8, <1>11
  <2>3. c.pc = "kernel" => InCall(m) /\ p # IDLE
    BY <1>1, <1>8 DEF InPlace, InCall
  <2>4. c.pc = "boot" => p = IDLE
    BY <1>1 DEF InPlace
  <2>5. InFork(p, c.a, m)
    BY <1>8, <1>12, <2>3, <2>4 DEF InFork
  <2> QED BY <1>8, <1>11, <2>1, <2>2, <2>5 DEF InPlace, StackAt, MapAt, InKernel, IntOff
<1>14. SeenAt(p, d) = SeenAt(p, c)
  <2>1. SeenAt(p, d) = IF p = IDLE THEN Machine("boot", 0, <<>>)
                       ELSE Machine("call", 0, Live(m, <<"user", 2>>))
    BY <1>8, <1>11, <1>13, SeenAtPlace
  <2>2. Live(m, <<"user", 2>>) = Live(c.m, <<"user", 2>>)
    BY <1>8 DEF Live
  <2>3. IF c.pc = "boot" THEN p = IDLE ELSE p # IDLE
    BY <1>1, <1>12 DEF InPlace
  <2> QED BY <1>1, <1>12, <2>1, <2>2, <2>3, SeenAtPlace
<1>15. ChildAt(d) = x /\ IsCopy(m, d)
  BY <1>8, <1>11 DEF ChildAt, IsCopy
<1>16. d = [pc |-> pc', a |-> a', sp |-> sp', cbar |-> cbar', m |-> memory'[p]]
  BY <1>1, <1>7, <1>8, <1>9, <1>11, <1>12
<1>17. PICK e : e = [pc |-> Top(memory'[x], saved_sp'[x]).ret, a |-> 0, sp |-> saved_sp'[x],
                     cbar |-> "KERNEL", m |-> memory'[x]]
  OBVIOUS
<1>18. state'[x] = "EMPTY" /\ ~Alive(x)' /\ \A q \in Pid \ {x} : state'[q] = state[q]
  BY <1>5, <1>9 DEF Alive
<1>19. /\ \A q \in Pid \ {p, x} : memory'[q] = memory[q] /\ saved_sp'[q] = saved_sp[q]
       /\ next_pid' \in 1 .. MaxPid + 1 /\ next_pid <= next_pid' /\ x < next_pid'
       /\ trap_bit' \in BOOLEAN /\ sources' \in BOOLEAN /\ saved_sp' \in [Pid -> SP]
       /\ IsParent(p, d) => ChildAt(d) = x /\ state'[x] = "EMPTY" /\ IsCopy(memory'[x], d)
  BY <1>2, <1>3, <1>5, <1>7, <1>9, <1>15, <1>18
<1>20. /\ CtxInv' /\ MachineOf(p) = SeenAt(p, Place(p)) /\ MachineOf(p)' = SeenAt(p, d)
       /\ MachineOf(x) = Machine("none", 0, <<>>) /\ MachineOf(x)' = Machine("none", 0, <<>>)
       /\ \A q \in Pid \ {p, x} : MachineOf(q)' = MachineOf(q)
  BY <1>2, <1>5, <1>6, <1>9, <1>10, <1>13, <1>16, <1>17, <1>18, <1>19, ChildStep
<1>21. \A q \in Pid : MachineOf(q)' = MachineOf(q)
  BY <1>2, <1>14, <1>20
<1> QED BY <1>20, <1>21, Unseen DEF Good

\* The kernel's stack of a process in sys_fork.
LEMMA ForkFrames ==
    ASSUME NEW p \in Pid, NEW c, InPlace(p, c), c.pc \in {"copied", "forked"}
    PROVE  /\ c.m \in PageBlock /\ c.sp = <<"kernel", 3>> /\ c.sp \in SP /\ c.cbar = "KERNEL"
           /\ c.a \in Value /\ 3 <= Len(c.m["kernel"]) /\ Len(c.m["kernel"]) \in Nat
           /\ Up(Up(c.sp)) = <<"kernel", 1>> /\ <<"kernel", 1>> \in SP
           /\ Top(c.m, c.sp) = c.m.kernel[3] /\ Top(c.m, Up(c.sp)) = c.m.kernel[2]
           /\ Top(c.m, Up(Up(c.sp))) = c.m.kernel[1]
           /\ ChildAt(c) \in Pid /\ ChildAt(c) = c.m.kernel[2].val
           /\ InFork(p, c.a, c.m)
<1>1. /\ c.m \in PageBlock /\ c.sp = <<"kernel", 3>> /\ c.sp \in SP /\ c.cbar = "KERNEL"
      /\ c.sp[2] <= Len(c.m[c.sp[1]]) /\ c.a \in Value /\ InFork(p, c.a, c.m)
  BY DEF InPlace, CpuState, StackAt, MapAt, InKernel
<1>2. /\ Up(c.sp) = <<"kernel", 2>> /\ Up(Up(c.sp)) = <<"kernel", 1>>
      /\ <<"kernel", 1>> \in SP /\ <<"kernel", 2>> \in SP /\ <<"kernel", 3>> \in SP
  BY <1>1 DEF Up, SP, Area
<1>3. 3 <= Len(c.m["kernel"]) /\ Len(c.m["kernel"]) \in Nat
  BY <1>1, BlockFields DEF Area
<1>4. ASSUME NEW k \in 1 .. 3, <<"kernel", k>> \in SP
      PROVE  Top(c.m, <<"kernel", k>>) = c.m["kernel"][k]
  <2>1. k \in 1 .. Len(c.m["kernel"])
    BY <1>3
  <2> QED BY <1>1, <1>4, <2>1, TopFrame
<1>5. ChildAt(c) \in Pid /\ ChildAt(c) = c.m.kernel[2].val
  BY <1>1 DEF InFork, ChildAt
<1> QED BY <1>1, <1>2, <1>3, <1>4, <1>5

LEMMA HelperStep == CtxInv /\ sys_fork_helper => Good
<1> SUFFICES ASSUME CtxInv, sys_fork_helper PROVE Good
  OBVIOUS
<1>0. ~panicked /\ pc = "copied" /\ pc \notin IntOff
  BY DEF sys_fork_helper, At, IntOff
<1>1. PICK p \in Pid, c \in CpuState :
         /\ IsNow(p, c) /\ InPlace(p, c) /\ Here = c.m /\ c.pc = "copied" /\ c.a = a
         /\ c.sp = sp /\ c.cbar = cbar
  BY <1>0, HereInPlace
<1>2. /\ p = current_proc /\ cbr = p /\ Place(p) = c /\ state[p] = "RUNNING" /\ iff = TRUE
      /\ trap_bit \in BOOLEAN /\ sources \in BOOLEAN /\ Alive(p) /\ c.m = memory[p]
  BY <1>0, <1>1, NowIs DEF IsNow
<1>3. /\ SchedTypeOK /\ SchedInv /\ memory \in [Pid -> PageBlock] /\ saved_sp \in [Pid -> SP]
      /\ next_pid \in 1 .. MaxPid + 1
  BY DEF CtxInv, TypeInv, TypeOK
<1>4. /\ c.m \in PageBlock /\ c.sp = <<"kernel", 3>> /\ c.sp \in SP /\ c.cbar = "KERNEL"
      /\ Top(c.m, Up(c.sp)) = c.m.kernel[2] /\ ChildAt(c) \in Pid
      /\ ChildAt(c) = c.m.kernel[2].val /\ InFork(p, c.a, c.m)
  BY <1>1, ForkFrames
<1>5. PICK x \in Pid : x = ChildAt(c)
  BY <1>4
<1>6. child_pid = x /\ Forks(p) /\ c.m.kernel[3].val = p
  BY <1>1, <1>2, <1>4, <1>5 DEF child_pid, Forks, IsParent, InPlace
<1>7. /\ x # p /\ x < next_pid /\ state[x] = "EMPTY" /\ IsCopy(memory[x], c)
      /\ \A q \in Pid \ {p} : Forks(q) => ChildAt(Place(q)) # x
  BY <1>2, <1>5, <1>6 DEF CtxInv, ForkInv
<1> DEFINE f == Of("reentry", 0)
           m == memory[x]
           n == Push(m, c.sp, f)
<1>8. f \in Frame /\ f.ret = "reentry"
  BY ValueType, FrameFields DEF Name, Label, IntOff
<1>9. /\ memory' = [memory EXCEPT ![x] = n] /\ pc' = "forked"
      /\ UNCHANGED <<schedVars, a, sp, cbar, cbr, iff, saved_sp, next_pid, trap_bit, sources>>
  BY <1>1, <1>6 DEF sys_fork_helper, Goto, kernelVars, trapVars
<1> HIDE DEF f
<1>10. /\ n \in PageBlock /\ n.syscall_sp = m.syscall_sp /\ n["user"] = m["user"]
       /\ Len(n["kernel"]) = 4 /\ n["kernel"][4] = f
       /\ \A i \in 1 .. 3 : n["kernel"][i] = m["kernel"][i]
  <2>1. m \in PageBlock /\ c.sp[2] <= Len(m[c.sp[1]])
    BY <1>3, <1>4, <1>7 DEF IsCopy
  <2>2. /\ n \in PageBlock /\ n.syscall_sp = m.syscall_sp
        /\ \A y \in Area \ {c.sp[1]} : n[y] = m[y]
        /\ Len(n[c.sp[1]]) = c.sp[2] + 1 /\ n[c.sp[1]][c.sp[2] + 1] = f
        /\ \A i \in 1 .. c.sp[2] : n[c.sp[1]][i] = m[c.sp[1]][i]
    BY <1>4, <1>8, <2>1, PushEffect
  <2>3. c.sp[2] + 1 = 4 /\ c.sp[1] = "kernel" /\ c.sp[2] = 3
    BY <1>4
  <2> HIDE DEF n, m
  <2>4. Len(n[c.sp[1]]) = 4 /\ n[c.sp[1]][4] = f /\ \A i \in 1 .. 3 : n[c.sp[1]][i] = m[c.sp[1]][i]
    BY <2>2, <2>3
  <2>5. n["user"] = m["user"]
    BY <2>2, <2>3 DEF Area
  <2> QED BY <2>2, <2>3, <2>4, <2>5
<1> HIDE DEF n
<1>11. /\ memory' \in [Pid -> PageBlock] /\ memory'[p] = c.m /\ memory'[x] = n
       /\ \A q \in Pid \ {p, x} : memory'[q] = memory[q]
       /\ saved_sp' = saved_sp /\ state' = state /\ current_proc' = p /\ cbr' = p /\ iff' = TRUE
       /\ process_ready_list' = process_ready_list /\ panicked' = panicked
  BY <1>2, <1>3, <1>7, <1>9, <1>10 DEF schedVars
<1>12. SchedTypeOK' /\ SchedInv'
  BY <1>2, <1>3, <1>11 DEF SchedTypeOK, SchedInv
<1>13. PICK d : d = [pc |-> "forked", a |-> c.a, sp |-> c.sp, cbar |-> "KERNEL", m |-> c.m]
  OBVIOUS
<1>14. InPlace(p, d)
  <2>1. d \in CpuState
    BY <1>4, <1>13 DEF CpuState, Label, InKernel
  <2> QED BY <1>1, <1>4, <1>13, <2>1 DEF InPlace, StackAt, MapAt, InKernel, IntOff
<1>15. SeenAt(p, d) = SeenAt(p, c)
  BY <1>1, <1>6, <1>13, <1>14, SeenAtPlace
<1>16. ChildAt(d) = x /\ IsCopy(n, d)
  <2>1. ChildAt(d) = x
    BY <1>5, <1>13 DEF ChildAt
  <2>2. 3 <= Len(n["kernel"]) /\ 4 <= Len(n["kernel"])
    BY <1>10
  <2>3. \A i \in 1 .. 3 : n["kernel"][i] = c.m["kernel"][i]
    BY <1>7, <1>10 DEF IsCopy
  <2>4. n["user"] = c.m["user"] /\ n.syscall_sp = c.m.syscall_sp
    BY <1>7, <1>10 DEF IsCopy
  <2>5. d.m = c.m
    BY <1>13
  <2> QED BY <1>8, <1>10, <2>1, <2>2, <2>3, <2>4, <2>5 DEF IsCopy
<1>17. d = [pc |-> pc', a |-> a', sp |-> sp', cbar |-> cbar', m |-> memory'[p]]
  BY <1>1, <1>4, <1>9, <1>11, <1>13
<1>18. PICK e : e = [pc |-> Top(memory'[x], saved_sp'[x]).ret, a |-> 0, sp |-> saved_sp'[x],
                     cbar |-> "KERNEL", m |-> memory'[x]]
  OBVIOUS
<1>19. state'[x] = "EMPTY" /\ ~Alive(x)' /\ \A q \in Pid \ {x} : state'[q] = state[q]
  BY <1>7, <1>11 DEF Alive
<1>20. /\ \A q \in Pid \ {p, x} : memory'[q] = memory[q] /\ saved_sp'[q] = saved_sp[q]
       /\ next_pid' \in 1 .. MaxPid + 1 /\ next_pid <= next_pid' /\ x < next_pid'
       /\ trap_bit' \in BOOLEAN /\ sources' \in BOOLEAN /\ saved_sp' \in [Pid -> SP]
       /\ IsParent(p, d) => ChildAt(d) = x /\ state'[x] = "EMPTY" /\ IsCopy(memory'[x], d)
  BY <1>2, <1>3, <1>7, <1>9, <1>11, <1>16, <1>19
<1>21. /\ CtxInv' /\ MachineOf(p) = SeenAt(p, Place(p)) /\ MachineOf(p)' = SeenAt(p, d)
       /\ MachineOf(x) = Machine("none", 0, <<>>) /\ MachineOf(x)' = Machine("none", 0, <<>>)
       /\ \A q \in Pid \ {p, x} : MachineOf(q)' = MachineOf(q)
  BY <1>2, <1>7, <1>11, <1>12, <1>14, <1>17, <1>18, <1>19, <1>20, ChildStep
<1>22. \A q \in Pid : MachineOf(q)' = MachineOf(q)
  BY <1>2, <1>15, <1>21
<1> QED BY <1>21, <1>22, Unseen DEF Good

\* Back from sys_fork, with its result.
LEMMA ForkReturn ==
    ASSUME NEW p \in Pid, NEW c, InPlace(p, c), c.pc = "forked", NEW word \in Value,
           NEW d, d = [pc |-> c.m.kernel[1].ret, a |-> word, sp |-> <<"kernel", 0>>,
                       cbar |-> "KERNEL", m |-> Pop(c.m, <<"kernel", 1>>)]
    PROVE  /\ InPlace(p, d) /\ ~IsParent(p, d) /\ d.m \in PageBlock
           /\ SeenAt(p, d) = IF c.m.kernel[3].val = IDLE
                             THEN Machine(IF p = IDLE THEN "main" ELSE "init", 0, <<>>)
                             ELSE Machine("user", word, Live(c.m, <<"user", 1>>))
<1> DEFINE n == Pop(c.m, <<"kernel", 1>>)
<1>1. /\ c.m \in PageBlock /\ 3 <= Len(c.m["kernel"]) /\ Len(c.m["kernel"]) \in Nat
      /\ <<"kernel", 1>> \in SP /\ InFork(p, c.a, c.m)
  BY ForkFrames
<1>2. n \in PageBlock /\ n.syscall_sp = c.m.syscall_sp /\ n["user"] = c.m["user"]
  <2> DEFINE s == <<"kernel", 1>>
  <2>1. s[1] = "kernel" /\ s[2] \in 1 .. Len(c.m[s[1]]) /\ s \in SP
    BY <1>1
  <2> HIDE DEF s
  <2>2. /\ Pop(c.m, s) \in PageBlock /\ Pop(c.m, s).syscall_sp = c.m.syscall_sp
        /\ \A y \in Area \ {s[1]} : Pop(c.m, s)[y] = c.m[y]
    BY <1>1, <2>1, PopEffect
  <2>3. Pop(c.m, s)["user"] = c.m["user"]
    BY <2>1, <2>2 DEF Area
  <2> QED BY <2>2, <2>3 DEF s
<1> HIDE DEF n
<1>3. /\ d.pc = c.m.kernel[1].ret /\ d.pc \in {"leave", "main"} /\ d.a = word
      /\ d.sp = <<"kernel", 0>> /\ d.cbar = "KERNEL" /\ d.m = n
      /\ d = [pc |-> d.pc, a |-> word, sp |-> <<"kernel", 0>>, cbar |-> "KERNEL", m |-> n]
  BY <1>1 DEF InFork, n
<1>4. /\ d.pc = "main" <=> c.m.kernel[3].val = IDLE
      /\ d.pc = "leave" => InCall(n) /\ p # IDLE
  BY <1>1, <1>2, <1>3 DEF InFork, InCall
<1>5. d \in CpuState
  BY <1>2, <1>3 DEF CpuState, Label, InKernel, SP, Area
<1>6. d.sp[2] <= Len(d.m[d.sp[1]])
  BY <1>2, <1>3, BlockFields DEF Area
<1>7. InPlace(p, d)
  BY <1>3, <1>4, <1>5, <1>6 DEF InPlace, StackAt, MapAt, InKernel, IntOff
<1>8. Live(n, <<"user", 1>>) = Live(c.m, <<"user", 1>>)
  BY <1>2 DEF Live
<1>9. SeenAt(p, d) = IF c.m.kernel[3].val = IDLE
                     THEN Machine(IF p = IDLE THEN "main" ELSE "init", 0, <<>>)
                     ELSE Machine("user", word, Live(c.m, <<"user", 1>>))
  BY <1>3, <1>4, <1>7, <1>8, SeenAtPlace
<1> QED BY <1>2, <1>3, <1>7, <1>9 DEF IsParent

LEMMA ChildReturnStep == CtxInv /\ fork_result /\ current_proc # Top(Here, sp).val => Good
<1> SUFFICES ASSUME CtxInv, fork_result, current_proc # Top(Here, sp).val PROVE Good
  OBVIOUS
<1>0. ~panicked /\ pc = "forked" /\ pc \notin IntOff
  BY DEF fork_result, At, IntOff
<1>1. PICK p \in Pid, c \in CpuState :
         /\ IsNow(p, c) /\ InPlace(p, c) /\ Here = c.m /\ c.pc = "forked" /\ c.a = a
         /\ c.sp = sp /\ c.cbar = cbar
  BY <1>0, HereInPlace
<1>2. /\ p = current_proc /\ cbr = p /\ Place(p) = c /\ state[p] = "RUNNING" /\ iff = TRUE
      /\ trap_bit \in BOOLEAN /\ sources \in BOOLEAN
  BY <1>0, <1>1, NowIs
<1>3. /\ SchedTypeOK /\ SchedInv /\ saved_sp \in [Pid -> SP] /\ state[IDLE] \in Awake
  BY DEF CtxInv, TypeInv, TypeOK, CpuInv
<1>4. /\ c.cbar = "KERNEL" /\ Up(Up(c.sp)) = <<"kernel", 1>>
      /\ Top(c.m, c.sp) = c.m.kernel[3] /\ Top(c.m, Up(c.sp)) = c.m.kernel[2]
      /\ Top(c.m, <<"kernel", 1>>) = c.m.kernel[1] /\ InFork(p, c.a, c.m)
  <2>1. /\ c.cbar = "KERNEL" /\ Up(Up(c.sp)) = <<"kernel", 1>>
        /\ Top(c.m, c.sp) = c.m.kernel[3] /\ Top(c.m, Up(c.sp)) = c.m.kernel[2]
        /\ Top(c.m, Up(Up(c.sp))) = c.m.kernel[1] /\ InFork(p, c.a, c.m)
    BY <1>1, ForkFrames
  <2> QED BY <2>1
<1>5. c.m.kernel[3].val # p /\ c.m.kernel[2].val = p /\ c.a = 0 /\ p # IDLE
  BY <1>1, <1>2, <1>4 DEF InFork
<1> DEFINE n == Pop(c.m, <<"kernel", 1>>)
<1>6. /\ saved_sp' = [saved_sp EXCEPT ![p] = Reset] /\ a' = 0
      /\ UNCHANGED <<schedVars, cbar, cbr, iff, next_pid, trap_bit, sources>>
      /\ pc' = c.m.kernel[1].ret /\ sp' = <<"kernel", 0>> /\ memory' = [memory EXCEPT ![cbr] = n]
  <2>1. child_pid = p /\ Top(Here, sp).val # current_proc
    BY <1>1, <1>4, <1>5 DEF child_pid
  <2>2. Up(<<"kernel", 1>>) = <<"kernel", 0>>
    BY DEF Up
  <2>3. Ret(c.m, <<"kernel", 1>>)
    BY <1>1, <1>4 DEF fork_result
  <2> QED BY <1>4, <2>1, <2>2, <2>3 DEF fork_result, Ret, Goto, Store, kernelVars, trapVars
<1>7. PICK d : d = [pc |-> c.m.kernel[1].ret, a |-> 0, sp |-> <<"kernel", 0>>,
                    cbar |-> "KERNEL", m |-> n]
  OBVIOUS
<1>8. /\ InPlace(p, d) /\ ~IsParent(p, d) /\ d.m = n
      /\ SeenAt(p, d) = IF c.m.kernel[3].val = IDLE
                        THEN Machine(IF p = IDLE THEN "main" ELSE "init", 0, <<>>)
                        ELSE Machine("user", 0, Live(c.m, <<"user", 1>>))
  BY <1>1, <1>7, ValueType, ForkReturn
<1> HIDE DEF n
<1>9. SeenAt(p, d) = SeenAt(p, c)
  BY <1>1, <1>5, <1>8, SeenAtPlace
<1>10. /\ d \in CpuState /\ d.pc \notin IntOff /\ Settled(d) = d /\ HeldUp(d)
  <2>1. d \in CpuState /\ d.pc \notin IntOff
    BY <1>8 DEF InPlace
  <2> QED BY <2>1, SettledIs DEF HeldUp, IntOff
<1>11. /\ saved_sp' \in [Pid -> SP] /\ \A q \in Pid \ {p} : saved_sp'[q] = saved_sp[q]
       /\ state' = state /\ current_proc' = p /\ iff' = TRUE
       /\ process_ready_list' = process_ready_list /\ panicked' = panicked
  <2>1. Reset \in SP
    BY DEF Reset, SP, Area
  <2> QED BY <1>2, <1>3, <1>6, <2>1 DEF schedVars
<1>12. SchedTypeOK' /\ SchedInv'
  BY <1>2, <1>3, <1>11 DEF SchedTypeOK, SchedInv
<1>13. d = [pc |-> pc', a |-> a', sp |-> sp', cbar |-> cbar', m |-> d.m]
  BY <1>1, <1>4, <1>6, <1>7, <1>8
<1> QED BY <1>2, <1>3, <1>6, <1>8, <1>9, <1>10, <1>11, <1>12, <1>13, StayStep DEF Good, Follows

\* The machine that forks, and the one that it makes.
LEMMA TwoMachines ==
    ASSUME NEW p \in Pid, NEW x \in Pid, x # p,
           \A q \in Pid \ {p, x} : MachineOf(q)' = MachineOf(q),
           MachineOf(x) = Own!None,
           \/ /\ MachineOf(p).at = "call"
              /\ MachineOf(p)' = Own!Back(MachineOf(p), x)
              /\ MachineOf(x)' = Own!Back(MachineOf(p), 0)
           \/ /\ MachineOf(p).at = "boot"
              /\ MachineOf(p)' = Own!At("main") /\ MachineOf(x)' = Own!At("init")
    PROVE  Own!Next
<1>1. /\ Machines[p] = MachineOf(p) /\ Machines[x] = MachineOf(x)
      /\ Machines' = [q \in Pid |-> MachineOf(q)']
  BY DEF Machines
<1>2. Machines' = [Machines EXCEPT ![p] = MachineOf(p)', ![x] = MachineOf(x)']
  BY <1>1 DEF Machines
<1>3. Own!Fork(p, x) \/ Own!Boot(p, x)
  BY <1>1, <1>2 DEF Own!Fork, Own!Boot, Machines
<1> QED BY <1>3 DEF Own!Next

LEMMA ParentReturnStep == CtxInv /\ fork_result /\ current_proc = Top(Here, sp).val => Good
<1> SUFFICES ASSUME CtxInv, fork_result, current_proc = Top(Here, sp).val PROVE Good
  OBVIOUS
<1>0. ~panicked /\ pc = "forked" /\ pc \notin IntOff
  BY DEF fork_result, At, IntOff
<1>1. PICK p \in Pid, c \in CpuState :
         /\ IsNow(p, c) /\ InPlace(p, c) /\ Here = c.m /\ c.pc = "forked" /\ c.a = a
         /\ c.sp = sp /\ c.cbar = cbar
  BY <1>0, HereInPlace
<1>2. /\ p = current_proc /\ cbr = p /\ Place(p) = c /\ state[p] = "RUNNING" /\ iff = TRUE
      /\ trap_bit \in BOOLEAN /\ sources \in BOOLEAN /\ Alive(p)
  BY <1>0, <1>1, NowIs
<1>3. /\ SchedTypeOK /\ SchedInv /\ memory \in [Pid -> PageBlock] /\ saved_sp \in [Pid -> SP]
      /\ next_pid \in 1 .. MaxPid + 1 /\ state \in [Pid -> ProcState] /\ state[IDLE] \in Awake
  BY DEF CtxInv, TypeInv, TypeOK, SchedTypeOK, CpuInv
<1>4. /\ c.m \in PageBlock /\ c.cbar = "KERNEL" /\ c.sp = <<"kernel", 3>>
      /\ Up(Up(c.sp)) = <<"kernel", 1>> /\ ChildAt(c) \in Pid
      /\ Top(c.m, c.sp) = c.m.kernel[3] /\ Top(c.m, Up(c.sp)) = c.m.kernel[2]
      /\ ChildAt(c) = c.m.kernel[2].val /\ InFork(p, c.a, c.m) /\ 3 <= Len(c.m["kernel"])
      /\ Top(c.m, <<"kernel", 1>>) = c.m.kernel[1]
  <2>1. Top(c.m, Up(Up(c.sp))) = c.m.kernel[1] /\ Up(Up(c.sp)) = <<"kernel", 1>>
    BY <1>1, ForkFrames
  <2> QED BY <1>1, <2>1, ForkFrames
<1>5. PICK x \in Pid : x = ChildAt(c)
  BY <1>4
<1>6. child_pid = x /\ Forks(p) /\ c.m.kernel[3].val = p
  BY <1>1, <1>2, <1>4, <1>5 DEF child_pid, Forks, IsParent
<1>7. /\ x # p /\ x < next_pid /\ state[x] = "EMPTY" /\ IsCopy(memory[x], c)
      /\ \A q \in Pid \ {p} : Forks(q) => ChildAt(Place(q)) # x
  BY <1>2, <1>5, <1>6 DEF CtxInv, ForkInv
<1>8. x # IDLE /\ state[x] \notin Awake
  BY <1>3, <1>7 DEF Awake
<1> DEFINE n == Pop(c.m, <<"kernel", 1>>)
           m == memory[x]
<1>9. /\ saved_sp' = [saved_sp EXCEPT ![x] = <<"kernel", 4>>] /\ a' = x /\ process_ready(x)
      /\ UNCHANGED <<cbar, cbr, iff, next_pid, trap_bit, sources>>
      /\ pc' = c.m.kernel[1].ret /\ sp' = <<"kernel", 0>> /\ memory' = [memory EXCEPT ![p] = n]
  <2>1. Up(<<"kernel", 1>>) = <<"kernel", 0>> /\ Down(c.sp) = <<"kernel", 4>>
    BY <1>4 DEF Up, Down
  <2>2. Ret(c.m, <<"kernel", 1>>)
    BY <1>1, <1>4 DEF fork_result
  <2> QED BY <1>1, <1>2, <1>4, <1>6, <2>1, <2>2
          DEF fork_result, Ret, Goto, Store, kernelVars, trapVars
<1>10. SchedTypeOK' /\ SchedInv' /\ current_proc' = p /\ state' = [state EXCEPT ![x] = "READY"]
  BY <1>2, <1>3, <1>8, <1>9, ReadyEffect
<1>11. PICK d : d = [pc |-> c.m.kernel[1].ret, a |-> x, sp |-> <<"kernel", 0>>,
                     cbar |-> "KERNEL", m |-> n]
  OBVIOUS
<1>12. /\ InPlace(p, d) /\ ~IsParent(p, d) /\ d.m = n /\ n \in PageBlock
       /\ SeenAt(p, d) = IF p = IDLE THEN Machine("main", 0, <<>>)
                         ELSE Machine("user", x, Live(c.m, <<"user", 1>>))
  <2>1. x \in Value
    BY ValueType
  <2>2. /\ InPlace(p, d) /\ ~IsParent(p, d) /\ d.m \in PageBlock
        /\ SeenAt(p, d) = IF c.m.kernel[3].val = IDLE
                          THEN Machine(IF p = IDLE THEN "main" ELSE "init", 0, <<>>)
                          ELSE Machine("user", x, Live(c.m, <<"user", 1>>))
    BY <1>1, <1>11, <2>1, ForkReturn
  <2> QED BY <1>6, <1>11, <2>2
<1> HIDE DEF n
<1>13. /\ memory' \in [Pid -> PageBlock] /\ memory'[p] = n /\ memory'[x] = m
       /\ m \in PageBlock /\ saved_sp' \in [Pid -> SP] /\ saved_sp'[x] = <<"kernel", 4>>
       /\ <<"kernel", 4>> \in SP
       /\ \A q \in Pid \ {p, x} : memory'[q] = memory[q] /\ saved_sp'[q] = saved_sp[q]
  <2>1. <<"kernel", 4>> \in SP
    BY DEF SP, Area
  <2> QED BY <1>3, <1>7, <1>9, <1>12, <2>1
<1>14. /\ state'[x] = "READY" /\ Alive(x)' /\ \A q \in Pid \ {x} : state'[q] = state[q]
  BY <1>3, <1>10 DEF Alive
<1>15. /\ 4 <= Len(m["kernel"]) /\ m["kernel"][4].ret = "reentry" /\ m["user"] = c.m["user"]
       /\ m.syscall_sp = c.m.syscall_sp /\ m["kernel"][1] = c.m["kernel"][1]
       /\ m["kernel"][2] = c.m["kernel"][2] /\ m["kernel"][3] = c.m["kernel"][3]
       /\ Len(m["kernel"]) \in Nat
  BY <1>1, <1>7, <1>13, BlockFields DEF IsCopy, Area
<1> HIDE DEF m
<1>16. Top(m, <<"kernel", 4>>).ret = "reentry"
  <2>1. 4 \in 1 .. Len(m["kernel"])
    BY <1>15
  <2> QED BY <1>13, <1>15, <2>1, TopFrame
<1>17. PICK e : e = [pc |-> "reentry", a |-> 0, sp |-> <<"kernel", 4>>, cbar |-> "KERNEL", m |-> m]
  OBVIOUS
<1>18. e \in CpuState
  BY <1>13, <1>17, ValueType DEF CpuState, Label, IntOff
<1>19. e.pc \in IntOff /\ HeldUp(e)
  BY <1>15, <1>17, <1>18 DEF HeldUp, IntOff
<1>20. PICK g : g = Settled(e) /\ g = [pc |-> "forked", a |-> 0, sp |-> <<"kernel", 3>>,
                                       cbar |-> "KERNEL", m |-> m]
  <2>1. Up(<<"kernel", 4>>) = <<"kernel", 3>>
    BY DEF Up
  <2> QED BY <1>17, <1>18, <2>1, SettledIs
<1>21. InPlace(x, g) /\ ~IsParent(x, g)
  <2>1. g \in CpuState
    BY <1>13, <1>20, ValueType DEF CpuState, Label, InKernel, SP, Area
  <2>2. g.sp[2] <= Len(g.m[g.sp[1]])
    BY <1>15, <1>20
  <2>3. InFork(x, 0, m)
    BY <1>4, <1>5, <1>6, <1>8, <1>15 DEF InFork, InCall
  <2>4. InPlace(x, g)
    BY <1>8, <1>20, <2>1, <2>2, <2>3 DEF InPlace, StackAt, MapAt, InKernel, IntOff
  <2> QED BY <1>6, <1>7, <1>15, <1>20, <2>4 DEF IsParent
<1>22. SeenAt(x, g) = IF p = IDLE THEN Machine("init", 0, <<>>)
                      ELSE Machine("user", 0, Live(c.m, <<"user", 1>>))
  <2>1. Live(m, <<"user", 1>>) = Live(c.m, <<"user", 1>>)
    BY <1>15 DEF Live
  <2>2. g.pc = "forked" /\ g.m.kernel[3].val = p /\ g.a = 0 /\ g.m = m
    BY <1>6, <1>15, <1>20
  <2> QED BY <1>7, <1>21, <2>1, <2>2, SeenAtPlace
<1>23. d = [pc |-> pc', a |-> a', sp |-> sp', cbar |-> cbar', m |-> memory'[p]]
  BY <1>1, <1>4, <1>9, <1>11, <1>13
<1>24. e = [pc |-> Top(memory'[x], saved_sp'[x]).ret, a |-> 0, sp |-> saved_sp'[x],
            cbar |-> "KERNEL", m |-> memory'[x]]
  BY <1>13, <1>16, <1>17
<1>25. /\ next_pid' \in 1 .. MaxPid + 1 /\ next_pid <= next_pid' /\ x < next_pid'
       /\ trap_bit' \in BOOLEAN /\ sources' \in BOOLEAN /\ iff' = TRUE /\ cbr' = p
  BY <1>2, <1>3, <1>7, <1>9
<1>26. InPlace(x, Settled(e)) /\ ~IsParent(x, Settled(e))
  BY <1>20, <1>21
<1>27. /\ CtxInv' /\ MachineOf(p) = SeenAt(p, Place(p)) /\ MachineOf(p)' = SeenAt(p, d)
       /\ MachineOf(x) = Machine("none", 0, <<>>) /\ MachineOf(x)' = SeenAt(x, Settled(e))
       /\ \A q \in Pid \ {p, x} : MachineOf(q)' = MachineOf(q)
  BY <1>2, <1>7, <1>10, <1>12, <1>13, <1>14, <1>19, <1>23, <1>24, <1>25, <1>26, ChildStep
<1>28. MachineOf(x) = Own!None /\ MachineOf(x)' = SeenAt(x, g) /\ MachineOf(p) = SeenAt(p, c)
  BY <1>2, <1>20, <1>27 DEF Machine, Own!None, Own!Machine
<1>29. \/ /\ MachineOf(p).at = "call"
          /\ MachineOf(p)' = Own!Back(MachineOf(p), x)
          /\ MachineOf(x)' = Own!Back(MachineOf(p), 0)
       \/ /\ MachineOf(p).at = "boot"
          /\ MachineOf(p)' = Own!At("main") /\ MachineOf(x)' = Own!At("init")
  <2>1. CASE p = IDLE
    <3>1. MachineOf(p) = Machine("boot", 0, <<>>)
      BY <1>1, <1>6, <1>28, <2>1, SeenAtPlace
    <3> QED BY <1>12, <1>22, <1>27, <1>28, <2>1, <3>1 DEF Machine, Own!At, Own!Machine
  <2>2. CASE p # IDLE
    <3>1. MachineOf(p) = Machine("call", 0, Live(c.m, <<"user", 2>>))
      BY <1>1, <1>6, <1>28, <2>2, SeenAtPlace
    <3>2. InCall(c.m)
      BY <1>4, <1>6, <2>2 DEF InFork
    <3>3. /\ Own!Back(MachineOf(p), x) = Machine("user", x, Live(c.m, <<"user", 1>>))
          /\ Own!Back(MachineOf(p), 0) = Machine("user", 0, Live(c.m, <<"user", 1>>))
      BY <1>4, <3>1, <3>2, CallFrame
    <3>4. MachineOf(p).at = "call"
      BY <3>1 DEF Machine
    <3> QED BY <1>12, <1>22, <1>27, <1>28, <2>2, <3>3, <3>4
  <2> QED BY <2>1, <2>2
<1>30. Own!Next
  BY <1>7, <1>27, <1>28, <1>29, TwoMachines
<1> QED BY <1>27, <1>30 DEF Good

-----------------------------------------------------------------------------
(* The theorems.                                                             *)

LEMMA NextStep == CtxInv /\ [Next]_vars => Good
<1> SUFFICES ASSUME CtxInv, [Next]_vars PROVE Good
  OBVIOUS
<1>1. CASE Next
  <2>1. fork_result => Good
    BY ChildReturnStep, ParentReturnStep
  <2> QED BY <1>1, <2>1, TickStep, DeviceStep, InterruptLeaveStep, ComputeStep, CallStep,
             SyscallSaveStep, SyscallStackStep, SyscallMapStep, ReturnStep, LeaveMapStep,
             LeaveStackStep, LeaveRetStep, BlockStep, ResumeStep, WakeStep, ForkStep,
             HelperStep, ReentryStep, ExecveStep, MainExecveStep, ExitStep, OpcodeStep,
             ResetStep, TrapEnterStep, TrapClearStep
          DEF Next
<1>2. CASE UNCHANGED vars
  <2>1. UNCHANGED <<schedVars, pc, a, sp, cbar, cbr, iff, memory, saved_sp, next_pid,
                    trap_bit, sources>>
    BY <1>2 DEF vars, cpuVars, kernelVars, trapVars
  <2>2. /\ current_proc' = current_proc /\ process_ready_list' = process_ready_list
        /\ state' = state /\ panicked' = panicked
    BY <2>1 DEF schedVars
  <2>3. TypeInv' /\ SchedInv'
    BY <2>1, <2>2 DEF CtxInv, TypeInv, TypeOK, SchedTypeOK, SchedInv
  <2>4. \A p \in Pid : Cpu(p)' = Cpu(p) /\ Place(p)' = Place(p) /\ (Alive(p)' <=> Alive(p))
    BY <2>1, <2>2 DEF Cpu, Here, Place, Alive
  <2>5. CpuInv' /\ PlacesInv'
    BY <2>1, <2>2, <2>4 DEF CtxInv, CpuInv, PlacesInv
  <2>6. \A p \in Pid : Forks(p)' <=> Forks(p)
    BY <2>4 DEF Forks
  <2>7. ForkInv'
    BY <2>1, <2>2, <2>4, <2>6 DEF CtxInv, ForkInv, ChildAt
  <2>8. \A p \in Pid : MachineOf(p)' = MachineOf(p)
    BY <2>2, <2>4 DEF MachineOf, Place
  <2> QED BY <2>3, <2>5, <2>7, <2>8, Unseen DEF Good, CtxInv
<1> QED BY <1>1, <1>2

\* The boot code of process IDLE runs, and nothing else is there.
LEMMA InitGood == Init => CtxInv /\ Own!Init
<1> SUFFICES ASSUME Init PROVE CtxInv /\ Own!Init
  OBVIOUS
<1>1. /\ current_proc = IDLE /\ process_ready_list = <<>> /\ panicked = FALSE
      /\ state = [p \in Pid |-> IF p = IDLE THEN "RUNNING" ELSE "EMPTY"]
      /\ pc = "boot" /\ a = 0 /\ sp = <<"kernel", 0>> /\ cbar = "KERNEL" /\ cbr = IDLE /\ iff = TRUE
      /\ memory = [p \in Pid |-> NoBlock] /\ saved_sp = [p \in Pid |-> Reset]
      /\ next_pid = 1 /\ trap_bit = FALSE /\ sources = TRUE /\ IDLE \in Pid
  BY ValueType DEF Init, SchedInit, Reset
<1>2. NoBlock \in PageBlock /\ Reset \in SP /\ Reset = <<"kernel", 0>>
  <2>1. Reset \in SP
    BY DEF Reset, SP, Area
  <2>2. <<>> \in Seq(Frame)
    BY EmptySeq
  <2> QED BY <2>1, <2>2 DEF NoBlock, PageBlock, Reset
<1>3. SchedTypeOK
  BY <1>1, EmptySeq DEF SchedTypeOK, ProcState
<1>4. SchedInv
  <2>1. ToSet(process_ready_list) = {} /\ IsInjective(process_ready_list)
    BY <1>1 DEF ToSet, IsInjective
  <2> QED BY <1>1, <2>1 DEF SchedInv
<1>5. TypeInv
  <2>1. \A p \in Pid :
           /\ \A s \in Area : memory[p][s] \in Seq(Frame)
           /\ memory[p].syscall_sp \in SP /\ memory[p].interrupt_sp \in SP
           /\ memory[p].interrupt_cbar \in {"USER", "KERNEL"}
    BY <1>1, <1>2, BlockFields DEF PageBlock
  <2>2. 1 \in 1 .. MaxPid + 1
    BY MaxPidAssumption
  <2> QED BY <1>1, <1>2, <1>3, <2>1, <2>2, ValueType
          DEF TypeInv, TypeOK, Label, InKernel
<1>6. PICK c : c = [pc |-> "boot", a |-> 0, sp |-> <<"kernel", 0>>, cbar |-> "KERNEL", m |-> NoBlock]
  OBVIOUS
<1>7. Cpu(IDLE) = c
  BY <1>1, <1>6 DEF Cpu, Here
<1>8. c \in CpuState
  BY <1>2, <1>6, ValueType DEF CpuState, Label, InKernel
<1>9. HeldUp(c) /\ Settled(c) = c
  BY <1>6, <1>8, SettledIs DEF HeldUp, IntOff
<1>10. InPlace(IDLE, c)
  <2>1. c.sp[2] <= Len(c.m[c.sp[1]])
    BY <1>2, <1>6, BlockFields DEF Area
  <2> QED BY <1>6, <1>8, <2>1 DEF InPlace, StackAt, MapAt, InKernel, IntOff
<1>11. Alive(IDLE) /\ \A p \in Pid \ {IDLE} : ~Alive(p)
  BY <1>1 DEF Alive
<1>12. PlacesInv
  BY <1>7, <1>9, <1>10, <1>11 DEF PlacesInv, Place
<1>13. CpuInv
  <2>1. 0 < 1 /\ IDLE = 0
    BY ValueType
  <2> QED BY <1>1, <1>11, <2>1 DEF CpuInv, IntOff, Awake
<1>14. ForkInv
  <2>1. \A p \in Pid : ~Forks(p)
    BY <1>6, <1>7, <1>9, <1>11 DEF Forks, IsParent, Place
  <2> QED BY <2>1 DEF ForkInv
<1>15. Own!Init
  <2>1. MachineOf(IDLE) = Machine("boot", 0, <<>>)
    BY <1>1, <1>6, <1>7, <1>9, <1>10, SeenAtPlace DEF MachineOf
  <2>2. \A p \in Pid \ {IDLE} : MachineOf(p) = Machine("none", 0, <<>>)
    BY <1>1 DEF MachineOf
  <2>3. \A p \in Pid : MachineOf(p) = IF p = IDLE THEN Own!At("boot") ELSE Own!None
    BY <2>1, <2>2 DEF Machine, Own!At, Own!None, Own!Machine
  <2> QED BY <2>3 DEF Own!Init
<1> QED BY <1>4, <1>5, <1>12, <1>13, <1>14, <1>15 DEF CtxInv

\* What is true of the CPU and of every process, at every instruction.
THEOREM Inductive == Spec => []CtxInv
<1>1. Init => CtxInv
  BY InitGood
<1>2. CtxInv /\ [Next]_vars => CtxInv'
  BY NextStep DEF Good
<1> QED BY <1>1, <1>2, PTL DEF Spec

(***************************************************************************)
(* FlagFollowsPlace: interrupts are disabled exactly where a process is    *)
(* held up, whichever process and whatever the way there; the top page is  *)
(* that of the current process; a program's stack is used under its map.   *)
(***************************************************************************)
THEOREM FlagIsRight == Spec => []FlagFollowsPlace
<1>1. CtxInv => FlagFollowsPlace
  <2> SUFFICES ASSUME CtxInv PROVE FlagFollowsPlace
    OBVIOUS
  <2>1. TypeOK /\ (iff <=> pc \notin IntOff) /\ cbr = current_proc
    BY DEF CtxInv, TypeInv, CpuInv
  <2>2. sp[1] = "user" => cbar = "USER"
    <3>1. PICK p \in Pid, c \in CpuState : IsNow(p, c)
      BY Now
    <3>2. /\ c.pc = pc /\ c.sp = sp /\ c.cbar = cbar /\ HeldUp(c)
          /\ pc \notin IntOff => InPlace(p, c)
      BY <3>1, NowIs
    <3>3. CASE pc \in IntOff
      BY <3>2, <3>3 DEF HeldUp, IntOff
    <3>4. CASE pc \notin IntOff
      BY <3>2, <3>4 DEF InPlace, CpuState, Label, InUser, InKernel, InStart, StackAt, MapAt
    <3> QED BY <3>3, <3>4
  <2> QED BY <2>1, <2>2 DEF FlagFollowsPlace
<1> QED BY <1>1, Inductive, PTL

(***************************************************************************)
(* OwnMachineSpec: a program never sees the interrupts, the switches and   *)
(* the steps of a system call.  Its machine changes by what it does and by *)
(* the results of its calls, and a fork makes one that differs from it in  *)
(* the result alone (interrupt.s, syscall.s, process.c).                   *)
(***************************************************************************)
THEOREM ImplementsOwn == Spec => OwnMachineSpec
<1>1. Init => Own!Init
  BY InitGood
<1>2. CtxInv /\ [Next]_vars => [Own!Next]_Machines
  BY NextStep DEF Good
<1> QED BY <1>1, <1>2, Inductive, PTL DEF Spec, OwnMachineSpec, Own!Spec, Machines
=============================================================================
