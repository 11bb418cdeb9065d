----------------------------- MODULE FlashProofs -----------------------------
(***************************************************************************)
(* Theorems about Flash, for any number of processes, any chip and any     *)
(* calls: commands reach the chip whole, a call that returns has done what *)
(* it was called for, and a reader gets the bytes of finished writes only. *)
(***************************************************************************)
EXTENDS Flash, SchedulerProofs

-----------------------------------------------------------------------------
(* The inductive invariant.  First what the scheduler and the two mutexes    *)
(* keep: a process sleeps on one list at most, and who is on it is asleep.   *)

SleepInv ==
    /\ state[IDLE] \in Awake
    /\ IsInjective(mtx.blocked_list) /\ IsInjective(dma_0_mtx.blocked_list)
    /\ ToSet(mtx.blocked_list) \cap ToSet(dma_0_mtx.blocked_list) = {}
    /\ \A p \in ToSet(mtx.blocked_list) \cup ToSet(dma_0_mtx.blocked_list) :
         state[p] = "BLOCKED"

LockInv ==
    /\ SchedTypeOK /\ SchedInv /\ SleepInv
    /\ mtx \in Mutex /\ dma_0_mtx \in Mutex
    /\ in_dma \in [Users -> BOOLEAN]

\* Then the calls.
Place == {"out", "lock", "unlock", "read", "send", "poll", "copy"}

What == {"read", "write", "erase sector", "erase chip", "nothing", "copy"}

CallTypeOK ==
    /\ calls \in 0 .. MaxCalls
    /\ req \in [Users -> [what : What, pos : Nat, count : Nat \ {0}]]
    /\ id \in [Users -> 0 .. MaxCalls]
    /\ pc \in [Users -> Place]
    /\ k \in [Users -> 0 .. 5]
    /\ bytes_written \in [Users -> 0 .. chip_size]
    /\ got \in [Users -> SUBSET CallId]
    /\ flash \in Contents /\ becomes \in Contents /\ busy \in BOOLEAN

\* p is past mutex_lock(&instance->mtx): nobody else is, and the mutex says so.
Inside(p) == pc[p] \in {"read", "send", "poll", "unlock"}

OwnerInv ==
    /\ \A p, q \in Users : Inside(p) /\ Inside(q) => p = q
    /\ mtx.locked <=> \E p \in Users : Inside(p)

\* A call is within the chip and where calls of its kind come.
RequestInv ==
    \A p \in Users :
        /\ req[p].what \in {"read", "write"} => req[p].pos + req[p].count <= chip_size
        /\ pc[p] = "lock" => req[p].what # "copy"
        /\ pc[p] = "read" => req[p].what = "read"
        /\ pc[p] \in {"send", "poll"} => req[p].what \in {"write", "erase sector", "erase chip"}

\* The numbers of the calls differ, and the number of a copy is nowhere.
IdInv ==
    /\ \A p \in Users : id[p] <= calls /\ (pc[p] # "out" => id[p] # 0)
    /\ \A p, q \in Users : id[p] = id[q] /\ id[p] # 0 => p = q
    /\ \A a \in Address : flash[a] \subseteq 1 .. calls /\ becomes[a] \subseteq 1 .. calls
    /\ \A q \in Users, a \in Address :
         pc[q] = "copy" => id[q] \notin flash[a] /\ id[q] \notin becomes[a]
    /\ \A p \in Users : got[p] \subseteq 1 .. calls /\ (got[p] # {} => pc[p] = "unlock")
    /\ \A p, q \in Users : pc[q] = "copy" => id[q] \notin got[p]

\* The chip is busy for the process that polls it and has seen what the one that
\* sends has sent.
ChipInv ==
    /\ busy => \E p \in Users : pc[p] = "poll"
    /\ seen # <<>> => \E p \in Users : pc[p] = "send" /\ k[p] > 0
    /\ \A p \in Users :
         /\ pc[p] = "send" => /\ k[p] < Len(Command(p))
                              /\ seen = SubSeq(Command(p), 1, k[p])
         /\ pc[p] = "poll" => k[p] = 0
         /\ pc[p] = "poll" /\ busy => becomes = Changed(p)

\* What a call has done so far.
Programmed(p, n) == \A a \in Address : req[p].pos <= a /\ a < req[p].pos + n => id[p] \in flash[a]
Erased(p)        == \A a \in Target(p) : flash[a] = {}

DoneInv ==
    \A p \in Users :
        /\ pc[p] \in {"send", "poll"} /\ req[p].what = "write" =>
             bytes_written[p] < req[p].count /\ Programmed(p, bytes_written[p])
        /\ pc[p] = "poll" /\ ~busy =>
             /\ req[p].what = "write" => Programmed(p, bytes_written[p] + 1)
             /\ req[p].what # "write" => Erased(p)
        /\ pc[p] = "unlock" =>
             /\ req[p].what = "write" => Programmed(p, req[p].count)
             /\ req[p].what \in {"erase sector", "erase chip"} => Erased(p)

CallInv == CallTypeOK /\ OwnerInv /\ RequestInv /\ IdInv /\ ChipInv /\ DoneInv

FlashInv == LockInv /\ CallInv

-----------------------------------------------------------------------------
(* The commands.                                                            *)

Byte == {"AA", "55", "A0", "80", "30", "10", "data"}

LEMMA CommandTypes ==
    /\ ProgramCommand \in Seq(Byte) /\ Len(ProgramCommand) = 4 /\ ProgramCommand[3] = "A0"
    /\ EraseSectorCommand \in Seq(Byte) /\ Len(EraseSectorCommand) = 6
    /\ EraseSectorCommand[3] = "80"
    /\ EraseChipCommand \in Seq(Byte) /\ Len(EraseChipCommand) = 6
    /\ EraseChipCommand[3] = "80"
<1>1. ProgramCommand \in Seq(Byte)
  BY DEF ProgramCommand, Byte
<1>2. EraseSectorCommand \in Seq(Byte)
  BY DEF EraseSectorCommand, Byte
<1>3. EraseChipCommand \in Seq(Byte)
  BY DEF EraseChipCommand, Byte
<1>4. Len(ProgramCommand) = 4 /\ ProgramCommand[3] = "A0"
  BY DEF ProgramCommand
<1>5. Len(EraseSectorCommand) = 6 /\ EraseSectorCommand[3] = "80"
  BY DEF EraseSectorCommand
<1>6. Len(EraseChipCommand) = 6 /\ EraseChipCommand[3] = "80"
  BY DEF EraseChipCommand
<1> QED BY <1>1, <1>2, <1>3, <1>4, <1>5, <1>6

\* No command is a part of another one: of two that differ in length the third
\* bytes differ.
LEMMA CommandsDiffer ==
    ASSUME NEW c \in Commands
    PROVE  /\ c \in Seq(Byte) /\ Len(c) \in 4 .. 6
           /\ \A d \in Commands : Len(d) # Len(c) => d[3] # c[3]
BY CommandTypes DEF Commands

\* What the chip makes of one more byte of the command c.
LEMMA NextByte ==
    ASSUME NEW c \in Commands, NEW n \in 0 .. Len(c) - 1, NEW s,
           s = Append(SubSeq(c, 1, n), c[n + 1])
    PROVE  /\ s = SubSeq(c, 1, n + 1)
           /\ s \in Commands <=> n + 1 = Len(c)
           /\ (\E d \in Commands : IsStrictPrefix(s, d)) <=> n + 1 < Len(c)
<1>1. /\ c \in Seq(Byte) /\ Len(c) \in 4 .. 6
      /\ \A i \in 1 .. Len(c) : c[i] \in Byte
  BY CommandsDiffer, ElementOfSeq
<1>2. ASSUME NEW m \in 0 .. Len(c)
      PROVE  /\ SubSeq(c, 1, m) \in Seq(Byte) /\ Len(SubSeq(c, 1, m)) = m
             /\ \A i \in 1 .. m : SubSeq(c, 1, m)[i] = c[i]
  <2>1. m \in Int /\ \A i \in 1 .. m : c[i] \in Byte
    BY <1>1
  <2>2. /\ SubSeq(c, 1, m) \in Seq(Byte)
        /\ Len(SubSeq(c, 1, m)) = IF 1 <= m THEN m - 1 + 1 ELSE 0
        /\ \A i \in 1 .. m - 1 + 1 : SubSeq(c, 1, m)[i] = c[1 + i - 1]
    BY <2>1, SubSeqProperties
  <2> QED BY <2>1, <2>2
<1>3. /\ s \in Seq(Byte) /\ Len(s) = n + 1
      /\ \A i \in 1 .. n + 1 : s[i] = c[i]
  <2> DEFINE t == SubSeq(c, 1, n)
  <2>1. /\ t \in Seq(Byte) /\ Len(t) = n /\ \A i \in 1 .. n : t[i] = c[i]
        /\ c[n + 1] \in Byte /\ s = Append(t, c[n + 1])
    BY <1>1, <1>2
  <2> HIDE DEF t
  <2> QED BY <1>1, <2>1, AppendProperties
<1>4. s = SubSeq(c, 1, n + 1)
  <2>1. n + 1 \in 0 .. Len(c)
    BY <1>1
  <2> DEFINE u == SubSeq(c, 1, n + 1)
  <2>2. /\ u \in Seq(Byte) /\ Len(u) = n + 1 /\ \A i \in 1 .. n + 1 : u[i] = c[i]
    BY <1>2, <2>1
  <2> HIDE DEF u
  <2>3. s = u
    BY <1>3, <2>2, SeqEqual
  <2> QED BY <2>3 DEF u
<1>5. n + 1 = Len(c) => s = c
  BY <1>1, <1>3, SeqEqual
<1>6. ASSUME NEW d \in Commands, Len(s) <= Len(d), \A i \in 1 .. Len(s) : s[i] = d[i],
             n + 1 = Len(c) \/ Len(d) = n + 1
      PROVE  Len(d) = Len(c)
  <2>1. Len(d) \in 4 .. 6 /\ (Len(d) # Len(c) => d[3] # c[3])
    BY CommandsDiffer
  <2>2. 3 \in 1 .. n + 1
    BY <1>1, <1>6, <2>1
  <2>3. d[3] = c[3]
    BY <1>3, <1>6, <2>2
  <2> QED BY <2>1, <2>3
<1>7. s \in Commands <=> n + 1 = Len(c)
  <2>1. ASSUME s \in Commands PROVE n + 1 = Len(c)
    <3>1. Len(s) <= Len(s)
      BY <1>3
    <3> QED BY <1>3, <1>6, <2>1, <3>1
  <2> QED BY <1>5, <2>1
<1>8. ASSUME n + 1 < Len(c) PROVE IsStrictPrefix(s, c)
  <2>1. Len(s) <= Len(c) /\ s # c
    BY <1>1, <1>3, <1>8
  <2>2. SubSeq(s, 1, Len(s)) = s
    BY <1>3, SubSeqFull
  <2> QED BY <1>3, <1>4, <2>1, <2>2 DEF IsStrictPrefix, IsPrefix
<1>9. ASSUME n + 1 = Len(c), NEW d \in Commands, IsStrictPrefix(s, d) PROVE FALSE
  <2>1. s = c /\ s # d /\ Len(s) <= Len(d) /\ SubSeq(s, 1, Len(s)) = SubSeq(d, 1, Len(s))
    BY <1>5, <1>9 DEF IsStrictPrefix, IsPrefix
  <2>2. d \in Seq(Byte) /\ Len(d) \in 4 .. 6 /\ \A i \in 1 .. Len(d) : d[i] \in Byte
    BY CommandsDiffer, ElementOfSeq
  <2>3. SubSeq(s, 1, Len(s)) = s
    BY <1>3, SubSeqFull
  <2>4. ASSUME NEW i \in 1 .. Len(s) PROVE s[i] = d[i]
    <3>1. 1 \in Int /\ Len(s) \in Int /\ \A j \in 1 .. Len(s) : d[j] \in Byte
      BY <1>3, <2>1, <2>2
    <3>2. i \in 1 .. Len(s) - 1 + 1 /\ 1 + i - 1 = i
      BY <3>1
    <3>3. SubSeq(d, 1, Len(s))[i] = d[1 + i - 1]
      BY <3>1, <3>2, SubSeqProperties
    <3> QED BY <2>1, <2>3, <3>2, <3>3
  <2>5. Len(d) = Len(c)
    BY <1>6, <1>9, <2>1, <2>4
  <2> QED BY <1>1, <2>1, <2>2, <2>4, <2>5, SeqEqual
<1> QED BY <1>1, <1>4, <1>7, <1>8, <1>9

-----------------------------------------------------------------------------
(* What the steps do to the scheduler and the two mutexes.                  *)

LEMMA PidTypes == IDLE \in Pid /\ Users \subseteq Pid /\ \A p \in Users : p # IDLE
BY MaxPidAssumption DEF IDLE, Pid, Users

\* Nobody sleeps or wakes.
LEMMA LocksKept ==
    ASSUME LockInv, UNCHANGED schedVars, mtx' \in Mutex, dma_0_mtx' \in Mutex,
           mtx'.blocked_list = mtx.blocked_list,
           dma_0_mtx'.blocked_list = dma_0_mtx.blocked_list,
           in_dma' \in [Users -> BOOLEAN]
    PROVE  LockInv'
BY DEF LockInv, SchedTypeOK, SchedInv, SleepInv, schedVars

\* The current process joins one of the two lists, `mine', and sleeps.
LEMMA ListBlocks ==
    ASSUME LockInv, NEW p \in Users, p = current_proc,
           NEW mine \in Seq(Pid), NEW other \in Seq(Pid),
           \/ mine = mtx.blocked_list /\ other = dma_0_mtx.blocked_list
           \/ mine = dma_0_mtx.blocked_list /\ other = mtx.blocked_list,
           process_block
    PROVE  /\ SchedTypeOK' /\ SchedInv' /\ state'[IDLE] \in Awake
           /\ Append(mine, p) \in Seq(Pid)
           /\ IsInjective(Append(mine, p)) /\ IsInjective(other)
           /\ ToSet(Append(mine, p)) \cap ToSet(other) = {}
           /\ \A q \in ToSet(Append(mine, p)) \cup ToSet(other) : state'[q] = "BLOCKED"
<1>1. /\ SchedTypeOK /\ SchedInv /\ state[IDLE] \in Awake /\ p \in Pid /\ p # IDLE /\ IDLE \in Pid
      /\ IsInjective(mine) /\ IsInjective(other) /\ ToSet(mine) \cap ToSet(other) = {}
      /\ \A q \in ToSet(mine) \cup ToSet(other) : state[q] = "BLOCKED"
  BY PidTypes DEF LockInv, SleepInv
<1>2. state[p] = "RUNNING"
  BY <1>1 DEF SchedInv
<1>3. /\ SchedTypeOK' /\ SchedInv' /\ state'[p] = "BLOCKED"
      /\ \A q \in Pid \ {p} : \/ state'[q] = state[q]
                              \/ state[q] \in Awake /\ state'[q] \in Awake
  <2>1. "BLOCKED" \in ProcState \ Awake
    BY DEF ProcState, Awake
  <2>2. process_schedule(process_ready_list, [state EXCEPT ![current_proc] = "BLOCKED"])
    BY DEF process_block
  <2> QED BY <1>1, <2>1, <2>2, LeaveEffect
<1>4. p \notin ToSet(mine) /\ p \notin ToSet(other)
  BY <1>1, <1>2
<1>5. /\ Append(mine, p) \in Seq(Pid) /\ IsInjective(Append(mine, p))
      /\ ToSet(Append(mine, p)) = ToSet(mine) \cup {p}
  BY <1>1, <1>4, AppendList, AppendProperties
<1>6. ToSet(mine) \subseteq Pid /\ ToSet(other) \subseteq Pid
  BY ToSetType
<1>7. state'[IDLE] \in Awake
  BY <1>1, <1>3
<1>8. \A q \in ToSet(mine) \cup ToSet(other) : state'[q] = "BLOCKED"
  BY <1>1, <1>3, <1>6 DEF Awake
<1> QED BY <1>1, <1>3, <1>4, <1>5, <1>7, <1>8

LEMMA MutexBlocks ==
    ASSUME LockInv, NEW p \in Users, p = current_proc, process_block,
           \/ mtx' = mutex_queued(mtx, p) /\ UNCHANGED dma_0_mtx
           \/ dma_0_mtx' = mutex_queued(dma_0_mtx, p) /\ UNCHANGED mtx,
           UNCHANGED in_dma
    PROVE  LockInv' /\ mtx'.locked = mtx.locked
<1>1. /\ mtx \in Mutex /\ dma_0_mtx \in Mutex
      /\ mtx.blocked_list \in Seq(Pid) /\ dma_0_mtx.blocked_list \in Seq(Pid)
      /\ in_dma \in [Users -> BOOLEAN] /\ p \in Pid
  BY PidTypes DEF LockInv, Mutex
<1>2. \A m \in Mutex : /\ Append(m.blocked_list, p) \in Seq(Pid) => mutex_queued(m, p) \in Mutex
                       /\ mutex_queued(m, p).blocked_list = Append(m.blocked_list, p)
                       /\ mutex_queued(m, p).locked = m.locked
  BY DEF mutex_queued, Mutex
<1>3. CASE mtx' = mutex_queued(mtx, p) /\ UNCHANGED dma_0_mtx
  <2> DEFINE mine == mtx.blocked_list
             other == dma_0_mtx.blocked_list
  <2>1. mine \in Seq(Pid) /\ other \in Seq(Pid)
    BY <1>1
  <2>2. /\ SchedTypeOK' /\ SchedInv' /\ state'[IDLE] \in Awake
        /\ Append(mine, p) \in Seq(Pid)
        /\ IsInjective(Append(mine, p)) /\ IsInjective(other)
        /\ ToSet(Append(mine, p)) \cap ToSet(other) = {}
        /\ \A q \in ToSet(Append(mine, p)) \cup ToSet(other) : state'[q] = "BLOCKED"
    BY <2>1, ListBlocks
  <2>3. /\ mtx'.blocked_list = Append(mine, p) /\ dma_0_mtx'.blocked_list = other
        /\ mtx' \in Mutex /\ dma_0_mtx' \in Mutex /\ mtx'.locked = mtx.locked
    BY <1>1, <1>2, <1>3, <2>2
  <2> HIDE DEF mine, other
  <2> QED BY <1>1, <2>2, <2>3 DEF LockInv, SleepInv
<1>4. CASE dma_0_mtx' = mutex_queued(dma_0_mtx, p) /\ UNCHANGED mtx
  <2> DEFINE mine == dma_0_mtx.blocked_list
             other == mtx.blocked_list
  <2>1. mine \in Seq(Pid) /\ other \in Seq(Pid)
    BY <1>1
  <2>2. /\ SchedTypeOK' /\ SchedInv' /\ state'[IDLE] \in Awake
        /\ Append(mine, p) \in Seq(Pid)
        /\ IsInjective(Append(mine, p)) /\ IsInjective(other)
        /\ ToSet(Append(mine, p)) \cap ToSet(other) = {}
        /\ \A q \in ToSet(Append(mine, p)) \cup ToSet(other) : state'[q] = "BLOCKED"
    BY <2>1, ListBlocks
  <2>3. /\ dma_0_mtx'.blocked_list = Append(mine, p) /\ mtx'.blocked_list = other
        /\ mtx' \in Mutex /\ dma_0_mtx' \in Mutex /\ mtx'.locked = mtx.locked
    BY <1>1, <1>2, <1>4, <2>2
  <2> HIDE DEF mine, other
  <2> QED BY <1>1, <2>2, <2>3 DEF LockInv, SleepInv
<1> QED BY <1>3, <1>4

\* The first process on one of the lists, if there is one, becomes ready.
LEMMA ListWakes ==
    ASSUME LockInv, NEW mine \in Seq(Pid), NEW other \in Seq(Pid),
           \/ mine = mtx.blocked_list /\ other = dma_0_mtx.blocked_list
           \/ mine = dma_0_mtx.blocked_list /\ other = mtx.blocked_list,
           process_wake_front(mine)
    PROVE  /\ SchedTypeOK' /\ SchedInv' /\ state'[IDLE] \in Awake
           /\ p_list_pop_front(mine) \in Seq(Pid)
           /\ IsInjective(p_list_pop_front(mine)) /\ IsInjective(other)
           /\ ToSet(p_list_pop_front(mine)) \cap ToSet(other) = {}
           /\ \A q \in ToSet(p_list_pop_front(mine)) \cup ToSet(other) : state'[q] = "BLOCKED"
<1>1. /\ SchedTypeOK /\ SchedInv /\ state[IDLE] \in Awake /\ IDLE \in Pid
      /\ IsInjective(mine) /\ IsInjective(other) /\ ToSet(mine) \cap ToSet(other) = {}
      /\ \A q \in ToSet(mine) \cup ToSet(other) : state[q] = "BLOCKED"
      /\ state \in [Pid -> ProcState]
  BY PidTypes DEF LockInv, SleepInv, SchedTypeOK
<1>2. CASE mine = <<>>
  <2>1. UNCHANGED schedVars /\ p_list_pop_front(mine) = mine
    BY <1>2 DEF process_wake_front, p_list_pop_front
  <2> QED BY <1>1, <2>1 DEF SchedTypeOK, SchedInv, schedVars
<1>3. CASE mine # <<>>
  <2>1. PICK w \in Pid : w = Head(mine)
    BY <1>3
  <2>2. /\ Tail(mine) \in Seq(Pid) /\ IsInjective(Tail(mine))
        /\ ToSet(Tail(mine)) = ToSet(mine) \ {w} /\ w \in ToSet(mine)
    BY <1>1, <1>3, <2>1, TailList, HeadTailProperties
  <2>3. state[w] \notin Awake /\ process_ready(w) /\ p_list_pop_front(mine) = Tail(mine)
    BY <1>1, <1>3, <2>1, <2>2 DEF Awake, process_wake_front, p_list_pop_front
  <2>4. SchedTypeOK' /\ SchedInv' /\ state' = [state EXCEPT ![w] = "READY"]
    BY <1>1, <2>3, ReadyEffect
  <2>5. \A q \in Pid \ {w} : state'[q] = state[q]
    BY <1>1, <2>4
  <2>6. ToSet(mine) \subseteq Pid /\ ToSet(other) \subseteq Pid /\ IDLE # w
    BY <1>1, <2>3, ToSetType
  <2>7. w \notin ToSet(other)
    BY <1>1, <2>2
  <2>8. \A q \in ToSet(Tail(mine)) \cup ToSet(other) : state'[q] = "BLOCKED"
    BY <1>1, <2>2, <2>5, <2>6, <2>7
  <2> QED BY <1>1, <2>2, <2>3, <2>4, <2>5, <2>6, <2>8
<1> QED BY <1>2, <1>3

LEMMA MutexWakes ==
    ASSUME LockInv, in_dma' \in [Users -> BOOLEAN],
           \/ /\ mtx' = mutex_unlocked(mtx) /\ process_wake_front(mtx.blocked_list)
              /\ UNCHANGED dma_0_mtx
           \/ /\ dma_0_mtx' = mutex_unlocked(dma_0_mtx)
              /\ process_wake_front(dma_0_mtx.blocked_list)
              /\ UNCHANGED mtx
    PROVE  LockInv'
<1>1. /\ mtx \in Mutex /\ dma_0_mtx \in Mutex
      /\ mtx.blocked_list \in Seq(Pid) /\ dma_0_mtx.blocked_list \in Seq(Pid)
  BY DEF LockInv, Mutex
<1>2. \A m \in Mutex :
         /\ p_list_pop_front(m.blocked_list) \in Seq(Pid) => mutex_unlocked(m) \in Mutex
         /\ mutex_unlocked(m).blocked_list = p_list_pop_front(m.blocked_list)
  BY DEF mutex_unlocked, Mutex
<1>3. CASE /\ mtx' = mutex_unlocked(mtx) /\ process_wake_front(mtx.blocked_list)
           /\ UNCHANGED dma_0_mtx
  <2> DEFINE mine == mtx.blocked_list
             other == dma_0_mtx.blocked_list
             rest == p_list_pop_front(mine)
  <2>1. /\ SchedTypeOK' /\ SchedInv' /\ state'[IDLE] \in Awake
        /\ rest \in Seq(Pid) /\ IsInjective(rest) /\ IsInjective(other)
        /\ ToSet(rest) \cap ToSet(other) = {}
        /\ \A q \in ToSet(rest) \cup ToSet(other) : state'[q] = "BLOCKED"
    BY <1>1, <1>3, ListWakes
  <2>2. /\ mtx'.blocked_list = rest /\ dma_0_mtx'.blocked_list = other
        /\ mtx' \in Mutex /\ dma_0_mtx' \in Mutex
    BY <1>1, <1>2, <1>3, <2>1
  <2> HIDE DEF mine, other, rest
  <2> QED BY <2>1, <2>2 DEF LockInv, SleepInv
<1>4. CASE /\ dma_0_mtx' = mutex_unlocked(dma_0_mtx)
           /\ process_wake_front(dma_0_mtx.blocked_list) /\ UNCHANGED mtx
  <2> DEFINE mine == dma_0_mtx.blocked_list
             other == mtx.blocked_list
             rest == p_list_pop_front(mine)
  <2>1. /\ SchedTypeOK' /\ SchedInv' /\ state'[IDLE] \in Awake
        /\ rest \in Seq(Pid) /\ IsInjective(rest) /\ IsInjective(other)
        /\ ToSet(rest) \cap ToSet(other) = {}
        /\ \A q \in ToSet(rest) \cup ToSet(other) : state'[q] = "BLOCKED"
    BY <1>1, <1>4, ListWakes
  <2>2. /\ dma_0_mtx'.blocked_list = rest /\ mtx'.blocked_list = other
        /\ mtx' \in Mutex /\ dma_0_mtx' \in Mutex
    BY <1>1, <1>2, <1>4, <2>1
  <2> HIDE DEF mine, other, rest
  <2> QED BY <2>1, <2>2 DEF LockInv, SleepInv
<1> QED BY <1>3, <1>4

LEMMA LocksTick ==
    ASSUME LockInv, process_tick, UNCHANGED <<mtx, dma_0_mtx, in_dma>>
    PROVE  LockInv'
<1>1. /\ SchedTypeOK' /\ SchedInv'
      /\ \A p \in Pid : \/ state'[p] = state[p]
                        \/ state[p] \in Awake /\ state'[p] \in Awake
  BY TickEffect DEF LockInv
<1>2. /\ IDLE \in Pid /\ mtx.blocked_list \in Seq(Pid) /\ dma_0_mtx.blocked_list \in Seq(Pid)
  BY PidTypes DEF LockInv, Mutex
<1>3. ToSet(mtx.blocked_list) \subseteq Pid /\ ToSet(dma_0_mtx.blocked_list) \subseteq Pid
  BY <1>2, ToSetType
<1>4. SleepInv'
  BY <1>1, <1>2, <1>3 DEF LockInv, SleepInv, Awake
<1> QED BY <1>1, <1>4 DEF LockInv

-----------------------------------------------------------------------------
(* What the steps do to the calls.                                          *)

LEMMA ChipTypes == MaxCalls \in Nat /\ chip_size \in Nat \ {0} /\ sector_size \in Nat \ {0}
BY FlashAssumption

LEMMA CommandIsOne == \A p \in Users : Command(p) \in Commands
BY DEF Command, Commands

\* A process that gets or gives back the DMA channel, sleeps, or is interrupted.
LEMMA CallsKept ==
    ASSUME CallInv, mtx'.locked = mtx.locked,
           UNCHANGED <<callVars, pc, localVars, chipVars>>
    PROVE  CallInv'
<1>1. /\ calls' = calls /\ req' = req /\ id' = id /\ pc' = pc /\ k' = k
      /\ bytes_written' = bytes_written /\ got' = got /\ seen' = seen /\ busy' = busy
      /\ flash' = flash /\ becomes' = becomes
  BY DEF callVars, localVars, chipVars
<1>2. CallTypeOK' /\ OwnerInv' /\ RequestInv' /\ IdInv'
  BY <1>1 DEF CallInv, CallTypeOK, OwnerInv, RequestInv, IdInv, Inside
<1>3. \A p \in Users : Command(p)' = Command(p) /\ Changed(p)' = Changed(p)
  BY <1>1 DEF Command, Changed, Target
<1>4. ChipInv'
  BY <1>1, <1>3 DEF CallInv, ChipInv
<1>5. DoneInv'
  BY <1>1 DEF CallInv, DoneInv, Programmed, Erased, Target
<1> QED BY <1>2, <1>4, <1>5 DEF CallInv

\* A call begins.
LEMMA CallBegins ==
    ASSUME CallInv, NEW p \in Users, NEW r \in Requests, Call(p, r)
    PROVE  CallInv'
<1>1. /\ CallTypeOK /\ OwnerInv /\ RequestInv /\ IdInv /\ ChipInv /\ DoneInv
      /\ pc[p] = "out" /\ calls < MaxCalls
      /\ r.what \in {"read", "write"} => r.pos < chip_size
      /\ calls' = calls + 1 /\ req' = [req EXCEPT ![p] = Request(r)]
      /\ id' = [id EXCEPT ![p] = calls + 1]
      /\ pc' = [pc EXCEPT ![p] = IF r.what = "copy" THEN "copy" ELSE "lock"]
      /\ mtx' = mtx /\ k' = k /\ bytes_written' = bytes_written /\ got' = got
      /\ seen' = seen /\ busy' = busy /\ flash' = flash /\ becomes' = becomes
  BY DEF CallInv, Call, On, Goto, lockVars, localVars, chipVars
<1> USE DEF CallTypeOK
<1>2. /\ Request(r) \in [what : What, pos : Nat, count : Nat \ {0}]
      /\ Request(r).what = r.what
      /\ r.what \in {"read", "write"} => Request(r).pos + Request(r).count <= chip_size
  <2>1. /\ r \in [what : What, pos : Nat, count : Nat \ {0}] /\ chip_size \in Nat
    BY FlashAssumption DEF What
  <2>2. CASE r.what \in {"read", "write"} /\ r.count > chip_size - r.pos
    <3>1. chip_size - r.pos \in Nat \ {0}
      BY <1>1, <2>1, <2>2
    <3>2. Request(r) = [r EXCEPT !.count = chip_size - r.pos]
      BY <2>2 DEF Request
    <3> QED BY <2>1, <3>1, <3>2
  <2>3. CASE ~(r.what \in {"read", "write"} /\ r.count > chip_size - r.pos)
    <3>1. Request(r) = r
      BY <2>3 DEF Request
    <3> QED BY <2>1, <2>3, <3>1
  <2> QED BY <2>2, <2>3
<1>3. /\ calls \in Nat /\ MaxCalls \in Nat /\ calls + 1 \in 0 .. MaxCalls
  <2>1. calls \in 0 .. MaxCalls /\ calls < MaxCalls /\ MaxCalls \in Nat
    BY <1>1, ChipTypes
  <2> QED BY <2>1
<1>4. /\ pc' \in [Users -> Place] /\ pc'[p] \in {"lock", "copy"}
      /\ pc'[p] = "lock" => r.what # "copy"
      /\ \A q \in Users \ {p} : pc'[q] = pc[q]
  BY <1>1 DEF Place
<1>5. /\ req' \in [Users -> [what : What, pos : Nat, count : Nat \ {0}]]
      /\ req'[p] = Request(r)
      /\ \A q \in Users \ {p} : req'[q] = req[q]
  BY <1>1, <1>2
<1>6. /\ id' \in [Users -> 0 .. MaxCalls] /\ id'[p] = calls + 1
      /\ \A q \in Users \ {p} : id'[q] = id[q]
  BY <1>1, <1>3
<1>7. CallTypeOK'
  BY <1>1, <1>3, <1>4, <1>5, <1>6
<1>8. OwnerInv'
  BY <1>1, <1>4 DEF OwnerInv, Inside
<1>9. RequestInv'
  <2>1. ASSUME NEW q \in Users
        PROVE  /\ req'[q].what \in {"read", "write"} => req'[q].pos + req'[q].count <= chip_size
               /\ pc'[q] = "lock" => req'[q].what # "copy"
               /\ pc'[q] = "read" => req'[q].what = "read"
               /\ pc'[q] \in {"send", "poll"} =>
                    req'[q].what \in {"write", "erase sector", "erase chip"}
    <3>1. CASE q = p
      BY <1>2, <1>4, <1>5, <3>1
    <3>2. CASE q # p
      BY <1>1, <1>4, <1>5, <3>2 DEF RequestInv
    <3> QED BY <3>1, <3>2
  <2> QED BY <2>1 DEF RequestInv
<1>10. IdInv'
  <2>1. \A n \in 1 .. calls : n \in 1 .. calls + 1 /\ n # calls + 1
    BY <1>3
  <2>2. \A q \in Users : id[q] <= calls /\ id[q] \in Int
    BY <1>1, <1>3 DEF IdInv
  <2>3. \A q \in Users : id'[q] <= calls + 1 /\ (pc'[q] # "out" => id'[q] # 0)
    BY <1>1, <1>3, <1>4, <1>6, <2>2 DEF IdInv
  <2>4. ASSUME NEW q \in Users, NEW s \in Users, id'[q] = id'[s], id'[q] # 0 PROVE q = s
    <3>1. \A u \in Users : id[u] # calls + 1
      BY <1>3, <2>2
    <3> QED BY <1>1, <1>6, <2>4, <3>1 DEF IdInv
  <2>5. \A a \in Address : flash[a] \subseteq 1 .. calls + 1 /\ becomes[a] \subseteq 1 .. calls + 1
    BY <1>1, <2>1 DEF IdInv
  <2>6. ASSUME NEW q \in Users, NEW a \in Address, pc'[q] = "copy"
        PROVE  id'[q] \notin flash[a] /\ id'[q] \notin becomes[a]
    <3>1. calls + 1 \notin flash[a] /\ calls + 1 \notin becomes[a]
      BY <1>1, <2>1 DEF IdInv
    <3> QED BY <1>1, <1>4, <1>6, <2>6, <3>1 DEF IdInv
  <2>7. \A q \in Users : got[q] \subseteq 1 .. calls + 1 /\ (got[q] # {} => pc'[q] = "unlock")
    <3>1. ASSUME NEW q \in Users, got[q] # {} PROVE pc'[q] = "unlock"
      BY <1>1, <1>4, <3>1 DEF IdInv
    <3> QED BY <1>1, <2>1, <3>1 DEF IdInv
  <2>8. ASSUME NEW q \in Users, NEW s \in Users, pc'[s] = "copy" PROVE id'[s] \notin got[q]
    <3>1. calls + 1 \notin got[q]
      BY <1>1, <2>1 DEF IdInv
    <3> QED BY <1>1, <1>4, <1>6, <2>8, <3>1 DEF IdInv
  <2> QED BY <1>1, <2>3, <2>4, <2>5, <2>6, <2>7, <2>8 DEF IdInv
<1>11. \A q \in Users \ {p} : Command(q)' = Command(q) /\ Changed(q)' = Changed(q)
  BY <1>1, <1>5, <1>6 DEF Command, Changed, Target
<1>12. ChipInv'
  <2>1. busy' => \E q \in Users : pc'[q] = "poll"
    BY <1>1, <1>4 DEF ChipInv
  <2>2. seen' # <<>> => \E q \in Users : pc'[q] = "send" /\ k'[q] > 0
    BY <1>1, <1>4 DEF ChipInv
  <2>3. ASSUME NEW q \in Users
        PROVE  /\ pc'[q] = "send" => /\ k'[q] < Len(Command(q)')
                                     /\ seen' = SubSeq(Command(q)', 1, k'[q])
               /\ pc'[q] = "poll" => k'[q] = 0
               /\ pc'[q] = "poll" /\ busy' => becomes' = Changed(q)'
    <3>1. CASE q = p
      BY <1>4, <3>1
    <3>2. CASE q # p
      BY <1>1, <1>4, <1>11, <3>2 DEF ChipInv
    <3> QED BY <3>1, <3>2
  <2> QED BY <2>1, <2>2, <2>3 DEF ChipInv
<1>13. DoneInv'
  <2>1. ASSUME NEW q \in Users
        PROVE  /\ pc'[q] \in {"send", "poll"} /\ req'[q].what = "write" =>
                    bytes_written'[q] < req'[q].count /\ Programmed(q, bytes_written[q])'
               /\ pc'[q] = "poll" /\ ~busy' =>
                    /\ req'[q].what = "write" => Programmed(q, bytes_written[q] + 1)'
                    /\ req'[q].what # "write" => Erased(q)'
               /\ pc'[q] = "unlock" =>
                    /\ req'[q].what = "write" => Programmed(q, req[q].count)'
                    /\ req'[q].what \in {"erase sector", "erase chip"} => Erased(q)'
    <3>1. CASE q = p
      BY <1>4, <3>1
    <3>2. CASE q # p
      BY <1>1, <1>4, <1>5, <1>6, <3>2 DEF DoneInv, Programmed, Erased, Target
    <3> QED BY <3>1, <3>2
  <2> QED BY <2>1 DEF DoneInv
<1> QED BY <1>7, <1>8, <1>9, <1>10, <1>12, <1>13 DEF CallInv

\* A copy elsewhere ends.
LEMMA CopyEnds ==
    ASSUME CallInv, NEW p \in Users, Copy(p)
    PROVE  CallInv'
<1>1. /\ CallTypeOK /\ OwnerInv /\ RequestInv /\ IdInv /\ ChipInv /\ DoneInv
      /\ pc[p] = "copy" /\ pc' = [pc EXCEPT ![p] = "out"]
      /\ mtx' = mtx /\ calls' = calls /\ req' = req /\ id' = id /\ k' = k
      /\ bytes_written' = bytes_written /\ got' = got
      /\ seen' = seen /\ busy' = busy /\ flash' = flash /\ becomes' = becomes
  BY DEF CallInv, Copy, Transfer, DmaUnlock, On, Goto, callVars, localVars, chipVars
<1>2. /\ pc' \in [Users -> Place] /\ pc'[p] = "out"
      /\ \A q \in Users \ {p} : pc'[q] = pc[q]
  BY <1>1 DEF CallTypeOK, Place
<1>3. CallTypeOK' /\ OwnerInv'
  BY <1>1, <1>2 DEF CallTypeOK, OwnerInv, Inside
<1>4. RequestInv' /\ IdInv'
  BY <1>1, <1>2 DEF RequestInv, IdInv
<1>5. \A q \in Users : Command(q)' = Command(q) /\ Changed(q)' = Changed(q)
  BY <1>1 DEF Command, Changed, Target
<1>6. ChipInv'
  BY <1>1, <1>2, <1>5 DEF ChipInv
<1>7. DoneInv'
  BY <1>1, <1>2 DEF DoneInv, Programmed, Erased, Target
<1> QED BY <1>3, <1>4, <1>6, <1>7 DEF CallInv

\* A process takes the mutex: nobody is inside, so the chip is idle.
LEMMA CallEnters ==
    ASSUME CallInv, mtx \in Mutex, NEW p \in Users, Lock(p)
    PROVE  CallInv'
<1>1. /\ CallTypeOK /\ OwnerInv /\ RequestInv /\ IdInv /\ ChipInv /\ DoneInv
      /\ pc[p] = "lock" /\ ~mtx.locked /\ mtx'.locked
      /\ pc' = [pc EXCEPT ![p] = FirstStep(p)]
      /\ k' = [k EXCEPT ![p] = 0] /\ bytes_written' = [bytes_written EXCEPT ![p] = 0]
      /\ calls' = calls /\ req' = req /\ id' = id /\ got' = got
      /\ seen' = seen /\ busy' = busy /\ flash' = flash /\ becomes' = becomes
  BY DEF CallInv, Lock, MayEnter, mutex_taken, Mutex, On, Goto, callVars, chipVars
<1>2. /\ FirstStep(p) = "read" => req[p].what = "read"
      /\ FirstStep(p) = "unlock" => req[p].what = "nothing"
      /\ FirstStep(p) = "send" => req[p].what \in {"write", "erase sector", "erase chip"}
      /\ FirstStep(p) \in {"read", "unlock", "send"}
  <2>1. req[p].what \in What \ {"copy"}
    BY <1>1 DEF CallTypeOK, RequestInv
  <2> QED BY <2>1 DEF FirstStep, What
<1>3. \A q \in Users : pc[q] \notin {"read", "send", "poll", "unlock"}
  BY <1>1 DEF OwnerInv, Inside
<1>4. ~busy /\ seen = <<>>
  BY <1>1, <1>3 DEF ChipInv
<1>5. /\ pc' \in [Users -> Place] /\ pc'[p] = FirstStep(p)
      /\ \A q \in Users \ {p} : pc'[q] = pc[q]
  BY <1>1, <1>2 DEF CallTypeOK, Place
<1>6. /\ k' \in [Users -> 0 .. 5] /\ k'[p] = 0
      /\ bytes_written' \in [Users -> 0 .. chip_size] /\ bytes_written'[p] = 0
  BY <1>1, ChipTypes DEF CallTypeOK
<1>7. CallTypeOK'
  BY <1>1, <1>5, <1>6 DEF CallTypeOK
<1>8. OwnerInv'
  BY <1>1, <1>2, <1>3, <1>5 DEF OwnerInv, Inside
<1>9. RequestInv'
  BY <1>1, <1>2, <1>3, <1>5 DEF RequestInv
<1>10. IdInv'
  <2>1. \A q \in Users : (pc'[q] # "out" => pc[q] # "out") /\ (pc'[q] = "copy" => pc[q] = "copy")
    BY <1>1, <1>2, <1>5
  <2>2. \A q \in Users : got[q] = {}
    BY <1>1, <1>3 DEF IdInv
  <2> QED BY <1>1, <2>1, <2>2 DEF IdInv
<1>11. ChipInv'
  <2>1. Command(p)' = Command(p) /\ Command(p) \in Commands
    BY <1>1, CommandIsOne DEF Command
  <2>2. SubSeq(Command(p), 1, 0) = <<>>
    BY SubSeqEmpty
  <2>3. 0 < Len(Command(p))
    BY <2>1, CommandsDiffer
  <2>4. ASSUME NEW q \in Users
        PROVE  /\ pc'[q] = "send" => /\ k'[q] < Len(Command(q)')
                                     /\ seen' = SubSeq(Command(q)', 1, k'[q])
               /\ pc'[q] # "poll"
    BY <1>1, <1>2, <1>3, <1>4, <1>5, <1>6, <2>1, <2>2, <2>3
  <2> QED BY <1>1, <1>4, <2>4 DEF ChipInv
<1>12. DoneInv'
  <2>1. ASSUME NEW q \in Users
        PROVE  /\ pc'[q] \in {"send", "poll"} /\ req'[q].what = "write" =>
                    bytes_written'[q] < req'[q].count /\ Programmed(q, bytes_written[q])'
               /\ pc'[q] # "poll"
               /\ pc'[q] = "unlock" => req'[q].what = "nothing"
    <3>1. CASE q = p
      <4>1. /\ req[p].count \in Nat \ {0} /\ req[p].pos \in Nat
        BY <1>1 DEF CallTypeOK
      <4>2. ASSUME NEW a \in Address, req[p].pos <= a, a < req[p].pos + 0 PROVE FALSE
        BY <4>1, <4>2, ChipTypes DEF Address
      <4>3. Programmed(q, bytes_written[q])'
        BY <1>1, <1>6, <3>1, <4>2 DEF Programmed
      <4>4. bytes_written'[q] < req'[q].count
        BY <1>1, <1>6, <3>1, <4>1
      <4>5. pc'[q] # "poll" /\ (pc'[q] = "unlock" => req'[q].what = "nothing")
        BY <1>1, <1>2, <1>5, <3>1
      <4> QED BY <4>3, <4>4, <4>5
    <3>2. CASE q # p
      BY <1>3, <1>5, <3>2
    <3> QED BY <3>1, <3>2
  <2> QED BY <2>1 DEF DoneInv
<1> QED BY <1>7, <1>8, <1>9, <1>10, <1>11, <1>12 DEF CallInv

\* A process that is inside goes on, or leaves: nobody else is inside.
LEMMA OthersOutside ==
    ASSUME CallInv, NEW p \in Users, Inside(p)
    PROVE  \A q \in Users \ {p} : pc[q] \in {"out", "lock", "copy"}
BY DEF CallInv, CallTypeOK, OwnerInv, Inside, Place

LEMMA CallLeaves ==
    ASSUME CallInv, mtx \in Mutex, NEW p \in Users, Unlock(p)
    PROVE  CallInv'
<1>1. /\ CallTypeOK /\ OwnerInv /\ RequestInv /\ IdInv /\ ChipInv /\ DoneInv
      /\ pc[p] = "unlock" /\ ~mtx'.locked
      /\ pc' = [pc EXCEPT ![p] = "out"] /\ got' = [got EXCEPT ![p] = {}]
      /\ k' = k /\ bytes_written' = bytes_written
      /\ calls' = calls /\ req' = req /\ id' = id
      /\ seen' = seen /\ busy' = busy /\ flash' = flash /\ becomes' = becomes
  BY DEF CallInv, Unlock, mutex_unlocked, Mutex, On, Goto, callVars, chipVars
<1>2. \A q \in Users \ {p} : pc[q] \in {"out", "lock", "copy"}
  BY <1>1, OthersOutside DEF Inside
<1>3. ~busy /\ seen = <<>>
  BY <1>1, <1>2 DEF ChipInv
<1>4. /\ pc' \in [Users -> Place] /\ pc'[p] = "out"
      /\ \A q \in Users \ {p} : pc'[q] = pc[q]
      /\ got' \in [Users -> SUBSET CallId] /\ got'[p] = {}
      /\ \A q \in Users \ {p} : got'[q] = got[q]
  BY <1>1 DEF CallTypeOK, Place
<1>5. \A q \in Users : pc'[q] \in {"out", "lock", "copy"}
  BY <1>2, <1>4
<1>6. CallTypeOK' /\ OwnerInv'
  BY <1>1, <1>4, <1>5 DEF CallTypeOK, OwnerInv, Inside
<1>7. RequestInv'
  BY <1>1, <1>4 DEF RequestInv
<1>8. IdInv'
  <2>1. \A q \in Users : (pc'[q] # "out" => pc[q] # "out") /\ (pc'[q] = "copy" => pc[q] = "copy")
    BY <1>1, <1>4
  <2>2. \A q \in Users : got'[q] = {}
    BY <1>1, <1>2, <1>4 DEF IdInv
  <2> QED BY <1>1, <2>1, <2>2 DEF IdInv
<1>9. ChipInv' /\ DoneInv'
  BY <1>1, <1>3, <1>5 DEF ChipInv, DoneInv
<1> QED BY <1>6, <1>7, <1>8, <1>9 DEF CallInv

\* A reader gets its bytes.
LEMMA CallReads ==
    ASSUME CallInv, NEW p \in Users, Read(p)
    PROVE  CallInv'
<1> DEFINE given == UNION {flash[a] : a \in Span(p)}
<1>1. /\ CallTypeOK /\ OwnerInv /\ RequestInv /\ IdInv /\ ChipInv /\ DoneInv
      /\ pc[p] = "read"
      /\ pc' = [pc EXCEPT ![p] = "unlock"] /\ got' = [got EXCEPT ![p] = given]
      /\ mtx' = mtx /\ k' = k /\ bytes_written' = bytes_written
      /\ calls' = calls /\ req' = req /\ id' = id
      /\ seen' = seen /\ busy' = busy /\ flash' = flash /\ becomes' = becomes
  BY DEF CallInv, Read, Transfer, DmaUnlock, On, Goto, callVars, chipVars
<1>2. \A q \in Users \ {p} : pc[q] \in {"out", "lock", "copy"}
  BY <1>1, OthersOutside DEF Inside
<1>3. ~busy /\ seen = <<>>
  BY <1>1, <1>2 DEF ChipInv
<1>4. Span(p) \subseteq Address
  <2>1. /\ req[p].pos \in Nat /\ req[p].count \in Nat /\ req[p].pos + req[p].count <= chip_size
    BY <1>1 DEF CallTypeOK, RequestInv
  <2> QED BY <2>1, ChipTypes DEF Span, Address
<1>5. /\ given \subseteq 1 .. calls /\ given \in SUBSET CallId
      /\ \A q \in Users : pc[q] = "copy" => id[q] \notin given
  <2>1. given \subseteq 1 .. calls /\ \A q \in Users : pc[q] = "copy" => id[q] \notin given
    BY <1>1, <1>4 DEF IdInv
  <2>2. calls \in 0 .. MaxCalls
    BY <1>1 DEF CallTypeOK
  <2> QED BY <2>1, <2>2, ChipTypes DEF CallId
<1> HIDE DEF given
<1>6. /\ pc' \in [Users -> Place] /\ pc'[p] = "unlock"
      /\ \A q \in Users \ {p} : pc'[q] = pc[q]
      /\ got' \in [Users -> SUBSET CallId] /\ got'[p] = given
      /\ \A q \in Users \ {p} : got'[q] = got[q]
  BY <1>1, <1>5 DEF CallTypeOK, Place
<1>7. CallTypeOK' /\ OwnerInv'
  BY <1>1, <1>2, <1>6 DEF CallTypeOK, OwnerInv, Inside
<1>8. RequestInv'
  BY <1>1, <1>6 DEF RequestInv
<1>9. IdInv'
  <2>1. \A q \in Users : got'[q] \subseteq 1 .. calls /\ (got'[q] # {} => pc'[q] = "unlock")
    BY <1>1, <1>5, <1>6 DEF IdInv
  <2>2. \A q \in Users : pc'[q] = "copy" => pc[q] = "copy"
    BY <1>6
  <2>3. \A q, s \in Users : pc'[s] = "copy" => id[s] \notin got'[q]
    BY <1>1, <1>5, <1>6, <2>2 DEF IdInv
  <2>4. \A q \in Users : pc'[q] # "out" => id[q] # 0
    BY <1>1, <1>6 DEF IdInv
  <2> QED BY <1>1, <2>1, <2>2, <2>3, <2>4 DEF IdInv
<1>10. ChipInv'
  BY <1>1, <1>2, <1>3, <1>6 DEF ChipInv
<1>11. DoneInv'
  <2>1. req[p].what = "read"
    BY <1>1 DEF RequestInv
  <2> QED BY <1>1, <1>2, <1>6, <2>1 DEF DoneInv
<1> QED BY <1>7, <1>8, <1>9, <1>10, <1>11 DEF CallInv

\* The chip is sent the next byte of a command.
LEMMA CallSends ==
    ASSUME CallInv, NEW p \in Users, Send(p)
    PROVE  CallInv'
<1> DEFINE s    == Append(seen, Command(p)[k[p] + 1])
           more == k[p] + 1 < Len(Command(p))
<1>1. /\ CallTypeOK /\ OwnerInv /\ RequestInv /\ IdInv /\ ChipInv /\ DoneInv
      /\ pc[p] = "send"
      /\ IF more THEN k' = [k EXCEPT ![p] = k[p] + 1] /\ pc' = pc
                 ELSE k' = [k EXCEPT ![p] = 0] /\ pc' = [pc EXCEPT ![p] = "poll"]
      /\ mtx' = mtx /\ bytes_written' = bytes_written /\ got' = got
      /\ calls' = calls /\ req' = req /\ id' = id
  BY DEF CallInv, Send, Transfer, DmaUnlock, On, Goto, callVars
<1>2. \A q \in Users \ {p} : pc[q] \in {"out", "lock", "copy"}
  BY <1>1, OthersOutside DEF Inside
<1>3. ~busy
  BY <1>1, <1>2 DEF ChipInv
<1>4. /\ seen' = IF \E c \in Commands : IsStrictPrefix(s, c) THEN s ELSE <<>>
      /\ busy' = (s \in Commands)
      /\ becomes' = IF s \in Commands THEN Changed(p) ELSE becomes
      /\ flash' = flash
  BY <1>3 DEF Send, ChipSees
<1>5. /\ Command(p) \in Commands /\ Len(Command(p)) \in 4 .. 6
      /\ k[p] \in 0 .. Len(Command(p)) - 1 /\ seen = SubSeq(Command(p), 1, k[p])
  <2>1. k[p] \in 0 .. 5 /\ k[p] < Len(Command(p))
    BY <1>1 DEF CallTypeOK, ChipInv
  <2>2. Command(p) \in Commands /\ Len(Command(p)) \in 4 .. 6
    BY CommandIsOne, CommandsDiffer
  <2> QED BY <1>1, <2>1, <2>2 DEF ChipInv
<1>6. /\ s = SubSeq(Command(p), 1, k[p] + 1)
      /\ s \in Commands <=> ~more
      /\ (\E c \in Commands : IsStrictPrefix(s, c)) <=> more
  <2> DEFINE c == Command(p)
             n == k[p]
  <2>1. c \in Commands /\ n \in 0 .. Len(c) - 1 /\ s = Append(SubSeq(c, 1, n), c[n + 1])
    BY <1>5
  <2>2. Len(c) \in Nat
    BY <1>5
  <2> HIDE DEF c, n, s
  <2>3. /\ s = SubSeq(c, 1, n + 1)
        /\ s \in Commands <=> n + 1 = Len(c)
        /\ (\E d \in Commands : IsStrictPrefix(s, d)) <=> n + 1 < Len(c)
    BY <2>1, NextByte
  <2>4. n + 1 = Len(c) <=> ~(n + 1 < Len(c))
    BY <2>1, <2>2
  <2> QED BY <2>3, <2>4 DEF c, n
<1>7. /\ seen' = IF more THEN SubSeq(Command(p), 1, k[p] + 1) ELSE <<>>
      /\ busy' = ~more
      /\ becomes' = IF more THEN becomes ELSE Changed(p)
  BY <1>4, <1>6
<1> HIDE DEF s
<1>8. \A q \in Users : Command(q)' = Command(q) /\ Changed(q)' = Changed(q)
  BY <1>1, <1>4 DEF Command, Changed, Target
<1>9. /\ pc' \in [Users -> Place] /\ pc'[p] = IF more THEN "send" ELSE "poll"
      /\ \A q \in Users \ {p} : pc'[q] = pc[q]
  BY <1>1 DEF CallTypeOK, Place
<1>10. /\ k' \in [Users -> 0 .. 5] /\ k'[p] = IF more THEN k[p] + 1 ELSE 0
       /\ \A q \in Users \ {p} : k'[q] = k[q]
  <2>1. k \in [Users -> 0 .. 5]
    BY <1>1 DEF CallTypeOK
  <2>2. more => k[p] + 1 \in 0 .. 5
    <3>1. \A l \in 4 .. 6 : \A n \in 0 .. l - 1 : n + 1 < l => n + 1 \in 0 .. 5
      OBVIOUS
    <3> QED BY <1>5, <3>1
  <2> QED BY <1>1, <2>1, <2>2
<1>11. /\ Changed(p) \in Contents
       /\ \A a \in Address : Changed(p)[a] \subseteq flash[a] \cup {id[p]}
  <2>1. flash \in Contents /\ id[p] \in CallId
    <3>1. id[p] \in 0 .. MaxCalls /\ id[p] # 0
      BY <1>1 DEF CallTypeOK, IdInv
    <3> QED BY <1>1, <3>1, ChipTypes DEF CallTypeOK, CallId
  <2> QED BY <2>1 DEF Changed, Contents
<1>12. CallTypeOK'
  BY <1>1, <1>4, <1>7, <1>9, <1>10, <1>11 DEF CallTypeOK
<1>13. OwnerInv' /\ RequestInv'
  <2>1. RequestInv'
    BY <1>1, <1>9 DEF RequestInv
  <2>2. \A q \in Users : Inside(q)' <=> Inside(q)
    BY <1>1, <1>9 DEF Inside
  <2> QED BY <1>1, <2>1, <2>2 DEF OwnerInv
<1>14. IdInv'
  <2>1. \A q \in Users : /\ pc'[q] # "out" => pc[q] # "out"
                         /\ pc'[q] = "copy" => pc[q] = "copy" /\ q # p
    BY <1>1, <1>9
  <2>2. id[p] \in 1 .. calls
    BY <1>1 DEF IdInv, CallTypeOK
  <2>3. \A a \in Address : becomes'[a] \subseteq 1 .. calls
    BY <1>1, <1>7, <1>11, <2>2 DEF IdInv
  <2>4. \A q \in Users, a \in Address : pc'[q] = "copy" => id[q] \notin becomes'[a]
    <3>1. \A q \in Users : pc'[q] = "copy" => id[q] # id[p]
      BY <1>1, <2>1 DEF IdInv
    <3> QED BY <1>1, <1>7, <1>11, <2>1, <3>1 DEF IdInv
  <2>5. \A q \in Users : got[q] # {} => pc'[q] = "unlock"
    BY <1>1, <1>9 DEF IdInv
  <2>6. \A a \in Address : flash[a] \subseteq 1 .. calls
    BY <1>1 DEF IdInv
  <2>7. \A q \in Users, a \in Address : pc'[q] = "copy" => id[q] \notin flash[a]
    BY <1>1, <2>1 DEF IdInv
  <2>8. \A q, r \in Users : pc'[r] = "copy" => id[r] \notin got[q]
    BY <1>1, <2>1 DEF IdInv
  <2> QED BY <1>1, <1>4, <2>1, <2>3, <2>4, <2>5, <2>6, <2>7, <2>8 DEF IdInv
<1>15. ChipInv'
  <2>1. busy' => pc'[p] = "poll"
    BY <1>7, <1>9
  <2>2. seen' # <<>> => pc'[p] = "send" /\ k'[p] > 0
    BY <1>5, <1>7, <1>9, <1>10
  <2>3. ASSUME NEW q \in Users
        PROVE  /\ pc'[q] = "send" => /\ k'[q] < Len(Command(q)')
                                     /\ seen' = SubSeq(Command(q)', 1, k'[q])
               /\ pc'[q] = "poll" => k'[q] = 0
               /\ pc'[q] = "poll" /\ busy' => becomes' = Changed(q)'
    <3>1. CASE q = p
      <4>1. Command(q)' = Command(p) /\ Changed(q)' = Changed(p)
        BY <1>8, <3>1
      <4> QED BY <1>7, <1>9, <1>10, <3>1, <4>1
    <3>2. CASE q # p
      BY <1>2, <1>9, <3>2
    <3> QED BY <3>1, <3>2
  <2> QED BY <2>1, <2>2, <2>3 DEF ChipInv
<1>16. DoneInv'
  <2>1. ASSUME NEW q \in Users
        PROVE  /\ pc'[q] \in {"send", "poll"} /\ req'[q].what = "write" =>
                    bytes_written'[q] < req'[q].count /\ Programmed(q, bytes_written[q])'
               /\ ~(pc'[q] = "poll" /\ ~busy') /\ pc'[q] # "unlock"
    <3>1. CASE q = p
      BY <1>1, <1>4, <1>7, <1>9, <3>1 DEF DoneInv, Programmed
    <3>2. CASE q # p
      BY <1>2, <1>9, <3>2
    <3> QED BY <3>1, <3>2
  <2> QED BY <2>1 DEF DoneInv
<1> QED BY <1>12, <1>13, <1>14, <1>15, <1>16 DEF CallInv

\* A look at the chip, which may have finished.
LEMMA CallPolls ==
    ASSUME CallInv, NEW p \in Users, Poll(p)
    PROVE  CallInv'
<1>1. /\ CallTypeOK /\ OwnerInv /\ RequestInv /\ IdInv /\ ChipInv /\ DoneInv
      /\ pc[p] = "poll"
      /\ mtx' = mtx /\ k' = k /\ got' = got
      /\ calls' = calls /\ req' = req /\ id' = id
      /\ seen' = seen /\ busy' = busy /\ flash' = flash /\ becomes' = becomes
  BY DEF CallInv, Poll, Transfer, DmaUnlock, On, Goto, callVars, chipVars
<1>2. CASE busy
  <2>1. pc' = pc /\ bytes_written' = bytes_written
    BY <1>2 DEF Poll, Steady
  <2>2. mtx'.locked = mtx.locked /\ UNCHANGED <<callVars, pc, localVars, chipVars>>
    BY <1>1, <2>1 DEF callVars, localVars, chipVars
  <2> QED BY <2>2, CallsKept
<1>3. CASE ~busy
  <2> DEFINE write == req[p].what = "write"
             n     == bytes_written[p] + 1
  <2>1. IF write
        THEN /\ bytes_written' = [bytes_written EXCEPT ![p] = n]
             /\ pc' = [pc EXCEPT ![p] = IF n < req[p].count THEN "send" ELSE "unlock"]
        ELSE bytes_written' = bytes_written /\ pc' = [pc EXCEPT ![p] = "unlock"]
    BY <1>3 DEF Poll, Steady, Goto
  <2>2. \A q \in Users \ {p} : pc[q] \in {"out", "lock", "copy"}
    BY <1>1, OthersOutside DEF Inside
  <2>3. seen = <<>> /\ k[p] = 0
    BY <1>1, <2>2 DEF ChipInv
  <2>4. /\ pc' \in [Users -> Place]
        /\ pc'[p] = IF write /\ n < req[p].count THEN "send" ELSE "unlock"
        /\ \A q \in Users \ {p} : pc'[q] = pc[q]
    BY <1>1, <2>1 DEF CallTypeOK, Place
  <2>5. /\ req[p].what \in {"write", "erase sector", "erase chip"}
        /\ write => /\ req[p].pos + req[p].count <= chip_size
                    /\ bytes_written[p] < req[p].count /\ Programmed(p, n)
        /\ ~write => Erased(p)
    BY <1>1, <1>3 DEF RequestInv, DoneInv
  <2>6. /\ req[p].pos \in Nat /\ req[p].count \in Nat /\ bytes_written[p] \in Nat
        /\ bytes_written \in [Users -> 0 .. chip_size] /\ chip_size \in Nat
    BY <1>1, ChipTypes DEF CallTypeOK
  <2>7. bytes_written' \in [Users -> 0 .. chip_size] /\ (write => bytes_written'[p] = n)
    <3>1. write => n \in 0 .. chip_size
      BY <2>5, <2>6
    <3> QED BY <2>1, <2>6, <3>1
  <2>8. CallTypeOK'
    BY <1>1, <2>4, <2>7 DEF CallTypeOK
  <2>9. OwnerInv' /\ RequestInv'
    <3>1. \A q \in Users : Inside(q)' <=> Inside(q)
      BY <1>1, <2>4 DEF Inside
    <3>2. RequestInv'
      BY <1>1, <2>4, <2>5 DEF RequestInv
    <3> QED BY <1>1, <3>1, <3>2 DEF OwnerInv
  <2>10. IdInv'
    <3>1. \A q \in Users : /\ pc'[q] # "out" => pc[q] # "out"
                           /\ pc'[q] = "copy" => pc[q] = "copy"
                           /\ pc[q] = "unlock" => pc'[q] = "unlock"
      BY <1>1, <2>4
    <3> QED BY <1>1, <3>1 DEF IdInv
  <2>11. ChipInv'
    <3>1. Command(p) \in Commands /\ Command(p)' = Command(p)
      BY <1>1, CommandIsOne DEF Command
    <3>2. SubSeq(Command(p), 1, 0) = <<>> /\ 0 < Len(Command(p))
      BY <3>1, SubSeqEmpty, CommandsDiffer
    <3>3. ASSUME NEW q \in Users
          PROVE  /\ pc'[q] = "send" => /\ k'[q] < Len(Command(q)')
                                       /\ seen' = SubSeq(Command(q)', 1, k'[q])
                 /\ pc'[q] # "poll"
      <4>1. CASE q = p
        BY <1>1, <2>3, <2>4, <3>1, <3>2, <4>1
      <4>2. CASE q # p
        BY <2>2, <2>4, <4>2
      <4> QED BY <4>1, <4>2
    <3> QED BY <1>1, <1>3, <2>3, <3>3 DEF ChipInv
  <2>12. DoneInv'
    <3>1. ASSUME NEW q \in Users
          PROVE  /\ pc'[q] \in {"send", "poll"} /\ req'[q].what = "write" =>
                      bytes_written'[q] < req'[q].count /\ Programmed(q, bytes_written[q])'
                 /\ pc'[q] # "poll"
                 /\ pc'[q] = "unlock" =>
                      /\ req'[q].what = "write" => Programmed(q, req[q].count)'
                      /\ req'[q].what \in {"erase sector", "erase chip"} => Erased(q)'
      <4>1. CASE q = p
        <5>1. write /\ ~(n < req[p].count) => n = req[p].count
          BY <2>5, <2>6
        <5>2. pc'[p] # "poll"
          BY <2>4
        <5>3. CASE write /\ n < req[p].count
          <6>1. Programmed(p, n)
            BY <2>5, <5>3
          <6>2. Programmed(p, bytes_written[p])'
            BY <1>1, <2>7, <5>3, <6>1 DEF Programmed
          <6> QED BY <1>1, <2>4, <2>7, <4>1, <5>3, <6>2
        <5>4. CASE write /\ ~(n < req[p].count)
          <6>1. Programmed(p, req[p].count)
            BY <2>5, <5>1, <5>4
          <6>2. Programmed(p, req[p].count)'
            BY <1>1, <6>1 DEF Programmed
          <6> QED BY <1>1, <2>4, <4>1, <5>4, <6>2
        <5>5. CASE ~write
          <6>1. Erased(p)'
            BY <1>1, <2>5, <5>5 DEF Erased, Target
          <6> QED BY <1>1, <2>4, <4>1, <5>5, <6>1
        <5> QED BY <5>3, <5>4, <5>5
      <4>2. CASE q # p
        BY <2>2, <2>4, <4>2
      <4> QED BY <4>1, <4>2
    <3> QED BY <3>1 DEF DoneInv
  <2> QED BY <2>8, <2>9, <2>10, <2>11, <2>12 DEF CallInv
<1> QED BY <1>2, <1>3

\* The chip is done: what it was told to do is in `flash'.
LEMMA CallDone ==
    ASSUME CallInv, ChipDone
    PROVE  CallInv'
<1>1. /\ CallTypeOK /\ OwnerInv /\ RequestInv /\ IdInv /\ ChipInv /\ DoneInv
      /\ busy /\ busy' = FALSE /\ flash' = becomes /\ becomes' = becomes /\ seen' = seen
      /\ mtx' = mtx /\ k' = k /\ got' = got /\ pc' = pc /\ bytes_written' = bytes_written
      /\ calls' = calls /\ req' = req /\ id' = id
  BY DEF CallInv, ChipDone, callVars, lockVars, localVars
<1>2. PICK p \in Users : pc[p] = "poll"
  BY <1>1 DEF ChipInv
<1>3. \A q \in Users \ {p} : pc[q] \in {"out", "lock", "copy"}
  BY <1>2, OthersOutside DEF Inside
<1>4. CallTypeOK' /\ OwnerInv' /\ RequestInv' /\ IdInv'
  BY <1>1 DEF CallTypeOK, OwnerInv, RequestInv, IdInv, Inside
<1>5. ChipInv'
  <2>1. \A q \in Users : Command(q)' = Command(q)
    BY <1>1 DEF Command
  <2> QED BY <1>1, <2>1 DEF ChipInv
<1>6. becomes = Changed(p)
  BY <1>1, <1>2 DEF ChipInv
<1>7. DoneInv'
  <2>1. /\ req[p].what = "write" => /\ bytes_written[p] < req[p].count
                                    /\ Programmed(p, bytes_written[p])
    BY <1>1, <1>2 DEF DoneInv
  <2>2. req[p].pos \in Nat /\ bytes_written[p] \in Nat
    BY <1>1, ChipTypes DEF CallTypeOK
  <2>3. ASSUME req[p].what = "write"
        PROVE  /\ Programmed(p, bytes_written[p])'
               /\ Programmed(p, bytes_written[p] + 1)'
    <3>1. Target(p) = {req[p].pos + bytes_written[p]}
      BY <2>3 DEF Target
    <3>2. \A a \in Address :
             becomes[a] = IF a # req[p].pos + bytes_written[p] THEN flash[a]
                          ELSE flash[a] \cup {id[p]}
      BY <1>6, <2>3, <3>1 DEF Changed
    <3>3. ASSUME NEW a \in Address, req[p].pos <= a, a < req[p].pos + (bytes_written[p] + 1)
          PROVE  id[p] \in becomes[a]
      <4>1. a \in Int
        BY ChipTypes DEF Address
      <4>2. a < req[p].pos + bytes_written[p] \/ a = req[p].pos + bytes_written[p]
        BY <2>2, <3>3, <4>1
      <4> QED BY <2>1, <2>3, <3>2, <3>3, <4>2 DEF Programmed
    <3>4. \A a \in Address : a < req[p].pos + bytes_written[p] =>
                                a < req[p].pos + (bytes_written[p] + 1)
      BY <2>2, ChipTypes DEF Address
    <3> QED BY <1>1, <3>3, <3>4 DEF Programmed
  <2>4. ASSUME req[p].what # "write" PROVE Erased(p)'
    <3>1. Target(p)' = Target(p) /\ Target(p) \subseteq Address
      BY <1>1, <2>4 DEF Target
    <3>2. \A a \in Target(p) : becomes[a] = {}
      BY <1>6, <2>4, <3>1 DEF Changed
    <3> QED BY <1>1, <3>1, <3>2 DEF Erased
  <2>5. ASSUME NEW q \in Users
        PROVE  /\ pc'[q] \in {"send", "poll"} /\ req'[q].what = "write" =>
                    bytes_written'[q] < req'[q].count /\ Programmed(q, bytes_written[q])'
               /\ pc'[q] = "poll" /\ ~busy' =>
                    /\ req'[q].what = "write" => Programmed(q, bytes_written[q] + 1)'
                    /\ req'[q].what # "write" => Erased(q)'
               /\ pc'[q] # "unlock"
    <3>1. CASE q = p
      BY <1>1, <1>2, <2>1, <2>3, <2>4, <3>1
    <3>2. CASE q # p
      BY <1>1, <1>3, <3>2
    <3> QED BY <3>1, <3>2
  <2> QED BY <2>5 DEF DoneInv
<1> QED BY <1>4, <1>5, <1>7 DEF CallInv

-----------------------------------------------------------------------------
(* Every step keeps the invariant.                                          *)

LEMMA InitFlash == Init => FlashInv
<1> SUFFICES ASSUME Init PROVE FlashInv
  OBVIOUS
<1>1. /\ current_proc = IDLE /\ process_ready_list = [p \in Users |-> p]
      /\ state = [p \in Pid |-> IF p = IDLE THEN "RUNNING" ELSE "READY"] /\ panicked = FALSE
      /\ mtx = mutex_init /\ dma_0_mtx = mutex_init
  BY DEF Init
<1>2. MaxPid \in Nat /\ Users = 1 .. MaxPid
  BY MaxPidAssumption DEF Users
<1>3. /\ process_ready_list \in Seq(Pid) /\ IsInjective(process_ready_list)
      /\ ToSet(process_ready_list) = Users
  <2>1. process_ready_list \in [1 .. MaxPid -> Pid]
    BY <1>1, <1>2 DEF Pid
  <2>2. process_ready_list \in Seq(Pid)
    BY <1>2, <2>1
  <2> QED BY <1>1, <1>2, <2>1, <2>2 DEF IsInjective, ToSet
<1>4. SchedTypeOK /\ SchedInv
  <2>1. SchedTypeOK
    BY <1>1, <1>3, PidTypes DEF SchedTypeOK, ProcState
  <2>2. Pid = Users \cup {IDLE}
    BY <1>2 DEF Pid, IDLE
  <2> QED BY <1>1, <1>3, <2>1, <2>2, PidTypes DEF SchedInv
<1>5. SleepInv /\ mtx \in Mutex /\ dma_0_mtx \in Mutex
  <2>1. mutex_init \in Mutex /\ mutex_init.blocked_list = <<>>
    BY DEF mutex_init, Mutex
  <2>2. ToSet(<<>>) = {} /\ IsInjective(<<>>)
    BY DEF ToSet, IsInjective
  <2> QED BY <1>1, <2>1, <2>2, PidTypes DEF SleepInv, Awake
<1>6. /\ calls = 0 /\ req = [p \in Users |-> NoRequest] /\ id = [p \in Users |-> 0]
      /\ pc = [p \in Users |-> "out"] /\ in_dma = [p \in Users |-> FALSE]
      /\ k = [p \in Users |-> 0] /\ bytes_written = [p \in Users |-> 0]
      /\ got = [p \in Users |-> {}] /\ seen = <<>> /\ busy = FALSE
      /\ flash = [a \in Address |-> {}] /\ becomes = flash
  BY DEF Init
<1>7. LockInv
  BY <1>4, <1>5, <1>6 DEF LockInv
<1>8. CallTypeOK
  <2>1. NoRequest \in [what : What, pos : Nat, count : Nat \ {0}]
    BY DEF NoRequest, What
  <2>2. /\ calls \in 0 .. MaxCalls /\ id \in [Users -> 0 .. MaxCalls]
        /\ k \in [Users -> 0 .. 5] /\ bytes_written \in [Users -> 0 .. chip_size]
    BY <1>6, ChipTypes
  <2>3. flash \in Contents /\ becomes \in Contents /\ got \in [Users -> SUBSET CallId]
    BY <1>6 DEF Contents
  <2>4. req \in [Users -> [what : What, pos : Nat, count : Nat \ {0}]]
    BY <1>6, <2>1
  <2>5. pc \in [Users -> Place] /\ busy \in BOOLEAN
    BY <1>6 DEF Place
  <2> QED BY <2>2, <2>3, <2>4, <2>5 DEF CallTypeOK
<1>9. OwnerInv
  BY <1>1, <1>6 DEF OwnerInv, Inside, mutex_init
<1>10. RequestInv
  BY <1>6 DEF RequestInv, NoRequest
<1>11. IdInv /\ ChipInv /\ DoneInv
  BY <1>6 DEF IdInv, ChipInv, DoneInv
<1> QED BY <1>7, <1>8, <1>9, <1>10, <1>11 DEF FlashInv, CallInv

\* Both mutexes keep their lists in order whatever a transfer does.
LEMMA TransferLocks ==
    ASSUME FlashInv, NEW p \in Users, DmaUnlock(p)
    PROVE  LockInv' /\ mtx'.locked = mtx.locked
<1>1. /\ LockInv /\ dma_0_mtx' = mutex_unlocked(dma_0_mtx)
      /\ process_wake_front(dma_0_mtx.blocked_list)
      /\ in_dma' = [in_dma EXCEPT ![p] = FALSE] /\ mtx' = mtx
  BY DEF FlashInv, DmaUnlock
<1>2. in_dma' \in [Users -> BOOLEAN]
  BY <1>1 DEF LockInv
<1> QED BY <1>1, <1>2, MutexWakes

LEMMA StepFlash == FlashInv /\ [Next]_vars => FlashInv'
<1> SUFFICES ASSUME FlashInv, [Next]_vars PROVE FlashInv'
  OBVIOUS
<1>1. LockInv /\ CallInv /\ mtx \in Mutex /\ dma_0_mtx \in Mutex
      /\ in_dma \in [Users -> BOOLEAN]
  BY DEF FlashInv, LockInv
<1>2. \A m \in Mutex : /\ mutex_taken(m) \in Mutex
                       /\ mutex_taken(m).blocked_list = m.blocked_list
  BY DEF mutex_taken, Mutex
<1>3. ASSUME NEW p \in Users, Lock(p) PROVE FlashInv'
  <2>1. /\ UNCHANGED schedVars /\ mtx' = mutex_taken(mtx)
        /\ dma_0_mtx' = dma_0_mtx /\ in_dma' = in_dma
    BY <1>3 DEF Lock
  <2>2. LockInv'
    BY <1>1, <1>2, <2>1, LocksKept
  <2> QED BY <1>1, <1>3, <2>2, CallEnters DEF FlashInv
<1>4. ASSUME NEW p \in Users, LockBlocks(p) PROVE FlashInv'
  <2>1. /\ p = current_proc /\ mtx' = mutex_queued(mtx, p) /\ process_block
        /\ UNCHANGED dma_0_mtx /\ UNCHANGED in_dma
        /\ UNCHANGED <<callVars, pc, localVars, chipVars>>
    BY <1>4 DEF LockBlocks, On
  <2>2. LockInv' /\ mtx'.locked = mtx.locked
    BY <1>1, <2>1, MutexBlocks
  <2> QED BY <1>1, <2>1, <2>2, CallsKept DEF FlashInv
<1>5. ASSUME NEW p \in Users, Unlock(p) PROVE FlashInv'
  <2>1. /\ mtx' = mutex_unlocked(mtx) /\ process_wake_front(mtx.blocked_list)
        /\ UNCHANGED dma_0_mtx /\ in_dma' = in_dma
    BY <1>5 DEF Unlock
  <2>2. LockInv'
    BY <1>1, <2>1, MutexWakes
  <2> QED BY <1>1, <1>5, <2>2, CallLeaves DEF FlashInv
<1>6. ASSUME NEW p \in Users, DmaLock(p) PROVE FlashInv'
  <2>1. /\ UNCHANGED schedVars /\ dma_0_mtx' = mutex_taken(dma_0_mtx) /\ mtx' = mtx
        /\ in_dma' = [in_dma EXCEPT ![p] = TRUE]
        /\ UNCHANGED <<callVars, pc, localVars, chipVars>>
    BY <1>6 DEF DmaLock
  <2>2. in_dma' \in [Users -> BOOLEAN]
    BY <1>1, <2>1
  <2>3. LockInv'
    BY <1>1, <1>2, <2>1, <2>2, LocksKept
  <2>4. mtx'.locked = mtx.locked
    BY <2>1
  <2> QED BY <1>1, <2>1, <2>3, <2>4, CallsKept DEF FlashInv
<1>7. ASSUME NEW p \in Users, DmaBlocks(p) PROVE FlashInv'
  <2>1. /\ p = current_proc /\ dma_0_mtx' = mutex_queued(dma_0_mtx, p) /\ process_block
        /\ UNCHANGED mtx /\ UNCHANGED in_dma
        /\ UNCHANGED <<callVars, pc, localVars, chipVars>>
    BY <1>7 DEF DmaBlocks
  <2>2. LockInv' /\ mtx'.locked = mtx.locked
    BY <1>1, <2>1, MutexBlocks
  <2> QED BY <1>1, <2>1, <2>2, CallsKept DEF FlashInv
<1>8. ASSUME NEW p \in Users, Send(p) \/ Poll(p) \/ Read(p) \/ Copy(p) PROVE FlashInv'
  <2>1. DmaUnlock(p)
    BY <1>8 DEF Send, Poll, Read, Copy, Transfer
  <2>2. LockInv'
    BY <2>1, TransferLocks
  <2>3. CallInv'
    BY <1>1, <1>8, CallSends, CallPolls, CallReads, CopyEnds
  <2> QED BY <2>2, <2>3 DEF FlashInv
<1>9. ASSUME NEW p \in Users, NEW r \in Requests, Call(p, r) PROVE FlashInv'
  <2>1. UNCHANGED schedVars /\ mtx' = mtx /\ dma_0_mtx' = dma_0_mtx /\ in_dma' = in_dma
    BY <1>9 DEF Call, lockVars
  <2>2. LockInv'
    BY <1>1, <2>1, LocksKept
  <2> QED BY <1>1, <1>9, <2>2, CallBegins DEF FlashInv
<1>10. CASE ChipDone
  <2>1. UNCHANGED schedVars /\ mtx' = mtx /\ dma_0_mtx' = dma_0_mtx /\ in_dma' = in_dma
    BY <1>10 DEF ChipDone, lockVars
  <2>2. LockInv'
    BY <1>1, <2>1, LocksKept
  <2> QED BY <1>1, <1>10, <2>2, CallDone DEF FlashInv
<1>11. CASE Tick
  <2>1. /\ process_tick /\ UNCHANGED <<mtx, dma_0_mtx, in_dma>>
        /\ UNCHANGED <<callVars, pc, localVars, chipVars>> /\ mtx'.locked = mtx.locked
    BY <1>11 DEF Tick, lockVars
  <2>2. LockInv'
    BY <1>1, <2>1, LocksTick
  <2> QED BY <1>1, <2>1, <2>2, CallsKept DEF FlashInv
<1>12. CASE UNCHANGED vars
  <2>1. /\ UNCHANGED schedVars /\ mtx' = mtx /\ dma_0_mtx' = dma_0_mtx /\ in_dma' = in_dma
        /\ UNCHANGED <<callVars, pc, localVars, chipVars>> /\ mtx'.locked = mtx.locked
    BY <1>12 DEF vars, lockVars
  <2>2. LockInv'
    BY <1>1, <2>1, LocksKept
  <2> QED BY <1>1, <2>1, <2>2, CallsKept DEF FlashInv
<1> QED BY <1>3, <1>4, <1>5, <1>6, <1>7, <1>8, <1>9, <1>10, <1>11, <1>12
        DEF Next, Continue

LEMMA FlashInvariance == Spec => []FlashInv
BY InitFlash, StepFlash, PTL DEF Spec

-----------------------------------------------------------------------------
(* Theorems.                                                                *)

LEMMA FlashTypes == FlashInv => TypeOK
<1> SUFFICES ASSUME FlashInv PROVE TypeOK
  OBVIOUS
<1>1. LockInv /\ CallTypeOK /\ RequestInv
  BY DEF FlashInv, CallInv
<1>2. \A p \in Users : req[p].what \in {"read", "write"} => Span(p) \subseteq Address
  <2>1. ASSUME NEW p \in Users, req[p].what \in {"read", "write"}
        PROVE  Span(p) \subseteq Address
    <3>1. /\ req[p].pos \in Nat /\ req[p].count \in Nat
          /\ req[p].pos + req[p].count <= chip_size
      BY <1>1, <2>1 DEF CallTypeOK, RequestInv
    <3> QED BY <3>1, ChipTypes DEF Span, Address
  <2> QED BY <2>1
<1>3. Place = {"out", "lock", "unlock"} \cup InTransfer
  BY DEF Place, InTransfer
<1> QED BY <1>1, <1>2, <1>3 DEF TypeOK, LockInv, CallTypeOK

\* The commands of flash_write and the erasures reach the chip whole, although
\* dev_flash.c gives up the DMA channel after each byte and any number of processes
\* wait for it: the bytes that the chip has seen of a command are those that the
\* one process inside the driver has sent.
THEOREM CommandsReachChip == Spec => []CommandsWhole
<1>1. FlashInv => CommandsWhole
  BY FlashTypes DEF FlashInv, CallInv, ChipInv, CommandsWhole
<1> QED BY <1>1, FlashInvariance, PTL

\* When a call unlocks the mutex of the flash the chip is idle, a write has
\* programmed every one of its bytes and an erasure has cleared the sector or chip:
\* nobody else can have changed the chip in the meantime.
THEOREM CallsAreDone == Spec => []DoneWhenReturned
<1>1. FlashInv => DoneWhenReturned
  <2> SUFFICES ASSUME FlashInv, NEW p \in Users, pc[p] = "unlock"
               PROVE  /\ ~busy
                      /\ req[p].what = "write" => \A a \in Span(p) : id[p] \in flash[a]
                      /\ req[p].what \in {"erase sector", "erase chip"} =>
                           \A a \in Target(p) : flash[a] = {}
    BY DEF DoneWhenReturned
  <2>1. CallInv /\ CallTypeOK /\ RequestInv /\ ChipInv /\ DoneInv
    BY DEF FlashInv, CallInv
  <2>2. ~busy
    <3>1. \A q \in Users \ {p} : pc[q] # "poll"
      BY <2>1, OthersOutside DEF Inside
    <3> QED BY <2>1, <3>1 DEF ChipInv
  <2>3. ASSUME req[p].what = "write", NEW a \in Span(p) PROVE id[p] \in flash[a]
    <3>1. /\ req[p].pos \in Nat /\ req[p].count \in Nat
          /\ req[p].pos + req[p].count <= chip_size
      BY <2>1, <2>3 DEF CallTypeOK, RequestInv
    <3>2. a \in Address /\ req[p].pos <= a /\ a < req[p].pos + req[p].count
      BY <2>3, <3>1, ChipTypes DEF Span, Address
    <3> QED BY <2>1, <2>3, <3>2 DEF DoneInv, Programmed
  <2> QED BY <2>1, <2>2, <2>3 DEF DoneInv, Erased
<1> QED BY <1>1, FlashInvariance, PTL

\* flash_read gives its caller nothing of a write that another process is in the
\* middle of, and never reads a chip that is busy and would answer with its status.
THEOREM ReadersWait == Spec => []ReadsFinishedWrites
<1>1. FlashInv => ReadsFinishedWrites
  <2> SUFFICES ASSUME FlashInv PROVE ReadsFinishedWrites
    OBVIOUS
  <2>1. CallInv /\ CallTypeOK /\ IdInv /\ ChipInv
    BY DEF FlashInv, CallInv
  <2>2. ASSUME NEW p \in Users, NEW q \in Users, pc[q] \notin {"out", "lock"}, p # q,
               id[q] \in got[p]
        PROVE  FALSE
    <3>1. pc[p] = "unlock"
      BY <2>1, <2>2 DEF IdInv
    <3>2. pc[q] = "copy"
      BY <2>1, <2>2, <3>1, OthersOutside DEF Inside
    <3> QED BY <2>1, <2>2, <3>2 DEF IdInv
  <2>3. ASSUME NEW p \in Users, pc[p] = "read", busy PROVE FALSE
    <3>1. \A q \in Users \ {p} : pc[q] # "poll"
      BY <2>1, <2>3, OthersOutside DEF Inside
    <3> QED BY <2>1, <2>3, <3>1 DEF ChipInv
  <2> QED BY <2>2, <2>3 DEF ReadsFinishedWrites
<1> QED BY <1>1, FlashInvariance, PTL
=============================================================================
