---------------------------- MODULE BlockBufProofs ----------------------------
(***************************************************************************)
(* Theorems about BlockBuf, for any number of processes and of buffers: a  *)
(* buffer has one owner, the count of the semaphore is exact and who has a *)
(* permit finds a buffer, and how many sleepers it takes to be stranded.   *)
(***************************************************************************)
EXTENDS BlockBuf, SchedulerProofs, FiniteSetTheorems

-----------------------------------------------------------------------------
(* The inductive invariant.                                                 *)

\* Where every process is, and that its state and the semaphore's list say the
\* same of it.  Nobody sleeps for the mutex of a buffer: it is only tried.
PlaceInv ==
    /\ state[IDLE] \in Awake /\ pc[IDLE] = "idle"
    /\ IsInjective(available_512.blocked_list)
    /\ \A p \in Users :
         /\ pc[p] # "idle"
         /\ state[p] \in Awake \/ (state[p] = "BLOCKED" /\ pc[p] = "wait")
         /\ p \in ToSet(available_512.blocked_list) <=> state[p] = "BLOCKED"
         /\ pc[p] = "wait" => i[p] = 0
         /\ pc[p] = "have" => i[p] \in Slot
    /\ \A s \in Slot : free_512[s].blocked_list = <<>>

\* The processes that have a permit and left the first k buffers behind.
Ahead(k) == {p \in Users : pc[p] \in {"scan", "have"} /\ i[p] >= k}

\* There are never more of them than there are buffers left to find.
AheadInv ==
    \A k \in 0 .. BLOCK_512_COUNT : Cardinality(Ahead(k)) <= BLOCK_512_COUNT - k

HoldInv == Cardinality(Holders) <= BLOCK_512_COUNT

\* Sleepers are left alone only by a count that is negative.
StrandInv ==
    /\ Holders = {}
    /\ Waiting # {}
    /\ \A p \in Waiting : state[p] = "BLOCKED"
    => available_512.count < 0

CountInv == PermitAccounting /\ HoldInv /\ AheadInv

BInv == TypeOK /\ SchedInv /\ PlaceInv /\ BlockExclusive /\ CountInv /\ StrandInv

-----------------------------------------------------------------------------
(* Counting processes.                                                      *)

LEMMA CountUsers ==
    ASSUME NEW S \in SUBSET Users
    PROVE  IsFiniteSet(S) /\ Cardinality(S) \in 0 .. MaxPid
<1>1. IsFiniteSet(Users) /\ Cardinality(Users) = MaxPid
  BY MaxPidAssumption, FS_Interval DEF Users
<1>2. IsFiniteSet(S) /\ Cardinality(S) <= Cardinality(Users)
  BY <1>1, FS_Subset
<1>3. Cardinality(S) \in Nat
  BY <1>2, FS_CardinalityType
<1> QED BY <1>1, <1>2, <1>3, MaxPidAssumption

LEMMA CountFewer ==
    ASSUME NEW S \in SUBSET Users, NEW T \in SUBSET S
    PROVE  Cardinality(T) <= Cardinality(S)
BY CountUsers, FS_Subset

Label == {"idle", "out", "wait", "scan", "have", "freed"}

\* Having a permit and waiting for one, as numbers.
Has(label) == IF label \in {"scan", "have", "freed"} THEN 1 ELSE 0
Waits(label) == IF label = "wait" THEN 1 ELSE 0

\* A process that goes from one label to another.
LEMMA GotoCounts ==
    ASSUME NEW p \in Users, NEW label, pc \in [Pid -> Label], Goto(p, label)
    PROVE  /\ Cardinality(Holders') = Cardinality(Holders) - Has(pc[p]) + Has(label)
           /\ Cardinality(Waiting') = Cardinality(Waiting) - Waits(pc[p]) + Waits(label)
<1>1. /\ Users \subseteq Pid
      /\ \A q \in Users : pc'[q] = IF q = p THEN label ELSE pc[q]
  BY MaxPidAssumption DEF Goto, Users, Pid
<1>2. /\ Holders \in SUBSET Users /\ IsFiniteSet(Holders) /\ Cardinality(Holders) \in Nat
      /\ Waiting \in SUBSET Users /\ IsFiniteSet(Waiting) /\ Cardinality(Waiting) \in Nat
  BY CountUsers DEF Holders, Waiting
<1>3. /\ p \in Holders <=> Has(pc[p]) = 1
      /\ p \in Waiting <=> Waits(pc[p]) = 1
      /\ Has(pc[p]) \in {0, 1} /\ Waits(pc[p]) \in {0, 1}
      /\ Has(label) \in {0, 1} /\ Waits(label) \in {0, 1}
  BY DEF Holders, Waiting, Has, Waits
<1>4. Holders' = IF Has(label) = 1 THEN Holders \cup {p} ELSE Holders \ {p}
  BY <1>1 DEF Holders, Has
<1>5. Waiting' = IF Waits(label) = 1 THEN Waiting \cup {p} ELSE Waiting \ {p}
  BY <1>1 DEF Waiting, Waits
<1>6. /\ Cardinality(Holders \cup {p}) =
           IF p \in Holders THEN Cardinality(Holders) ELSE Cardinality(Holders) + 1
      /\ Cardinality(Holders \ {p}) =
           IF p \in Holders THEN Cardinality(Holders) - 1 ELSE Cardinality(Holders)
      /\ Cardinality(Waiting \cup {p}) =
           IF p \in Waiting THEN Cardinality(Waiting) ELSE Cardinality(Waiting) + 1
      /\ Cardinality(Waiting \ {p}) =
           IF p \in Waiting THEN Cardinality(Waiting) - 1 ELSE Cardinality(Waiting)
  BY <1>2, FS_AddElement, FS_RemoveElement
<1>7. Cardinality(Holders') = Cardinality(Holders) - Has(pc[p]) + Has(label)
  BY <1>2, <1>3, <1>4, <1>6
<1>8. Cardinality(Waiting') = Cardinality(Waiting) - Waits(pc[p]) + Waits(label)
  BY <1>2, <1>3, <1>5, <1>6
<1> QED BY <1>7, <1>8

\* The numbers that the semaphore's count can be.
CountInRange == available_512.count \in -MaxPid .. BLOCK_512_COUNT

LEMMA CountRange == PermitAccounting => CountInRange
<1> SUFFICES ASSUME PermitAccounting PROVE CountInRange
  OBVIOUS
<1>1. /\ Holders \in SUBSET Users /\ Waiting \in SUBSET Users /\ Holders \cup Waiting \in SUBSET Users
      /\ Holders \cap Waiting = {}
  BY DEF Holders, Waiting
<1>2. /\ IsFiniteSet(Holders) /\ IsFiniteSet(Waiting)
      /\ Cardinality(Holders) \in Nat /\ Cardinality(Waiting) \in Nat
      /\ Cardinality(Holders \cup Waiting) \in 0 .. MaxPid
  BY <1>1, CountUsers
<1>3. Cardinality(Holders \cup Waiting) =
        Cardinality(Holders) + Cardinality(Waiting) - Cardinality(Holders \cap Waiting)
  BY <1>2, FS_Union
<1>4. Cardinality(Holders) + Cardinality(Waiting) <= MaxPid
  BY <1>1, <1>2, <1>3, FS_EmptySet
<1> QED BY <1>2, <1>4, MaxPidAssumption, BlockBufAssumption DEF PermitAccounting, CountInRange

LEMMA CountRangeNext == PermitAccounting' => CountInRange'
BY CountRange, PTL

-----------------------------------------------------------------------------
(* What the variables are, without SchedInv and the counts.                 *)

LEMMA Types ==
    ASSUME TypeOK
    PROVE  /\ SchedTypeOK /\ current_proc \in Pid /\ state \in [Pid -> ProcState]
           /\ available_512.count \in Int /\ available_512.blocked_list \in Seq(Users)
           /\ available_512.blocked_list \in Seq(Pid)
           /\ available_512 = [count |-> available_512.count,
                               blocked_list |-> available_512.blocked_list]
           /\ free_512 \in [Slot -> Mutex]
           /\ pc \in [Pid -> Label]
           /\ i \in [Pid -> 0 .. BLOCK_512_COUNT]
           /\ Users \subseteq Pid /\ IDLE \in Pid /\ Pid = Users \cup {IDLE} /\ IDLE \notin Users
<1>1. /\ Users \subseteq Pid /\ IDLE \in Pid /\ Pid = Users \cup {IDLE} /\ IDLE \notin Users
  BY MaxPidAssumption DEF Users, Pid, IDLE
<1>2. Seq(Users) \subseteq Seq(Pid)
  BY <1>1
<1>3. /\ available_512 \in [count : -MaxPid .. BLOCK_512_COUNT, blocked_list : Seq(Users)]
  BY DEF TypeOK
<1>4. /\ available_512.count \in Int /\ available_512.blocked_list \in Seq(Users)
      /\ available_512 = [count |-> available_512.count,
                          blocked_list |-> available_512.blocked_list]
  BY <1>3
<1> QED BY <1>1, <1>2, <1>4 DEF TypeOK, SchedTypeOK, Label

\* A step that leaves the buffers alone, and who has which, keeps them exclusive.
LEMMA SameOwners ==
    ASSUME BlockExclusive, UNCHANGED free_512,
           \A q \in Users : pc'[q] = "have" <=> pc[q] = "have",
           \A q \in Users : pc[q] = "have" => i'[q] = i[q]
    PROVE  BlockExclusive'
<1>1. \A q, r \in Users : pc'[q] = "have" /\ pc'[r] = "have" /\ i'[q] = i'[r] => q = r
  BY DEF BlockExclusive
<1>2. \A s \in Slot : free_512'[s].locked <=> \E q \in Users : pc'[q] = "have" /\ i'[q] = s
  BY DEF BlockExclusive
<1> QED BY <1>1, <1>2 DEF BlockExclusive

\* A step after which fewer are ahead of any buffer.
LEMMA FewerAhead ==
    ASSUME AheadInv, \A k \in 0 .. BLOCK_512_COUNT : Ahead(k)' \subseteq Ahead(k)
    PROVE  AheadInv'
<1>1. ASSUME NEW k \in 0 .. BLOCK_512_COUNT
      PROVE  Cardinality(Ahead(k)') <= BLOCK_512_COUNT - k
  <2>1. Cardinality(Ahead(k)) \in Nat /\ Cardinality(Ahead(k)') \in Nat
    BY CountUsers DEF Ahead
  <2>2. Cardinality(Ahead(k)') <= Cardinality(Ahead(k))
    BY CountFewer DEF Ahead
  <2> QED BY <1>1, <2>1, <2>2, BlockBufAssumption DEF AheadInv
<1> QED BY <1>1 DEF AheadInv

\* A process that got a permit starts at the first buffer.  It is one of at most
\* as many as there are buffers, and all others are where they were.
LEMMA StartsAhead ==
    ASSUME AheadInv, HoldInv', NEW p \in Users, i'[p] = 0,
           \A q \in Users \ {p} : pc'[q] = pc[q] /\ i'[q] = i[q]
    PROVE  AheadInv'
<1>1. Cardinality(Ahead(0)') <= BLOCK_512_COUNT
  <2>1. Ahead(0)' \subseteq Holders' /\ Holders' \subseteq Users
    BY DEF Ahead, Holders
  <2>2. Cardinality(Ahead(0)') <= Cardinality(Holders')
    BY <2>1, CountFewer
  <2>3. Cardinality(Ahead(0)') \in Nat /\ Cardinality(Holders') \in Nat
    BY <2>1, CountUsers
  <2> QED BY <2>2, <2>3, BlockBufAssumption DEF HoldInv
<1>2. ASSUME NEW k \in 1 .. BLOCK_512_COUNT
      PROVE  Cardinality(Ahead(k)') <= BLOCK_512_COUNT - k
  <2>1. Ahead(k)' \subseteq Ahead(k) /\ Ahead(k) \subseteq Users
    BY BlockBufAssumption DEF Ahead
  <2>2. Cardinality(Ahead(k)') <= Cardinality(Ahead(k))
    BY <2>1, CountFewer
  <2>3. Cardinality(Ahead(k)') \in Nat /\ Cardinality(Ahead(k)) \in Nat
    BY <2>1, CountUsers
  <2>4. Cardinality(Ahead(k)) <= BLOCK_512_COUNT - k /\ k \in Int
    BY BlockBufAssumption DEF AheadInv
  <2> QED BY <2>2, <2>3, <2>4, BlockBufAssumption
<1>3. ASSUME NEW k \in 0 .. BLOCK_512_COUNT
      PROVE  Cardinality(Ahead(k)') <= BLOCK_512_COUNT - k
  <2>1. CASE k = 0
    BY <1>1, <2>1, BlockBufAssumption
  <2>2. CASE k \in 1 .. BLOCK_512_COUNT
    BY <1>2, <2>2
  <2> QED BY <2>1, <2>2, BlockBufAssumption
<1> QED BY <1>3 DEF AheadInv

-----------------------------------------------------------------------------
(* Steps.                                                                   *)

LEMMA InitBuf ==
    ASSUME Init
    PROVE  BInv
<1>0. /\ Users \subseteq Pid /\ IDLE \in Pid /\ Pid = Users \cup {IDLE} /\ IDLE \notin Users
  BY MaxPidAssumption DEF Users, Pid, IDLE
<1>1. /\ process_ready_list \in Seq(Users) /\ IsInjective(process_ready_list)
      /\ ToSet(process_ready_list) = Users
  <2>1. /\ process_ready_list = [p \in 1 .. MaxPid |-> p] /\ MaxPid \in Nat
    BY MaxPidAssumption DEF Init, Users
  <2>2. /\ process_ready_list \in [1 .. MaxPid -> Users] /\ DOMAIN process_ready_list = 1 .. MaxPid
        /\ \A k \in 1 .. MaxPid : process_ready_list[k] = k
    BY <2>1 DEF Users
  <2>3. process_ready_list \in Seq(Users)
    BY <2>1, <2>2
  <2>4. IsInjective(process_ready_list)
    BY <2>2 DEF IsInjective
  <2>5. ToSet(process_ready_list) = Users
    BY <2>2 DEF ToSet, Users
  <2> QED BY <2>3, <2>4, <2>5
<1>2. /\ \A p \in Users : state[p] = "READY" /\ pc[p] = "out" /\ i[p] = 0
      /\ state[IDLE] = "RUNNING" /\ pc[IDLE] = "idle" /\ current_proc = IDLE /\ ~panicked
      /\ available_512.count = BLOCK_512_COUNT /\ available_512.blocked_list = <<>>
      /\ \A s \in Slot : free_512[s] = [locked |-> FALSE, blocked_list |-> <<>>]
  BY <1>0 DEF Init, mutex_init
<1>3. TypeOK
  <2>1. SchedTypeOK
    <3>1. process_ready_list \in Seq(Pid)
      BY <1>0, <1>1
    <3>2. state \in [Pid -> ProcState]
      BY DEF Init, ProcState
    <3> QED BY <1>0, <1>2, <3>1, <3>2 DEF Init, SchedTypeOK
  <2>2. available_512 \in [count : -MaxPid .. BLOCK_512_COUNT, blocked_list : Seq(Users)]
    <3>1. <<>> \in Seq(Users) /\ BLOCK_512_COUNT \in -MaxPid .. BLOCK_512_COUNT
      BY MaxPidAssumption, BlockBufAssumption
    <3> QED BY <3>1 DEF Init
  <2>3. free_512 \in [Slot -> Mutex]
    <3>1. mutex_init \in Mutex
      BY DEF mutex_init, Mutex
    <3> QED BY <3>1 DEF Init
  <2>4. pc \in [Pid -> {"idle", "out", "wait", "scan", "have", "freed"}]
    BY DEF Init
  <2>5. i \in [Pid -> 0 .. BLOCK_512_COUNT]
    BY BlockBufAssumption DEF Init
  <2> QED BY <2>1, <2>2, <2>3, <2>4, <2>5 DEF TypeOK
<1>4. SchedInv
  BY <1>0, <1>1, <1>2 DEF SchedInv
<1>5. PlaceInv
  <2>1. ToSet(<<>>) = {} /\ IsInjective(<<>>)
    BY DEF ToSet, IsInjective
  <2> QED BY <1>0, <1>2, <2>1 DEF PlaceInv, Awake
<1>6. BlockExclusive
  BY <1>2 DEF BlockExclusive
<1>7. Holders = {} /\ Waiting = {} /\ \A k \in 0 .. BLOCK_512_COUNT : Ahead(k) = {}
  BY <1>2 DEF Holders, Waiting, Ahead
<1>8. CountInv
  <2>1. Cardinality({}) = 0
    BY FS_EmptySet
  <2>2. PermitAccounting /\ HoldInv
    BY <1>2, <1>7, <2>1, BlockBufAssumption DEF PermitAccounting, HoldInv
  <2>3. \A k \in 0 .. BLOCK_512_COUNT : Cardinality(Ahead(k)) = 0 /\ 0 <= BLOCK_512_COUNT - k
    BY <1>7, <2>1, BlockBufAssumption
  <2>4. AheadInv
    BY <2>3 DEF AheadInv
  <2> QED BY <2>2, <2>4 DEF CountInv
<1>9. StrandInv
  BY <1>7 DEF StrandInv
<1> QED BY <1>3, <1>4, <1>5, <1>6, <1>8, <1>9 DEF BInv

\* The permit is there, or the process goes to sleep: the rest of the call of
\* block_512_alloc, and of the one that wakes up in it.
LEMMA WaitBuf ==
    ASSUME BInv, NEW p \in Users, p = current_proc, pc[p] \in {"out", "wait"},
           NEW c \in Int,
           c = BLOCK_512_COUNT - Cardinality(Holders) - Cardinality(Waiting)
                 - (1 - Waits(pc[p])),
           semaphore_wait(p, [count |-> c, blocked_list |-> available_512.blocked_list]),
           i' = [i EXCEPT ![p] = 0],
           UNCHANGED free_512
    PROVE  BInv'
<1> DEFINE list == available_512.blocked_list
<1>1. TypeOK /\ SchedInv /\ PlaceInv /\ BlockExclusive /\ PermitAccounting /\ HoldInv /\ AheadInv
  BY DEF BInv, CountInv
<1>2. /\ SchedTypeOK /\ state \in [Pid -> ProcState] /\ pc \in [Pid -> Label]
      /\ list \in Seq(Users) /\ list \in Seq(Pid)
      /\ i \in [Pid -> 0 .. BLOCK_512_COUNT] /\ free_512 \in [Slot -> Mutex]
      /\ p \in Pid /\ Users \subseteq Pid /\ IDLE \in Pid /\ p # IDLE
      /\ IDLE \notin Users
  BY <1>1, Types
<1>3. state[p] = "RUNNING" /\ p \notin ToSet(list) /\ IsInjective(list)
  BY <1>1, <1>2 DEF SchedInv, PlaceInv
<1>4. /\ Cardinality(Holders) \in Nat /\ Cardinality(Waiting) \in Nat
  BY CountUsers DEF Holders, Waiting
<1>5. /\ i' \in [Pid -> 0 .. BLOCK_512_COUNT] /\ i'[p] = 0
      /\ \A q \in Pid \ {p} : i'[q] = i[q]
  BY <1>2, BlockBufAssumption
<1>6. CASE c >= 0
  <2>1. /\ available_512' = [count |-> c, blocked_list |-> list]
        /\ Goto(p, "scan") /\ UNCHANGED schedVars
    BY <1>6 DEF semaphore_wait
  <2>2. /\ available_512'.count = c /\ available_512'.blocked_list = list
    BY <2>1
  <2>3. /\ pc' \in [Pid -> Label] /\ pc'[p] = "scan" /\ \A q \in Pid \ {p} : pc'[q] = pc[q]
    BY <1>2, <2>1 DEF Goto, Label
  <2>4. /\ Cardinality(Holders') = Cardinality(Holders) + 1
        /\ Cardinality(Waiting') = Cardinality(Waiting) - Waits(pc[p])
    <3>1. /\ Cardinality(Holders') = Cardinality(Holders) - Has(pc[p]) + Has("scan")
          /\ Cardinality(Waiting') = Cardinality(Waiting) - Waits(pc[p]) + Waits("scan")
      BY <1>2, <2>1, GotoCounts
    <3>2. Has(pc[p]) = 0 /\ Has("scan") = 1 /\ Waits("scan") = 0 /\ Waits(pc[p]) \in {0, 1}
      BY DEF Has, Waits
    <3> QED BY <1>4, <3>1, <3>2
  <2>5. PermitAccounting' /\ HoldInv'
    <3>1. Waits(pc[p]) \in {0, 1} /\ Cardinality(Waiting') \in Nat
      BY CountUsers DEF Waits, Waiting
    <3> QED BY <1>4, <1>6, <2>2, <2>4, <3>1, BlockBufAssumption DEF PermitAccounting, HoldInv
  <2>6. AheadInv'
    BY <1>1, <1>2, <1>5, <2>3, <2>5, StartsAhead
  <2>7. TypeOK'
    <3>1. available_512'.count \in -MaxPid .. BLOCK_512_COUNT
      BY <2>5, CountRangeNext DEF CountInRange
    <3>2. available_512' \in [count : -MaxPid .. BLOCK_512_COUNT, blocked_list : Seq(Users)]
      BY <1>2, <2>1, <2>2, <3>1
    <3>3. SchedTypeOK'
      BY <1>2, <2>1 DEF SchedTypeOK, schedVars
    <3> QED BY <1>2, <1>5, <2>3, <3>2, <3>3 DEF TypeOK, Label
  <2>8. SchedInv'
    BY <1>1, <2>1 DEF SchedInv, schedVars
  <2>9. PlaceInv'
    <3>1. state' = state
      BY <2>1 DEF schedVars
    <3> QED BY <1>1, <1>2, <1>3, <1>5, <2>2, <2>3, <3>1 DEF PlaceInv, Awake
  <2>10. BlockExclusive'
    BY <1>1, <1>2, <1>5, <2>3, SameOwners
  <2>11. StrandInv'
    BY <2>3 DEF StrandInv, Holders
  <2> QED BY <2>5, <2>6, <2>7, <2>8, <2>9, <2>10, <2>11 DEF BInv, CountInv
<1>7. CASE c < 0
  <2>1. /\ available_512' = [count |-> c, blocked_list |-> Append(list, p)]
        /\ Goto(p, "wait") /\ process_block
    BY <1>7 DEF semaphore_wait
  <2>2. /\ available_512'.count = c /\ available_512'.blocked_list = Append(list, p)
    BY <2>1
  <2>3. /\ pc' \in [Pid -> Label] /\ pc'[p] = "wait" /\ \A q \in Pid \ {p} : pc'[q] = pc[q]
    BY <1>2, <2>1 DEF Goto, Label
  <2>4. /\ Cardinality(Holders') = Cardinality(Holders)
        /\ Cardinality(Waiting') = Cardinality(Waiting) + (1 - Waits(pc[p]))
    <3>1. /\ Cardinality(Holders') = Cardinality(Holders) - Has(pc[p]) + Has("wait")
          /\ Cardinality(Waiting') = Cardinality(Waiting) - Waits(pc[p]) + Waits("wait")
      BY <1>2, <2>1, GotoCounts
    <3>2. Has(pc[p]) = 0 /\ Has("wait") = 0 /\ Waits("wait") = 1 /\ Waits(pc[p]) \in {0, 1}
      BY DEF Has, Waits
    <3> QED BY <1>4, <3>1, <3>2
  <2>5. PermitAccounting' /\ HoldInv'
    <3>1. Waits(pc[p]) \in {0, 1}
      BY DEF Waits
    <3>2. HoldInv'
      BY <1>1, <2>4 DEF HoldInv
    <3>3. PermitAccounting'
      BY <1>4, <2>2, <2>4, <3>1, BlockBufAssumption DEF PermitAccounting
    <3> QED BY <3>2, <3>3
  <2>6. AheadInv'
    <3>1. \A k \in 0 .. BLOCK_512_COUNT : Ahead(k)' \subseteq Ahead(k)
      BY <1>2, <1>5, <2>3 DEF Ahead
    <3> QED BY <1>1, <3>1, FewerAhead
  <2>7. /\ SchedTypeOK' /\ SchedInv' /\ state'[p] = "BLOCKED"
        /\ \A q \in Pid \ {p} :
              \/ state'[q] = state[q]
              \/ state[q] \in Awake /\ state'[q] \in Awake
    <3>1. "BLOCKED" \in ProcState \ Awake
      BY DEF ProcState, Awake
    <3>2. process_schedule(process_ready_list, [state EXCEPT ![current_proc] = "BLOCKED"])
      BY <2>1 DEF process_block
    <3>3. state[IDLE] \in Awake
      BY <1>1 DEF PlaceInv
    <3> QED BY <1>1, <1>2, <3>1, <3>2, <3>3, LeaveEffect
  <2>8. /\ Append(list, p) \in Seq(Users) /\ IsInjective(Append(list, p))
        /\ ToSet(Append(list, p)) = ToSet(list) \cup {p}
    BY <1>2, <1>3, AppendList, AppendProperties
  <2>9. TypeOK'
    <3>1. available_512'.count \in -MaxPid .. BLOCK_512_COUNT
      BY <2>5, CountRangeNext DEF CountInRange
    <3>2. available_512' \in [count : -MaxPid .. BLOCK_512_COUNT, blocked_list : Seq(Users)]
      BY <2>1, <2>2, <2>8, <3>1
    <3> QED BY <1>2, <1>5, <2>3, <2>7, <3>2 DEF TypeOK, Label
  <2>10. PlaceInv'
    <3>1. state'[IDLE] \in Awake /\ pc'[IDLE] = "idle"
      BY <1>1, <1>2, <2>3, <2>7 DEF PlaceInv
    <3>2. ASSUME NEW q \in Users
          PROVE  /\ pc'[q] # "idle"
                 /\ state'[q] \in Awake \/ (state'[q] = "BLOCKED" /\ pc'[q] = "wait")
                 /\ q \in ToSet(list) \cup {p} <=> state'[q] = "BLOCKED"
                 /\ pc'[q] = "wait" => i'[q] = 0
                 /\ pc'[q] = "have" => i'[q] \in Slot
      <4>1. CASE q = p
        BY <1>5, <2>3, <2>7, <4>1
      <4>2. CASE q # p
        BY <1>1, <1>2, <1>5, <2>3, <2>7, <3>2, <4>2 DEF PlaceInv, Awake
      <4> QED BY <4>1, <4>2
    <3> QED BY <1>1, <2>2, <2>8, <3>1, <3>2 DEF PlaceInv
  <2>11. BlockExclusive'
    BY <1>1, <1>2, <1>5, <2>3, SameOwners
  <2>12. StrandInv'
    BY <1>7, <2>2 DEF StrandInv
  <2> QED BY <2>5, <2>6, <2>7, <2>9, <2>10, <2>11, <2>12 DEF BInv, CountInv
<1> QED BY <1>6, <1>7

LEMMA AllocBuf ==
    ASSUME BInv, NEW p \in Users, Alloc(p)
    PROVE  BInv'
<1>1. /\ TypeOK /\ PermitAccounting /\ p = current_proc /\ pc[p] = "out"
      /\ semaphore_wait(p, PermitTaken(available_512))
      /\ i' = [i EXCEPT ![p] = 0] /\ UNCHANGED free_512
  BY DEF BInv, CountInv, Alloc, On
<1>2. available_512 = [count |-> available_512.count, blocked_list |-> available_512.blocked_list]
      /\ available_512.count \in Int
  BY <1>1, Types
<1>3. PermitTaken(available_512) =
        [count |-> available_512.count - 1, blocked_list |-> available_512.blocked_list]
  BY <1>2 DEF PermitTaken
<1>4. Waits(pc[p]) = 0 /\ available_512.count - 1 \in Int
  BY <1>1, <1>2 DEF Waits
<1>5. available_512.count - 1 =
        BLOCK_512_COUNT - Cardinality(Holders) - Cardinality(Waiting) - (1 - Waits(pc[p]))
  BY <1>1, <1>4 DEF PermitAccounting
<1> QED BY <1>1, <1>3, <1>4, <1>5, WaitBuf

LEMMA WokenBuf ==
    ASSUME BInv, NEW p \in Users, Woken(p)
    PROVE  BInv'
<1>1. /\ TypeOK /\ PermitAccounting /\ PlaceInv /\ p = current_proc /\ pc[p] = "wait"
      /\ semaphore_wait(p, available_512)
      /\ UNCHANGED i /\ UNCHANGED free_512
  BY DEF BInv, CountInv, Woken, On
<1>2. available_512 = [count |-> available_512.count, blocked_list |-> available_512.blocked_list]
      /\ available_512.count \in Int /\ i \in [Pid -> 0 .. BLOCK_512_COUNT] /\ p \in Pid
  BY <1>1, Types
<1>3. Waits(pc[p]) = 1 /\ i[p] = 0
  BY <1>1 DEF Waits, PlaceInv
<1>4. i' = [i EXCEPT ![p] = 0]
  BY <1>1, <1>2, <1>3
<1>5. available_512.count =
        BLOCK_512_COUNT - Cardinality(Holders) - Cardinality(Waiting) - (1 - Waits(pc[p]))
  <2>1. available_512.count - 0 = available_512.count
    BY <1>2
  <2> QED BY <1>1, <1>2, <1>3, <2>1 DEF PermitAccounting
<1> QED BY <1>1, <1>2, <1>4, <1>5, WaitBuf

\* block_512_tryalloc takes a permit as block_512_alloc does when there is one.
LEMMA TryAllocBuf ==
    ASSUME BInv, NEW p \in Users, TryAlloc(p)
    PROVE  BInv'
<1>1. /\ TypeOK /\ PermitAccounting /\ p = current_proc /\ pc[p] = "out"
      /\ available_512.count > 0
      /\ available_512' = PermitTaken(available_512)
      /\ Goto(p, "scan") /\ UNCHANGED schedVars
      /\ i' = [i EXCEPT ![p] = 0] /\ UNCHANGED free_512
  BY DEF BInv, CountInv, TryAlloc, On, semaphore_trywait, MayTake
<1> DEFINE s == [count |-> available_512.count - 1, blocked_list |-> available_512.blocked_list]
<1>2. available_512 = [count |-> available_512.count, blocked_list |-> available_512.blocked_list]
      /\ available_512.count \in Int
  BY <1>1, Types
<1>3. PermitTaken(available_512) = s /\ s.count = available_512.count - 1 /\ s.count >= 0
  BY <1>1, <1>2 DEF PermitTaken
<1>4. Waits(pc[p]) = 0 /\ available_512.count - 1 \in Int
  BY <1>1, <1>2 DEF Waits
<1>5. available_512.count - 1 =
        BLOCK_512_COUNT - Cardinality(Holders) - Cardinality(Waiting) - (1 - Waits(pc[p]))
  BY <1>1, <1>4 DEF PermitAccounting
<1>6. semaphore_wait(p, s)
  BY <1>1, <1>3 DEF semaphore_wait
<1> QED BY <1>1, <1>4, <1>5, <1>6, WaitBuf

\* What a step keeps that moves no process from a count to another.
LEMMA SameCounts ==
    ASSUME BInv, UNCHANGED available_512,
           \A q \in Users : Has(pc'[q]) = Has(pc[q]) /\ Waits(pc'[q]) = Waits(pc[q])
    PROVE  PermitAccounting' /\ HoldInv' /\ Holders' = Holders /\ Waiting' = Waiting
<1>1. Holders' = Holders /\ Waiting' = Waiting
  BY DEF Holders, Waiting, Has, Waits
<1> QED BY <1>1 DEF BInv, CountInv, PermitAccounting, HoldInv

LEMMA ScanBuf ==
    ASSUME BInv, NEW p \in Users, Scan(p)
    PROVE  BInv'
<1>1. /\ TypeOK /\ SchedInv /\ PlaceInv /\ BlockExclusive /\ HoldInv /\ AheadInv /\ StrandInv
      /\ pc[p] = "scan" /\ i[p] \in Slot
      /\ UNCHANGED schedVars /\ UNCHANGED available_512 /\ UNCHANGED state
  BY DEF BInv, CountInv, Scan, On, schedVars
<1>2. /\ SchedTypeOK /\ pc \in [Pid -> Label]
      /\ i \in [Pid -> 0 .. BLOCK_512_COUNT] /\ free_512 \in [Slot -> Mutex]
      /\ p \in Pid /\ Users \subseteq Pid /\ IDLE \in Pid /\ p # IDLE
  BY <1>1, Types
<1>3. SchedTypeOK' /\ SchedInv'
  BY <1>1, <1>2 DEF SchedTypeOK, SchedInv, schedVars
<1>4. CASE mutex_trylock(free_512[i[p]])
  <2>1. /\ ~free_512[i[p]].locked
        /\ free_512' = [free_512 EXCEPT ![i[p]] = mutex_taken(@)]
        /\ Goto(p, "have") /\ i' = i
    BY <1>4 DEF Scan, mutex_trylock
  <2>2. /\ pc' \in [Pid -> Label] /\ pc'[p] = "have" /\ \A q \in Pid \ {p} : pc'[q] = pc[q]
    BY <1>2, <2>1 DEF Goto, Label
  <2>3. /\ free_512' \in [Slot -> Mutex]
        /\ \A s \in Slot : /\ free_512'[s].blocked_list = free_512[s].blocked_list
                           /\ free_512'[s].locked <=> s = i[p] \/ free_512[s].locked
    BY <1>1, <1>2, <2>1 DEF mutex_taken, Mutex
  <2>4. TypeOK'
    BY <1>1, <1>2, <1>3, <2>1, <2>2, <2>3 DEF TypeOK, Label
  <2>5. PlaceInv'
    BY <1>1, <1>2, <2>1, <2>2, <2>3 DEF PlaceInv
  <2>6. BlockExclusive'
    <3>1. ASSUME NEW q \in Users, NEW r \in Users,
                 pc'[q] = "have", pc'[r] = "have", i'[q] = i'[r]
          PROVE  q = r
      BY <1>1, <1>2, <2>1, <2>2, <3>1 DEF BlockExclusive
    <3>2. ASSUME NEW s \in Slot
          PROVE  free_512'[s].locked <=> \E q \in Users : pc'[q] = "have" /\ i'[q] = s
      BY <1>1, <1>2, <2>1, <2>2, <2>3 DEF BlockExclusive
    <3> QED BY <3>1, <3>2 DEF BlockExclusive
  <2>7. PermitAccounting' /\ HoldInv' /\ Holders' = Holders /\ Waiting' = Waiting
    <3>1. \A q \in Users : Has(pc'[q]) = Has(pc[q]) /\ Waits(pc'[q]) = Waits(pc[q])
      BY <1>1, <1>2, <2>2 DEF Has, Waits
    <3> QED BY <1>1, <3>1, SameCounts
  <2>8. AheadInv'
    <3>1. \A k \in 0 .. BLOCK_512_COUNT : Ahead(k)' \subseteq Ahead(k)
      BY <1>1, <1>2, <2>1, <2>2 DEF Ahead
    <3> QED BY <1>1, <3>1, FewerAhead
  <2>9. StrandInv'
    BY <1>1, <2>7 DEF StrandInv
  <2> QED BY <1>3, <2>4, <2>5, <2>6, <2>7, <2>8, <2>9 DEF BInv, CountInv
<1>5. CASE ~mutex_trylock(free_512[i[p]])
  <2>1. /\ free_512[i[p]].locked
        /\ i' = [i EXCEPT ![p] = @ + 1] /\ free_512' = free_512 /\ pc' = pc
    BY <1>5 DEF Scan, mutex_trylock
  <2>2. /\ i' \in [Pid -> 0 .. BLOCK_512_COUNT] /\ i'[p] = i[p] + 1
        /\ \A q \in Pid \ {p} : i'[q] = i[q]
    BY <1>1, <1>2, <2>1, BlockBufAssumption DEF Slot
  <2>3. TypeOK'
    BY <1>1, <1>2, <1>3, <2>1, <2>2 DEF TypeOK
  <2>4. PlaceInv'
    BY <1>1, <1>2, <2>1, <2>2 DEF PlaceInv
  <2>5. BlockExclusive'
    BY <1>1, <1>2, <2>1, <2>2, SameOwners
  <2>6. PermitAccounting' /\ HoldInv' /\ Holders' = Holders /\ Waiting' = Waiting
    BY <1>1, <2>1, SameCounts
  <2>7. AheadInv'
    \* Somebody has the buffer: of those who were ahead of it, he is not ahead
    \* of the next.
    <3>1. PICK q \in Users : pc[q] = "have" /\ i[q] = i[p]
      BY <1>1, <2>1 DEF BlockExclusive
    <3>2. PICK m \in 0 .. BLOCK_512_COUNT - 1 : m = i[p]
      BY <1>1 DEF Slot
    <3>3. ASSUME NEW k \in 0 .. BLOCK_512_COUNT, k # m + 1
          PROVE  Cardinality(Ahead(k)') <= BLOCK_512_COUNT - k
      <4>1. Ahead(k)' \subseteq Ahead(k) /\ Ahead(k) \subseteq Users
        BY <1>1, <1>2, <2>1, <2>2, <3>2, <3>3, BlockBufAssumption DEF Ahead
      <4>2. Cardinality(Ahead(k)') <= Cardinality(Ahead(k))
        BY <4>1, CountFewer
      <4>3. Cardinality(Ahead(k)') \in Nat /\ Cardinality(Ahead(k)) \in Nat
        BY <4>1, CountUsers
      <4> QED BY <1>1, <4>2, <4>3, BlockBufAssumption DEF AheadInv
    <3>4. Cardinality(Ahead(m + 1)') <= BLOCK_512_COUNT - (m + 1)
      <4>1. Ahead(m) \subseteq Users /\ q \in Ahead(m)
        BY <1>2, <3>1, <3>2 DEF Ahead
      <4>2. Ahead(m + 1)' \subseteq Ahead(m) \ {q}
        <5>1. Ahead(m + 1)' = {r \in Users : pc[r] \in {"scan", "have"} /\ i'[r] >= m + 1}
          BY <2>1, <2>2 DEF Ahead
        <5>2. ASSUME NEW r \in Users, pc[r] \in {"scan", "have"}, i'[r] >= m + 1
              PROVE  r \in Ahead(m) /\ r # q
          <6>1. CASE r = p
            BY <1>1, <1>2, <3>1, <3>2, <5>2, <6>1 DEF Ahead
          <6>2. CASE r # p
            <7>1. i'[r] = i[r] /\ i[r] \in Int /\ i[q] = m /\ m \in Int /\ m + 1 \in Int
              BY <1>2, <2>2, <3>1, <3>2, <6>2, BlockBufAssumption
            <7>2. i[r] >= m /\ i[r] # i[q]
              BY <5>2, <7>1
            <7> QED BY <5>2, <7>2 DEF Ahead
          <6> QED BY <6>1, <6>2
        <5> QED BY <5>1, <5>2
      <4>3. IsFiniteSet(Ahead(m)) /\ Cardinality(Ahead(m)) \in Nat
            /\ IsFiniteSet(Ahead(m) \ {q}) /\ Cardinality(Ahead(m) \ {q}) = Cardinality(Ahead(m)) - 1
        BY <4>1, CountUsers, FS_RemoveElement
      <4>4. Cardinality(Ahead(m + 1)') <= Cardinality(Ahead(m) \ {q})
        BY <4>1, <4>2, CountFewer
      <4>5. Cardinality(Ahead(m + 1)') \in Nat
        BY <4>1, <4>2, CountUsers
      <4>6. Cardinality(Ahead(m)) <= BLOCK_512_COUNT - m
        BY <1>1, <3>2, BlockBufAssumption DEF AheadInv
      <4> QED BY <3>2, <4>3, <4>4, <4>5, <4>6, BlockBufAssumption
    <3>5. ASSUME NEW k \in 0 .. BLOCK_512_COUNT
          PROVE  Cardinality(Ahead(k)') <= BLOCK_512_COUNT - k
      <4>1. CASE k = m + 1
        BY <3>4, <4>1
      <4> QED BY <3>3, <4>1
    <3> QED BY <3>5 DEF AheadInv
  <2>8. StrandInv'
    BY <1>1, <2>6 DEF StrandInv
  <2> QED BY <1>3, <2>3, <2>4, <2>5, <2>6, <2>7, <2>8 DEF BInv, CountInv
<1> QED BY <1>4, <1>5

LEMMA FreeBuf ==
    ASSUME BInv, NEW p \in Users, Free(p)
    PROVE  BInv'
<1>1. /\ TypeOK /\ SchedInv /\ PlaceInv /\ BlockExclusive /\ HoldInv /\ AheadInv /\ StrandInv
      /\ pc[p] = "have" /\ i[p] \in Slot
      /\ process_wake_front(free_512[i[p]].blocked_list)
      /\ free_512' = [free_512 EXCEPT ![i[p]] = mutex_unlocked(@)]
      /\ Goto(p, "freed") /\ i' = i
      /\ UNCHANGED available_512
  BY DEF BInv, CountInv, PlaceInv, Free, On
<1>2. /\ SchedTypeOK /\ pc \in [Pid -> Label]
      /\ i \in [Pid -> 0 .. BLOCK_512_COUNT] /\ free_512 \in [Slot -> Mutex]
      /\ p \in Pid /\ Users \subseteq Pid /\ IDLE \in Pid /\ p # IDLE
  BY <1>1, Types
<1>3. UNCHANGED schedVars /\ UNCHANGED state
  BY <1>1 DEF PlaceInv, process_wake_front, schedVars
<1>4. SchedTypeOK' /\ SchedInv'
  BY <1>1, <1>2, <1>3 DEF SchedTypeOK, SchedInv, schedVars
<1>5. /\ pc' \in [Pid -> Label] /\ pc'[p] = "freed" /\ \A q \in Pid \ {p} : pc'[q] = pc[q]
  BY <1>1, <1>2 DEF Goto, Label
<1>6. /\ free_512' \in [Slot -> Mutex]
      /\ \A s \in Slot : /\ free_512'[s].blocked_list = <<>>
                         /\ free_512'[s].locked <=> s # i[p] /\ free_512[s].locked
  <2>1. free_512[i[p]] \in Mutex /\ free_512[i[p]].blocked_list = <<>>
    BY <1>1, <1>2 DEF PlaceInv
  <2>2. \A m \in Mutex : m.blocked_list = <<>> =>
          /\ mutex_unlocked(m) \in Mutex
          /\ mutex_unlocked(m).locked = FALSE
          /\ mutex_unlocked(m).blocked_list = <<>>
    BY DEF mutex_unlocked, p_list_pop_front, Mutex
  <2> QED BY <1>1, <1>2, <2>1, <2>2 DEF PlaceInv
<1>7. TypeOK'
  BY <1>1, <1>2, <1>4, <1>5, <1>6 DEF TypeOK, Label
<1>8. PlaceInv'
  BY <1>1, <1>2, <1>3, <1>5, <1>6 DEF PlaceInv
<1>9. BlockExclusive'
  <2>1. ASSUME NEW q \in Users, NEW r \in Users,
               pc'[q] = "have", pc'[r] = "have", i'[q] = i'[r]
        PROVE  q = r
    BY <1>1, <1>2, <1>5, <2>1 DEF BlockExclusive
  <2>2. ASSUME NEW s \in Slot
        PROVE  free_512'[s].locked <=> \E q \in Users : pc'[q] = "have" /\ i'[q] = s
    BY <1>1, <1>2, <1>5, <1>6 DEF BlockExclusive
  <2> QED BY <2>1, <2>2 DEF BlockExclusive
<1>10. PermitAccounting' /\ HoldInv' /\ Holders' = Holders /\ Waiting' = Waiting
  <2>1. \A q \in Users : Has(pc'[q]) = Has(pc[q]) /\ Waits(pc'[q]) = Waits(pc[q])
    BY <1>1, <1>2, <1>5 DEF Has, Waits
  <2> QED BY <1>1, <2>1, SameCounts
<1>11. AheadInv'
  <2>1. \A k \in 0 .. BLOCK_512_COUNT : Ahead(k)' \subseteq Ahead(k)
    BY <1>1, <1>2, <1>5 DEF Ahead
  <2> QED BY <1>1, <2>1, FewerAhead
<1>12. StrandInv'
  BY <1>1, <1>3, <1>10 DEF StrandInv
<1> QED BY <1>4, <1>7, <1>8, <1>9, <1>10, <1>11, <1>12 DEF BInv, CountInv

\* Giving a permit back makes the first sleeper ready, if there is one.  If there
\* is none, no process that waits is asleep.
LEMMA SignalBuf ==
    ASSUME BInv, NEW p \in Users, Signal(p)
    PROVE  BInv'
<1> DEFINE list == available_512.blocked_list
<1>1. /\ TypeOK /\ SchedInv /\ PlaceInv /\ BlockExclusive /\ PermitAccounting
      /\ HoldInv /\ AheadInv
      /\ p = current_proc /\ pc[p] = "freed"
      /\ available_512' = [count |-> available_512.count + 1,
                           blocked_list |-> p_list_pop_front(list)]
      /\ process_wake_front(list)
      /\ Goto(p, "out") /\ i' = [i EXCEPT ![p] = 0] /\ UNCHANGED free_512
  BY DEF BInv, CountInv, Signal, semaphore_signal, On
<1>2. /\ SchedTypeOK /\ state \in [Pid -> ProcState] /\ pc \in [Pid -> Label]
      /\ available_512.count \in Int /\ list \in Seq(Users) /\ list \in Seq(Pid)
      /\ i \in [Pid -> 0 .. BLOCK_512_COUNT] /\ free_512 \in [Slot -> Mutex]
      /\ p \in Pid /\ Users \subseteq Pid /\ IDLE \in Pid /\ p # IDLE /\ IDLE \notin Users
  BY <1>1, Types
<1>3. state[p] = "RUNNING" /\ IsInjective(list)
  BY <1>1, <1>2 DEF SchedInv, PlaceInv
<1>4. /\ Cardinality(Holders) \in Nat /\ Cardinality(Waiting) \in Nat
  BY CountUsers DEF Holders, Waiting
<1>5. /\ i' \in [Pid -> 0 .. BLOCK_512_COUNT] /\ i'[p] = 0
      /\ \A q \in Pid \ {p} : i'[q] = i[q]
  BY <1>1, <1>2, BlockBufAssumption
<1>6. /\ pc' \in [Pid -> Label] /\ pc'[p] = "out" /\ \A q \in Pid \ {p} : pc'[q] = pc[q]
  BY <1>1, <1>2 DEF Goto, Label
<1>7. /\ available_512'.count = available_512.count + 1
      /\ available_512'.blocked_list = p_list_pop_front(list)
  BY <1>1
<1>8. PermitAccounting' /\ HoldInv'
  <2>1. /\ Cardinality(Holders') = Cardinality(Holders) - Has(pc[p]) + Has("out")
        /\ Cardinality(Waiting') = Cardinality(Waiting) - Waits(pc[p]) + Waits("out")
    BY <1>1, <1>2, GotoCounts
  <2>2. Has(pc[p]) = 1 /\ Has("out") = 0 /\ Waits("out") = 0 /\ Waits(pc[p]) = 0
    BY <1>1 DEF Has, Waits
  <2>3. /\ Cardinality(Holders') = Cardinality(Holders) - 1
        /\ Cardinality(Waiting') = Cardinality(Waiting)
    BY <1>4, <2>1, <2>2
  <2> QED BY <1>1, <1>4, <1>7, <2>3, BlockBufAssumption DEF PermitAccounting, HoldInv
<1>9. AheadInv'
  <2>1. \A k \in 0 .. BLOCK_512_COUNT : Ahead(k)' \subseteq Ahead(k)
    BY <1>1, <1>2, <1>5, <1>6 DEF Ahead
  <2> QED BY <1>1, <2>1, FewerAhead
<1>10. BlockExclusive'
  BY <1>1, <1>2, <1>5, <1>6, SameOwners
<1>11. available_512'.count \in -MaxPid .. BLOCK_512_COUNT
  BY <1>8, CountRangeNext DEF CountInRange
<1>12. CASE list = <<>>
  <2>1. UNCHANGED schedVars /\ UNCHANGED state /\ available_512'.blocked_list = list
    BY <1>1, <1>7, <1>12 DEF process_wake_front, p_list_pop_front, schedVars
  <2>2. SchedTypeOK' /\ SchedInv'
    BY <1>1, <1>2, <2>1 DEF SchedTypeOK, SchedInv, schedVars
  <2>3. TypeOK'
    <3>1. available_512' \in [count : -MaxPid .. BLOCK_512_COUNT, blocked_list : Seq(Users)]
      BY <1>1, <1>2, <1>7, <1>11, <2>1
    <3> QED BY <1>1, <1>2, <1>5, <1>6, <2>2, <3>1 DEF TypeOK, Label
  <2>4. PlaceInv'
    BY <1>1, <1>2, <1>3, <1>5, <1>6, <2>1 DEF PlaceInv, Awake
  <2>5. StrandInv'
    <3>1. \A q \in Users : state'[q] # "BLOCKED"
      BY <1>1, <1>12, <2>1 DEF PlaceInv, ToSet
    <3>2. Waiting' \subseteq Users
      BY DEF Waiting
    <3> QED BY <3>1, <3>2 DEF StrandInv
  <2> QED BY <1>8, <1>9, <1>10, <2>2, <2>3, <2>4, <2>5 DEF BInv, CountInv
<1>13. CASE list # <<>>
  <2>1. PICK w \in Users : w = Head(list)
    BY <1>2, <1>13
  <2>2. /\ Tail(list) \in Seq(Users) /\ IsInjective(Tail(list))
        /\ ToSet(Tail(list)) = ToSet(list) \ {w} /\ w \in ToSet(list)
    BY <1>2, <1>3, <1>13, <2>1, TailList, HeadTailProperties
  <2>3. state[w] = "BLOCKED" /\ pc[w] = "wait" /\ w # p /\ w \in Pid
    BY <1>1, <1>2, <2>2 DEF PlaceInv, Awake
  <2>4. /\ SchedTypeOK' /\ SchedInv' /\ state' = [state EXCEPT ![w] = "READY"]
    <3>1. process_ready(w)
      BY <1>1, <1>13, <2>1 DEF process_wake_front
    <3>2. state[w] \notin Awake
      BY <2>3 DEF Awake
    <3> QED BY <1>1, <1>2, <2>3, <3>1, <3>2, ReadyEffect
  <2>5. available_512'.blocked_list = Tail(list)
    BY <1>7, <1>13 DEF p_list_pop_front
  <2>6. TypeOK'
    <3>1. available_512' \in [count : -MaxPid .. BLOCK_512_COUNT, blocked_list : Seq(Users)]
      BY <1>1, <1>7, <1>11, <2>2, <2>5
    <3> QED BY <1>1, <1>2, <1>5, <1>6, <2>4, <3>1 DEF TypeOK, Label
  <2>7. /\ state'[w] = "READY" /\ \A q \in Pid \ {w} : state'[q] = state[q]
    BY <1>2, <2>3, <2>4
  <2>8. PlaceInv'
    <3>1. state'[IDLE] \in Awake /\ pc'[IDLE] = "idle"
      BY <1>1, <1>2, <1>6, <2>1, <2>7 DEF PlaceInv
    <3>2. ASSUME NEW q \in Users
          PROVE  /\ pc'[q] # "idle"
                 /\ state'[q] \in Awake \/ (state'[q] = "BLOCKED" /\ pc'[q] = "wait")
                 /\ q \in ToSet(list) \ {w} <=> state'[q] = "BLOCKED"
                 /\ pc'[q] = "wait" => i'[q] = 0
                 /\ pc'[q] = "have" => i'[q] \in Slot
      <4>1. CASE q = w
        BY <1>1, <1>2, <1>5, <1>6, <2>3, <2>7, <4>1 DEF PlaceInv, Awake
      <4>2. CASE q = p
        BY <1>1, <1>2, <1>3, <1>5, <1>6, <2>3, <2>7, <4>2 DEF PlaceInv, Awake
      <4>3. CASE q # w /\ q # p
        BY <1>1, <1>2, <1>5, <1>6, <2>7, <4>3 DEF PlaceInv
      <4> QED BY <4>1, <4>2, <4>3
    <3> QED BY <1>1, <2>2, <2>5, <3>1, <3>2 DEF PlaceInv
  <2>9. StrandInv'
    <3>1. w \in Waiting' /\ state'[w] # "BLOCKED"
      BY <1>6, <2>1, <2>3, <2>7 DEF Waiting
    <3> QED BY <3>1 DEF StrandInv
  <2> QED BY <1>8, <1>9, <1>10, <2>4, <2>6, <2>8, <2>9 DEF BInv, CountInv
<1> QED BY <1>12, <1>13

LEMMA TickBuf ==
    ASSUME BInv, Tick
    PROVE  BInv'
<1>1. /\ TypeOK /\ SchedInv /\ PlaceInv /\ BlockExclusive /\ CountInv /\ StrandInv
      /\ process_tick /\ UNCHANGED <<bufVars, pc, i>>
  BY DEF BInv, Tick
<1>2. SchedTypeOK /\ Users \subseteq Pid /\ IDLE \in Pid
  BY <1>1, Types
<1>3. /\ SchedTypeOK' /\ SchedInv'
      /\ \A q \in Pid : \/ state'[q] = state[q]
                        \/ state[q] \in Awake /\ state'[q] \in Awake
  BY <1>1, <1>2, TickEffect
<1>4. \A q \in Pid : state'[q] = "BLOCKED" <=> state[q] = "BLOCKED"
  BY <1>3 DEF Awake
<1>5. TypeOK'
  BY <1>1, <1>3 DEF TypeOK, bufVars
<1>6. PlaceInv'
  BY <1>1, <1>2, <1>3, <1>4 DEF PlaceInv, bufVars, Awake
<1>7. BlockExclusive' /\ CountInv'
  BY <1>1 DEF BlockExclusive, CountInv, PermitAccounting, HoldInv, AheadInv, Ahead,
              Holders, Waiting, bufVars
<1>8. StrandInv'
  <2>1. Holders' = Holders /\ Waiting' = Waiting /\ Waiting \subseteq Pid
        /\ available_512' = available_512
    BY <1>1, <1>2 DEF Holders, Waiting, bufVars
  <2> QED BY <1>1, <1>4, <2>1 DEF StrandInv
<1> QED BY <1>3, <1>5, <1>6, <1>7, <1>8 DEF BInv

LEMMA StutterBuf ==
    ASSUME BInv, UNCHANGED vars
    PROVE  BInv'
<1>1. /\ UNCHANGED schedVars /\ current_proc' = current_proc
      /\ process_ready_list' = process_ready_list /\ state' = state /\ panicked' = panicked
      /\ available_512' = available_512 /\ free_512' = free_512 /\ pc' = pc /\ i' = i
  BY DEF vars, schedVars, bufVars
<1>2. TypeOK' /\ SchedInv' /\ PlaceInv'
  BY <1>1 DEF BInv, TypeOK, SchedTypeOK, SchedInv, PlaceInv
<1>3. BlockExclusive' /\ CountInv' /\ StrandInv'
  BY <1>1 DEF BInv, BlockExclusive, CountInv, PermitAccounting, HoldInv, AheadInv, Ahead,
              StrandInv, Holders, Waiting
<1> QED BY <1>2, <1>3 DEF BInv

LEMMA StepBuf == BInv /\ [Next]_vars => BInv'
<1> SUFFICES ASSUME BInv, [Next]_vars PROVE BInv'
  OBVIOUS
<1>1. ASSUME NEW p \in Users, Step(p) PROVE BInv'
  BY <1>1, AllocBuf, WokenBuf, TryAllocBuf, ScanBuf, FreeBuf, SignalBuf DEF Step
<1>2. CASE Tick
  BY <1>2, TickBuf
<1>3. CASE UNCHANGED vars
  BY <1>3, StutterBuf
<1> QED BY <1>1, <1>2, <1>3 DEF Next

LEMMA BufInvariance == Spec => []BInv
<1>1. Init => BInv
  BY InitBuf
<1> QED BY <1>1, StepBuf, PTL DEF Spec

-----------------------------------------------------------------------------
(* Theorems.                                                                *)

\* A buffer of block_buf.c has one owner at a time and its mutex is locked
\* exactly while somebody has it, for any number of processes that take and free
\* buffers around each other's scans.
THEOREM OneOwner == Spec => []BlockExclusive
<1>1. BInv => BlockExclusive
  BY DEF BInv
<1> QED BY <1>1, BufInvariance, PTL

\* The semaphore's count is exact and the scan of block_512_alloc and
\* block_512_tryalloc ends at a buffer: the panic() behind it is dead code.  Of
\* the processes that look for a buffer or have one, at most as many are past the
\* first k buffers as there are buffers from k on, so nobody is past the last.
THEOREM PermitsAreExact == Spec => []PermitFindsBlock
<1>1. BInv => PermitFindsBlock
  <2> SUFFICES ASSUME BInv PROVE PermitFindsBlock
    OBVIOUS
  <2>1. TypeOK /\ SchedInv /\ PermitAccounting /\ AheadInv
    BY DEF BInv, CountInv
  <2>2. i \in [Pid -> 0 .. BLOCK_512_COUNT] /\ Users \subseteq Pid
    BY <2>1, Types
  <2>3. Ahead(BLOCK_512_COUNT) = {}
    <3>1. Cardinality(Ahead(BLOCK_512_COUNT)) <= BLOCK_512_COUNT - BLOCK_512_COUNT
      BY <2>1, BlockBufAssumption DEF AheadInv
    <3>2. /\ IsFiniteSet(Ahead(BLOCK_512_COUNT))
          /\ Cardinality(Ahead(BLOCK_512_COUNT)) \in Nat
      BY CountUsers DEF Ahead
    <3>3. Cardinality(Ahead(BLOCK_512_COUNT)) = 0
      BY <3>1, <3>2, BlockBufAssumption
    <3> QED BY <3>2, <3>3, FS_EmptySet
  <2>4. ~ScanPanics
    <3> SUFFICES ASSUME NEW p \in Users, pc[p] = "scan", i[p] \notin Slot PROVE FALSE
      BY DEF ScanPanics, On
    <3>1. i[p] >= BLOCK_512_COUNT
      BY <2>2, BlockBufAssumption DEF Slot
    <3> QED BY <2>3, <3>1 DEF Ahead
  <2> QED BY <2>1, <2>4 DEF PermitFindsBlock, SchedInv
<1> QED BY <1>1, BufInvariance, PTL

\* Sleepers of block_512_alloc that nobody is left to wake, while all buffers are
\* free, are more than there are buffers: the last process that gives a permit
\* back wakes one of them unless none sleeps, and one that goes back to sleep saw
\* a negative count.
THEOREM StrandingTakesMany == Spec => []StrandedOnlyTogether
<1>1. BInv => StrandedOnlyTogether
  <2> SUFFICES ASSUME BInv, Holders = {}, Waiting # {},
                      \A p \in Waiting : state[p] = "BLOCKED"
               PROVE  Cardinality(Waiting) > BLOCK_512_COUNT
    BY DEF StrandedOnlyTogether
  <2>1. available_512.count < 0 /\ PermitAccounting
    BY DEF BInv, StrandInv, CountInv
  <2>2. Cardinality(Holders) = 0 /\ Cardinality(Waiting) \in Nat
    BY FS_EmptySet, CountUsers DEF Waiting
  <2> QED BY <2>1, <2>2, BlockBufAssumption DEF PermitAccounting
<1> QED BY <1>1, BufInvariance, PTL
=============================================================================
