---------------------------- MODULE SchedulerProofs ----------------------------
(***************************************************************************)
(* Lemmas about lists of processes and about the operators of Scheduler:   *)
(* what each does to the lists and to the states of the processes, for the *)
(* proofs about the modules that are built on it.                          *)
(***************************************************************************)
EXTENDS Scheduler, SequenceTheorems, TLAPS

(* Lists on which nothing is twice, and the sets of what is on them.        *)

LEMMA ToSetType ==
    ASSUME NEW S, NEW s \in Seq(S)
    PROVE  /\ ToSet(s) \subseteq S
           /\ \A i \in DOMAIN s : s[i] \in ToSet(s)
           /\ s = <<>> <=> ToSet(s) = {}
<1>1. s \in [1 .. Len(s) -> S] /\ DOMAIN s = 1 .. Len(s) /\ Len(s) \in Nat
  BY LenProperties
<1>2. s # <<>> => 1 \in DOMAIN s
  BY <1>1, EmptySeq
<1>3. s = <<>> => DOMAIN s = {}
  BY <1>1, EmptySeq
<1> QED BY <1>1, <1>2, <1>3 DEF ToSet

\* An element joins the back of a list that it is not on.
LEMMA AppendList ==
    ASSUME NEW S, NEW s \in Seq(S), NEW e \in S
    PROVE  /\ ToSet(Append(s, e)) = ToSet(s) \cup {e}
           /\ IsInjective(s) /\ e \notin ToSet(s) => IsInjective(Append(s, e))
<1> DEFINE t == Append(s, e)
<1>1. /\ DOMAIN s = 1 .. Len(s) /\ Len(s) \in Nat
      /\ DOMAIN t = 1 .. Len(s) + 1
      /\ \A i \in 1 .. Len(s) : t[i] = s[i]
      /\ t[Len(s) + 1] = e
  BY LenProperties, AppendProperties
<1> HIDE DEF t
<1>2. ToSet(t) = ToSet(s) \cup {e}
  BY <1>1 DEF ToSet
<1>3. ASSUME IsInjective(s), e \notin ToSet(s) PROVE IsInjective(t)
  BY <1>1, <1>3 DEF IsInjective, ToSet
<1> QED BY <1>2, <1>3 DEF t

LEMMA RemoveAtList ==
    ASSUME NEW S, NEW s \in Seq(S), NEW i \in DOMAIN s
    PROVE  /\ RemoveAt(s, i) \in Seq(S)
           /\ IsInjective(s) => /\ ToSet(RemoveAt(s, i)) = ToSet(s) \ {s[i]}
                                /\ IsInjective(RemoveAt(s, i))
<1> DEFINE t == RemoveAt(s, i)
<1>1. i \in 1 .. Len(s) /\ Len(s) \in Nat /\ DOMAIN s = 1 .. Len(s)
      /\ \A k \in 1 .. Len(s) : s[k] \in S
  BY LenProperties, ElementOfSeq
<1>2. /\ SubSeq(s, 1, i - 1) \in Seq(S) /\ Len(SubSeq(s, 1, i - 1)) = i - 1
      /\ \A k \in 1 .. i - 1 : SubSeq(s, 1, i - 1)[k] = s[k]
  <2>1. 1 \in Int /\ i - 1 \in Int /\ \A k \in 1 .. i - 1 : s[k] \in S
    BY <1>1
  <2> QED BY <1>1, <2>1, SubSeqProperties
<1>3. /\ SubSeq(s, i + 1, Len(s)) \in Seq(S) /\ Len(SubSeq(s, i + 1, Len(s))) = Len(s) - i
      /\ \A k \in 1 .. Len(s) - i : SubSeq(s, i + 1, Len(s))[k] = s[i + k]
  <2>1. i + 1 \in Int /\ Len(s) \in Int /\ \A k \in i + 1 .. Len(s) : s[k] \in S
    BY <1>1
  <2>2. /\ SubSeq(s, i + 1, Len(s)) \in Seq(S)
        /\ Len(SubSeq(s, i + 1, Len(s))) = IF i + 1 <= Len(s) THEN Len(s) - (i + 1) + 1 ELSE 0
        /\ \A k \in 1 .. Len(s) - (i + 1) + 1 : SubSeq(s, i + 1, Len(s))[k] = s[i + 1 + k - 1]
    BY <2>1, SubSeqProperties
  <2>3. i + 1 <= Len(s) \/ i = Len(s)
    BY <1>1
  <2>4. Len(SubSeq(s, i + 1, Len(s))) = Len(s) - i
    <3>1. (i + 1 <= Len(s) => Len(s) - (i + 1) + 1 = Len(s) - i)
          /\ (~(i + 1 <= Len(s)) => 0 = Len(s) - i)
      BY <1>1, <2>3
    <3> QED BY <2>2, <3>1
  <2>5. ASSUME NEW k \in 1 .. Len(s) - i PROVE SubSeq(s, i + 1, Len(s))[k] = s[i + k]
    <3>1. k \in 1 .. Len(s) - (i + 1) + 1 /\ i + 1 + k - 1 = i + k
      BY <1>1
    <3> QED BY <2>2, <3>1
  <2> QED BY <2>2, <2>4, <2>5
<1>4. /\ t \in Seq(S) /\ Len(t) = Len(s) - 1
      /\ \A k \in 1 .. Len(s) - 1 : t[k] = IF k < i THEN s[k] ELSE s[k + 1]
  <2>1. /\ t \in Seq(S) /\ Len(t) = i - 1 + (Len(s) - i)
        /\ \A k \in 1 .. i - 1 + (Len(s) - i) :
              t[k] = IF k <= i - 1 THEN SubSeq(s, 1, i - 1)[k]
                     ELSE SubSeq(s, i + 1, Len(s))[k - (i - 1)]
    <3> DEFINE u == SubSeq(s, 1, i - 1)
               v == SubSeq(s, i + 1, Len(s))
    <3>1. /\ u \in Seq(S) /\ v \in Seq(S) /\ t = u \o v
          /\ Len(u) = i - 1 /\ Len(v) = Len(s) - i
      BY <1>2, <1>3 DEF RemoveAt
    <3> HIDE DEF u, v, t
    <3>2. /\ t \in Seq(S) /\ Len(t) = i - 1 + (Len(s) - i)
          /\ \A k \in 1 .. i - 1 + (Len(s) - i) :
                t[k] = IF k <= i - 1 THEN u[k] ELSE v[k - (i - 1)]
      BY <3>1, ConcatProperties
    <3> QED BY <3>2 DEF u, v
  <2>2. \A k \in 1 .. Len(s) - 1 : k < i => t[k] = s[k]
    BY <1>1, <1>2, <2>1
  <2>3. ASSUME NEW k \in 1 .. Len(s) - 1, k >= i PROVE t[k] = s[k + 1]
    <3>1. k - (i - 1) \in 1 .. Len(s) - i /\ i + (k - (i - 1)) = k + 1
      BY <1>1, <2>3
    <3>2. k \in 1 .. i - 1 + (Len(s) - i) /\ ~(k <= i - 1)
      BY <1>1, <2>3
    <3>3. t[k] = SubSeq(s, i + 1, Len(s))[k - (i - 1)]
      BY <2>1, <3>2
    <3> HIDE DEF t
    <3> QED BY <1>3, <3>1, <3>3
  <2>4. i - 1 + (Len(s) - i) = Len(s) - 1
    BY <1>1
  <2>5. \A k \in 1 .. Len(s) - 1 : t[k] = IF k < i THEN s[k] ELSE s[k + 1]
    BY <1>1, <2>2, <2>3
  <2> HIDE DEF t
  <2> QED BY <2>1, <2>4, <2>5
<1>5. DOMAIN t = 1 .. Len(s) - 1
  BY <1>4, LenProperties
<1>6. ASSUME IsInjective(s)
      PROVE  ToSet(t) = ToSet(s) \ {s[i]} /\ IsInjective(t)
  <2> HIDE DEF t
  <2>1. \A j, k \in 1 .. Len(s) : s[j] = s[k] => j = k
    BY <1>1, <1>6 DEF IsInjective
  <2>2. ASSUME NEW k \in 1 .. Len(s) - 1
        PROVE  t[k] \in ToSet(s) \ {s[i]}
    <3>1. CASE k < i
      BY <1>1, <1>4, <2>1, <3>1 DEF ToSet
    <3>2. CASE k >= i
      BY <1>1, <1>4, <2>1, <3>2 DEF ToSet
    <3> QED BY <1>1, <3>1, <3>2
  <2>3. ASSUME NEW k \in 1 .. Len(s), k # i
        PROVE  s[k] \in ToSet(t)
    <3>1. CASE k < i
      <4>1. k \in 1 .. Len(s) - 1 /\ t[k] = s[k]
        BY <1>1, <1>4, <3>1
      <4> QED BY <4>1, <1>5 DEF ToSet
    <3>2. CASE k > i
      <4>1. k - 1 \in 1 .. Len(s) - 1 /\ t[k - 1] = s[k]
        BY <1>1, <1>4, <3>2
      <4> QED BY <4>1, <1>5 DEF ToSet
    <3> QED BY <1>1, <2>3, <3>1, <3>2
  <2>4. ToSet(t) = ToSet(s) \ {s[i]}
    BY <1>1, <1>5, <2>2, <2>3 DEF ToSet
  <2>5. IsInjective(t)
    BY <1>1, <1>4, <1>5, <2>1 DEF IsInjective
  <2> QED BY <2>4, <2>5
<1> QED BY <1>4, <1>6 DEF t

\* The front leaves a list.
LEMMA TailList ==
    ASSUME NEW S, NEW s \in Seq(S), s # <<>>
    PROVE  /\ Head(s) \in ToSet(s) /\ Tail(s) \in Seq(S)
           /\ IsInjective(s) => /\ ToSet(Tail(s)) = ToSet(s) \ {Head(s)}
                                /\ IsInjective(Tail(s))
<1>1. /\ Len(s) \in Nat \ {0} /\ DOMAIN s = 1 .. Len(s)
      /\ Head(s) = s[1] /\ Tail(s) \in Seq(S)
      /\ DOMAIN Tail(s) = 1 .. Len(s) - 1
      /\ \A k \in 1 .. Len(s) - 1 : Tail(s)[k] = s[k + 1]
  BY EmptySeq, LenProperties, HeadTailProperties
<1> DEFINE t == Tail(s)
<1>2. \A k \in 1 .. Len(s) - 1 : k + 1 \in 1 .. Len(s) /\ t[k] = s[k + 1]
  BY <1>1
<1>3. \A k \in 2 .. Len(s) : k - 1 \in 1 .. Len(s) - 1 /\ s[k] = t[k - 1]
  BY <1>1
<1>4. DOMAIN t = 1 .. Len(s) - 1
  BY <1>1
<1> HIDE DEF t
<1>5. ASSUME IsInjective(s) PROVE ToSet(t) = ToSet(s) \ {s[1]}
  <2>1. \A k \in 1 .. Len(s) : k # 1 => k \in 2 .. Len(s) /\ s[k] # s[1]
    BY <1>1, <1>5 DEF IsInjective
  <2>2. \A k \in 1 .. Len(s) - 1 : t[k] \in ToSet(s) \ {s[1]}
    BY <1>1, <1>2, <2>1 DEF ToSet
  <2>3. \A k \in 1 .. Len(s) : s[k] # s[1] => s[k] \in ToSet(t)
    BY <1>3, <1>4, <2>1 DEF ToSet
  <2> QED BY <1>1, <1>4, <2>2, <2>3 DEF ToSet
<1>6. IsInjective(s) => IsInjective(t)
  BY <1>1, <1>2, <1>4 DEF IsInjective
<1>7. s[1] \in ToSet(s)
  BY <1>1 DEF ToSet
<1> QED BY <1>1, <1>5, <1>6, <1>7 DEF t

\* Two lists with nothing in common, one behind the other.
LEMMA ConcatList ==
    ASSUME NEW S, NEW s \in Seq(S), NEW t \in Seq(S)
    PROVE  /\ ToSet(s \o t) = ToSet(s) \cup ToSet(t)
           /\ IsInjective(s) /\ IsInjective(t) /\ ToSet(s) \cap ToSet(t) = {} =>
                IsInjective(s \o t)
<1> DEFINE u == s \o t
<1>1. /\ Len(s) \in Nat /\ Len(t) \in Nat
      /\ DOMAIN s = 1 .. Len(s) /\ DOMAIN t = 1 .. Len(t)
      /\ DOMAIN u = 1 .. Len(s) + Len(t)
      /\ \A k \in 1 .. Len(s) + Len(t) : u[k] = IF k <= Len(s) THEN s[k] ELSE t[k - Len(s)]
  BY LenProperties, ConcatProperties
<1> HIDE DEF u
<1>2. \A k \in 1 .. Len(s) : k \in 1 .. Len(s) + Len(t) /\ u[k] = s[k]
  BY <1>1
<1>3. \A k \in 1 .. Len(t) : k + Len(s) \in 1 .. Len(s) + Len(t) /\ u[k + Len(s)] = t[k]
  BY <1>1
<1>4. \A k \in 1 .. Len(s) + Len(t) : k > Len(s) => k - Len(s) \in 1 .. Len(t) /\ u[k] = t[k - Len(s)]
  BY <1>1
<1>5. ToSet(u) = ToSet(s) \cup ToSet(t)
  <2>1. ASSUME NEW e \in ToSet(s) PROVE e \in ToSet(u)
    BY <1>1, <1>2 DEF ToSet
  <2>3. ASSUME NEW e \in ToSet(t) PROVE e \in ToSet(u)
    BY <1>1, <1>3 DEF ToSet
  <2>2. \A k \in 1 .. Len(s) + Len(t) : u[k] \in ToSet(s) \cup ToSet(t)
    BY <1>1, <1>2, <1>4 DEF ToSet
  <2> QED BY <1>1, <2>1, <2>2, <2>3 DEF ToSet
<1>6. ASSUME IsInjective(s), IsInjective(t), ToSet(s) \cap ToSet(t) = {}
      PROVE  IsInjective(u)
  <2>1. \A j, k \in 1 .. Len(s) : s[j] = s[k] => j = k
    BY <1>1, <1>6 DEF IsInjective
  <2>2. \A j, k \in 1 .. Len(t) : t[j] = t[k] => j = k
    BY <1>1, <1>6 DEF IsInjective
  <2>3. \A j \in 1 .. Len(s), k \in 1 .. Len(t) : s[j] # t[k]
    BY <1>1, <1>6 DEF ToSet
  <2>4. ASSUME NEW j \in 1 .. Len(s) + Len(t), NEW k \in 1 .. Len(s) + Len(t), u[j] = u[k]
        PROVE  j = k
    <3>1. CASE j <= Len(s) /\ k <= Len(s)
      BY <1>1, <2>1, <2>4, <3>1
    <3>2. CASE j > Len(s) /\ k > Len(s)
      BY <1>1, <1>4, <2>2, <2>4, <3>2
    <3>3. CASE (j <= Len(s) /\ k > Len(s)) \/ (j > Len(s) /\ k <= Len(s))
      BY <1>1, <1>4, <2>3, <2>4, <3>3
    <3> QED BY <1>1, <3>1, <3>2, <3>3
  <2> QED BY <1>1, <2>4 DEF IsInjective
<1> QED BY <1>5, <1>6 DEF u

LEMMA IdleLastList ==
    ASSUME NEW ready \in Seq(Pid), ready # <<>>, IsInjective(ready)
    PROVE  /\ IdleLast(ready) \in Seq(Pid) /\ IdleLast(ready) # <<>>
           /\ ToSet(IdleLast(ready)) = ToSet(ready)
           /\ IsInjective(IdleLast(ready))
<1>1. CASE Head(ready) = IDLE /\ Tail(ready) # <<>>
  <2>1. /\ IDLE \in Pid /\ IDLE \in ToSet(ready) /\ Tail(ready) \in Seq(Pid)
        /\ ToSet(Tail(ready)) = ToSet(ready) \ {IDLE} /\ IsInjective(Tail(ready))
    BY <1>1, TailList, HeadTailProperties
  <2>2. /\ Append(Tail(ready), IDLE) \in Seq(Pid) /\ Append(Tail(ready), IDLE) # <<>>
        /\ ToSet(Append(Tail(ready), IDLE)) = (ToSet(ready) \ {IDLE}) \cup {IDLE}
        /\ IsInjective(Append(Tail(ready), IDLE))
    <3>1. IDLE \notin ToSet(Tail(ready))
      BY <2>1
    <3> DEFINE rest == Tail(ready)
    <3>2. rest \in Seq(Pid) /\ IsInjective(rest) /\ IDLE \notin ToSet(rest)
          /\ ToSet(rest) = ToSet(ready) \ {IDLE}
      BY <2>1, <3>1
    <3> HIDE DEF rest
    <3>3. /\ Append(rest, IDLE) \in Seq(Pid) /\ Append(rest, IDLE) # <<>>
          /\ ToSet(Append(rest, IDLE)) = ToSet(rest) \cup {IDLE}
          /\ IsInjective(Append(rest, IDLE))
      BY <2>1, <3>2, AppendList, AppendProperties
    <3> QED BY <3>2, <3>3 DEF rest
  <2> QED BY <1>1, <2>1, <2>2 DEF IdleLast
<1>2. CASE ~(Head(ready) = IDLE /\ Tail(ready) # <<>>)
  BY <1>2 DEF IdleLast
<1> QED BY <1>1, <1>2

-----------------------------------------------------------------------------
(* The scheduler.  Its invariant: the processes that are READY are those on  *)
(* the ready list, once each, and the one that is RUNNING is the current one. *)

Awake == {"READY", "RUNNING"}

SchedInv ==
    /\ ~panicked
    /\ IsInjective(process_ready_list)
    /\ \A p \in Pid : state[p] = "READY" <=> p \in ToSet(process_ready_list)
    /\ \A p \in Pid : state[p] = "RUNNING" <=> p = current_proc

LEMMA ScheduleEffect ==
    ASSUME NEW ready \in Seq(Pid), ready # <<>>, IsInjective(ready),
           NEW st \in [Pid -> ProcState],
           \A p \in Pid : st[p] = "READY" <=> p \in ToSet(ready),
           \A p \in Pid : st[p] # "RUNNING",
           SchedTypeOK, ~panicked, process_schedule(ready, st)
    PROVE  /\ SchedTypeOK' /\ SchedInv'
           /\ current_proc' \in Pid /\ st[current_proc'] = "READY"
           /\ state' = [st EXCEPT ![current_proc'] = "RUNNING"]
<1> DEFINE list == IdleLast(ready)
<1>1. list \in Seq(Pid) /\ list # <<>> /\ ToSet(list) = ToSet(ready) /\ IsInjective(list)
  BY IdleLastList
<1>2. /\ current_proc' = Head(list) /\ process_ready_list' = Tail(list)
      /\ state' = [st EXCEPT ![Head(list)] = "RUNNING"] /\ panicked' = panicked
  BY DEF process_schedule, process_switch
<1> HIDE DEF list
<1>3. /\ Head(list) \in Pid /\ Head(list) \in ToSet(list)
      /\ Tail(list) \in Seq(Pid) /\ IsInjective(Tail(list))
      /\ ToSet(Tail(list)) = ToSet(list) \ {Head(list)}
  BY <1>1, TailList, HeadTailProperties
<1>4. state' \in [Pid -> ProcState]
  BY <1>2 DEF ProcState
<1>5. SchedTypeOK'
  BY <1>2, <1>3, <1>4 DEF SchedTypeOK
<1>6. \A p \in Pid : state'[p] = IF p = Head(list) THEN "RUNNING" ELSE st[p]
  BY <1>2, <1>3
<1>7. SchedInv'
  BY <1>1, <1>2, <1>3, <1>6 DEF SchedInv
<1> QED BY <1>1, <1>2, <1>3, <1>5, <1>7

\* The timer interrupt: the processes that are awake stay awake.
LEMMA TickEffect ==
    ASSUME SchedTypeOK, SchedInv, process_tick
    PROVE  /\ SchedTypeOK' /\ SchedInv'
           /\ \A p \in Pid : \/ state'[p] = state[p]
                             \/ state[p] \in Awake /\ state'[p] \in Awake
<1> DEFINE ready == Append(process_ready_list, current_proc)
           st    == [state EXCEPT ![current_proc] = "READY"]
<1>1. /\ process_ready_list \in Seq(Pid) /\ current_proc \in Pid
      /\ current_proc \notin ToSet(process_ready_list)
      /\ state \in [Pid -> ProcState] /\ ~panicked
  BY DEF SchedTypeOK, SchedInv
<1>2. /\ ready \in Seq(Pid) /\ ready # <<>> /\ IsInjective(ready)
      /\ ToSet(ready) = ToSet(process_ready_list) \cup {current_proc}
  BY <1>1, AppendList, AppendProperties DEF SchedInv
<1>3. /\ st \in [Pid -> ProcState]
      /\ \A p \in Pid : st[p] = IF p = current_proc THEN "READY" ELSE state[p]
  BY <1>1 DEF ProcState
<1>4. process_schedule(ready, st)
  BY DEF process_tick
<1> HIDE DEF ready, st
<1>5. /\ \A p \in Pid : st[p] = "READY" <=> p \in ToSet(ready)
      /\ \A p \in Pid : st[p] # "RUNNING"
  BY <1>2, <1>3 DEF SchedInv
<1>6. /\ SchedTypeOK' /\ SchedInv'
      /\ current_proc' \in Pid /\ st[current_proc'] = "READY"
      /\ state' = [st EXCEPT ![current_proc'] = "RUNNING"]
  BY <1>1, <1>2, <1>3, <1>4, <1>5, ScheduleEffect
<1>7. \A p \in Pid :
         \/ state'[p] = state[p]
         \/ state[p] \in Awake /\ state'[p] \in Awake
  BY <1>1, <1>3, <1>6 DEF Awake, SchedInv
<1> QED BY <1>6, <1>7

\* The current process gives up the CPU for a state it is not awake in.  It is
\* not the idle process, which is on the ready list then.
LEMMA LeaveEffect ==
    ASSUME SchedTypeOK, SchedInv, state[IDLE] \in Awake, current_proc # IDLE,
           NEW s \in ProcState \ Awake,
           process_schedule(process_ready_list, [state EXCEPT ![current_proc] = s])
    PROVE  /\ SchedTypeOK' /\ SchedInv'
           /\ state'[current_proc] = s
           /\ \A p \in Pid \ {current_proc} :
                 \/ state'[p] = state[p]
                 \/ state[p] \in Awake /\ state'[p] \in Awake
<1> DEFINE st == [state EXCEPT ![current_proc] = s]
<1>1. /\ process_ready_list \in Seq(Pid) /\ current_proc \in Pid
      /\ IsInjective(process_ready_list)
      /\ state \in [Pid -> ProcState] /\ ~panicked
  BY DEF SchedTypeOK, SchedInv
<1>2. IDLE \in Pid
  BY MaxPidAssumption DEF IDLE, Pid
<1>3. process_ready_list # <<>>
  BY <1>1, <1>2, ToSetType DEF SchedInv, Awake
<1>4. /\ st \in [Pid -> ProcState]
      /\ \A p \in Pid : st[p] = IF p = current_proc THEN s ELSE state[p]
  BY <1>1
<1>5. process_schedule(process_ready_list, st)
  OBVIOUS
<1> HIDE DEF st
<1>6. /\ \A p \in Pid : st[p] = "READY" <=> p \in ToSet(process_ready_list)
      /\ \A p \in Pid : st[p] # "RUNNING"
  BY <1>4 DEF SchedInv, Awake
<1>7. /\ SchedTypeOK' /\ SchedInv'
      /\ current_proc' \in Pid /\ st[current_proc'] = "READY"
      /\ state' = [st EXCEPT ![current_proc'] = "RUNNING"]
  BY <1>1, <1>3, <1>4, <1>5, <1>6, ScheduleEffect
<1>8. state'[current_proc] = s
  BY <1>1, <1>4, <1>7 DEF Awake
<1>9. \A p \in Pid \ {current_proc} :
         \/ state'[p] = state[p]
         \/ state[p] \in Awake /\ state'[p] \in Awake
  BY <1>1, <1>4, <1>7 DEF Awake
<1> QED BY <1>7, <1>8, <1>9

\* A process that was not awake joins the back of the ready list.
LEMMA ReadyEffect ==
    ASSUME SchedTypeOK, SchedInv, NEW p \in Pid, state[p] \notin Awake, process_ready(p)
    PROVE  /\ SchedTypeOK' /\ SchedInv'
           /\ current_proc' = current_proc
           /\ state' = [state EXCEPT ![p] = "READY"]
<1>1. /\ process_ready_list \in Seq(Pid) /\ p \notin ToSet(process_ready_list)
      /\ state \in [Pid -> ProcState] /\ IsInjective(process_ready_list)
  BY DEF SchedTypeOK, SchedInv, Awake
<1>2. /\ process_ready_list' = Append(process_ready_list, p)
      /\ state' = [state EXCEPT ![p] = "READY"]
      /\ current_proc' = current_proc /\ panicked' = panicked
  BY DEF process_ready
<1>3. /\ process_ready_list' \in Seq(Pid) /\ IsInjective(process_ready_list')
      /\ ToSet(process_ready_list') = ToSet(process_ready_list) \cup {p}
  BY <1>1, <1>2, AppendList, AppendProperties
<1>4. SchedTypeOK'
  BY <1>1, <1>2, <1>3 DEF SchedTypeOK, ProcState
<1>5. SchedInv'
  BY <1>1, <1>2, <1>3 DEF SchedInv, Awake
<1> QED BY <1>2, <1>4, <1>5

\* The current process leaves the CPU to one that sleeps.
LEMMA SwitchEffect ==
    ASSUME SchedTypeOK, SchedInv, NEW s \in ProcState \ Awake,
           NEW p \in Pid, state[p] \notin Awake,
           process_switch(p, process_ready_list, [state EXCEPT ![current_proc] = s])
    PROVE  /\ SchedTypeOK' /\ SchedInv'
           /\ state'[current_proc] = s /\ state'[p] = "RUNNING"
           /\ \A q \in Pid \ {current_proc, p} : state'[q] = state[q]
<1>1. /\ state \in [Pid -> ProcState] /\ current_proc \in Pid /\ current_proc # p
  BY DEF SchedTypeOK, SchedInv, Awake
<1>2. /\ current_proc' = p /\ process_ready_list' = process_ready_list /\ panicked' = panicked
      /\ state' = [[state EXCEPT ![current_proc] = s] EXCEPT ![p] = "RUNNING"]
  BY DEF process_switch
<1>3. SchedTypeOK'
  BY <1>1, <1>2 DEF SchedTypeOK, ProcState
<1>4. \A q \in Pid : state'[q] = IF q = p THEN "RUNNING" ELSE IF q = current_proc THEN s ELSE state[q]
  BY <1>1, <1>2
<1>5. SchedInv'
  BY <1>1, <1>2, <1>4 DEF SchedInv, Awake
<1> QED BY <1>1, <1>3, <1>4, <1>5

-----------------------------------------------------------------------------
(* Order: whether a change of the ready list moves a process back.          *)

\* From list s to list t nobody but the idle process moves back.
NotBack(s, t) ==
    \A p \in Pid \ {IDLE}, i \in DOMAIN s :
        s[i] = p /\ p \in ToSet(t) => \E j \in DOMAIN t : t[j] = p /\ j <= i

LEMMA NotBackSame ==
    ASSUME NEW s \in Seq(Pid)
    PROVE  NotBack(s, s)
<1>1. DOMAIN s \subseteq Int
  BY LenProperties
<1> QED BY <1>1 DEF NotBack

LEMMA NotBackTrans ==
    ASSUME NEW s \in Seq(Pid), NEW t \in Seq(Pid), NEW u \in Seq(Pid),
           NotBack(s, t), NotBack(t, u), ToSet(u) \subseteq ToSet(t)
    PROVE  NotBack(s, u)
<1>1. DOMAIN s \subseteq Int /\ DOMAIN t \subseteq Int /\ DOMAIN u \subseteq Int
  BY LenProperties
<1>2. ASSUME NEW p \in Pid \ {IDLE}, NEW i \in DOMAIN s, s[i] = p, p \in ToSet(u)
      PROVE  \E k \in DOMAIN u : u[k] = p /\ k <= i
  <2>1. PICK j \in DOMAIN t : t[j] = p /\ j <= i
    BY <1>2 DEF NotBack
  <2>2. PICK k \in DOMAIN u : u[k] = p /\ k <= j
    BY <1>2, <2>1 DEF NotBack
  <2>3. k <= i
    BY <1>1, <2>1, <2>2
  <2> QED BY <2>2, <2>3
<1> QED BY <1>2 DEF NotBack

LEMMA NotBackAppend ==
    ASSUME NEW s \in Seq(Pid), NEW e \in Pid
    PROVE  NotBack(s, Append(s, e))
<1>1. /\ DOMAIN s = 1 .. Len(s) /\ Len(s) \in Nat
      /\ DOMAIN Append(s, e) = 1 .. Len(s) + 1
      /\ \A i \in 1 .. Len(s) : Append(s, e)[i] = s[i]
  BY LenProperties, AppendProperties
<1> QED BY <1>1 DEF NotBack

LEMMA NotBackTail ==
    ASSUME NEW s \in Seq(Pid), s # <<>>, IsInjective(s)
    PROVE  NotBack(s, Tail(s))
<1>1. /\ DOMAIN s = 1 .. Len(s) /\ Len(s) \in Nat /\ Len(s) # 0
      /\ Len(Tail(s)) = Len(s) - 1 /\ Tail(s) \in Seq(Pid)
      /\ \A i \in 1 .. Len(Tail(s)) : Tail(s)[i] = s[i + 1]
      /\ Head(s) = s[1]
  BY LenProperties, EmptySeq, HeadTailProperties
<1>2. DOMAIN Tail(s) = 1 .. Len(s) - 1
  BY <1>1, LenProperties
<1>3. s[1] \notin ToSet(Tail(s))
  BY <1>1, TailList
<1>4. ASSUME NEW p \in Pid \ {IDLE}, NEW i \in DOMAIN s, s[i] = p, p \in ToSet(Tail(s))
      PROVE  \E j \in DOMAIN Tail(s) : Tail(s)[j] = p /\ j <= i
  <2>1. i # 1 /\ i \in 1 .. Len(s)
    BY <1>1, <1>3, <1>4
  <2>2. i - 1 \in 1 .. Len(s) - 1 /\ (i - 1) + 1 = i /\ i - 1 <= i
    BY <1>1, <2>1
  <2>3. Tail(s)[i - 1] = p
    BY <1>1, <1>4, <2>2
  <2> QED BY <1>2, <2>2, <2>3
<1> QED BY <1>4 DEF NotBack

LEMMA NotBackIdleLast ==
    ASSUME NEW s \in Seq(Pid), s # <<>>, IsInjective(s)
    PROVE  NotBack(s, IdleLast(s))
<1>1. CASE Head(s) = IDLE /\ Tail(s) # <<>>
  <2>1. /\ NotBack(s, Tail(s)) /\ Tail(s) \in Seq(Pid) /\ IDLE \in Pid
    BY <1>1, NotBackTail, HeadTailProperties
  <2> DEFINE rest == Tail(s)
  <2>2. rest \in Seq(Pid) /\ NotBack(s, rest)
    BY <2>1
  <2>3. IdleLast(s) = Append(rest, IDLE)
    BY <1>1 DEF IdleLast
  <2> HIDE DEF rest
  <2>4. /\ NotBack(rest, Append(rest, IDLE)) /\ ToSet(Append(rest, IDLE)) = ToSet(rest) \cup {IDLE}
        /\ DOMAIN rest \subseteq Int /\ DOMAIN Append(rest, IDLE) \subseteq Int /\ DOMAIN s \subseteq Int
    BY <2>1, <2>2, NotBackAppend, AppendList, AppendProperties, LenProperties
  <2>5. ASSUME NEW p \in Pid \ {IDLE}, NEW i \in DOMAIN s, s[i] = p, p \in ToSet(Append(rest, IDLE))
        PROVE  \E k \in DOMAIN Append(rest, IDLE) : Append(rest, IDLE)[k] = p /\ k <= i
    <3>1. p \in ToSet(rest)
      BY <2>4, <2>5
    <3>2. PICK j \in DOMAIN rest : rest[j] = p /\ j <= i
      BY <2>2, <2>5, <3>1 DEF NotBack
    <3>3. PICK k \in DOMAIN Append(rest, IDLE) : Append(rest, IDLE)[k] = p /\ k <= j
      BY <2>4, <2>5, <3>2 DEF NotBack
    <3>4. k <= i
      BY <2>4, <3>2, <3>3
    <3> QED BY <3>3, <3>4
  <2> QED BY <2>3, <2>5 DEF NotBack
<1>2. CASE ~(Head(s) = IDLE /\ Tail(s) # <<>>)
  BY <1>2, NotBackSame DEF IdleLast
<1> QED BY <1>1, <1>2

\* process_schedule takes the front of the list it is given.
LEMMA ScheduleOrder ==
    ASSUME NEW ready \in Seq(Pid), IsInjective(ready), NEW st, process_schedule(ready, st),
           process_ready_list \in Seq(Pid), NotBack(process_ready_list, ready)
    PROVE  NotBack(process_ready_list, process_ready_list')
<1>1. CASE ready = <<>>
  BY <1>1, NotBackSame DEF process_schedule
<1>2. CASE ready # <<>>
  <2> DEFINE list == IdleLast(ready)
  <2>1. /\ list \in Seq(Pid) /\ list # <<>> /\ ToSet(list) = ToSet(ready) /\ IsInjective(list)
        /\ NotBack(ready, list)
    BY <1>2, IdleLastList, NotBackIdleLast
  <2>2. process_ready_list' = Tail(list)
    BY <1>2 DEF process_schedule, process_switch
  <2> HIDE DEF list
  <2>3. /\ Tail(list) \in Seq(Pid) /\ ToSet(Tail(list)) \subseteq ToSet(list)
        /\ NotBack(list, Tail(list))
    BY <2>1, TailList, NotBackTail
  <2>4. NotBack(ready, Tail(list))
    BY <2>1, <2>3, NotBackTrans
  <2>5. NotBack(process_ready_list, Tail(list))
    BY <2>1, <2>3, <2>4, NotBackTrans
  <2> QED BY <2>2, <2>5
<1> QED BY <1>1, <1>2
=============================================================================
